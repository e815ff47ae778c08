-------------------------- MODULE PublisherProofs ---------------------------
(***************************************************************************)
(* The Publisher.  The safety of its dispatch journal, for any publications,*)
(* writers, sealers and restarts, that it implements PublicationWitness, and*)
(* what its calls do at GitHub beside people who use the repository.  JInv *)
(* and GitHubInv are the inductive invariants.                             *)
(***************************************************************************)
EXTENDS PublisherJournal, GitHubPublication, TLAPS

(* Writers that have made their slot, and those of them that hold it. *)
Inside == {"lock", "start", "prepare", "arm", "armed", "retain", "publishing", "settle"}
Locked == Inside \ {"lock"}

InSlot(w, i) == writer[w].id = i /\ writer[w].pc \in Inside

(* A slot in which nothing was ever written. *)
Fresh(i) == wrote[i] = {} /\ ~entered[i] /\ \A f \in Files : Absent(i, f)

(* What a writer knows of its slot at each of its steps. *)
WriterKnows(w) ==
  LET i  == writer[w].id
      pc == writer[w].pc
  IN
  /\ pc = "idle" => i = None
  /\ pc # "idle" => i \in Ids
  /\ pc \in Inside => slot[i].dir
  /\ pc \in Locked => lock[i] = w
  /\ pc \in {"lock", "start"} => wrote[i] = {} /\ \A f \in Files : Absent(i, f)
  /\ pc \in {"prepare", "arm"} => wrote[i] = {"started"}
  /\ pc \in {"armed", "retain", "publishing", "settle"} => wrote[i] = {"started", "invoked"}
  /\ pc \in Inside => (entered[i] <=> pc \in {"publishing", "settle"})
  /\ pc = "settle" => effect[i]

(* A slot is made once. *)
OneWriter ==
  \A w, x \in Writers : writer[w].pc \in Inside /\ writer[x].pc \in Inside
                        /\ writer[w].id = writer[x].id => w = x

(* A sealer holds the lock, and before it writes its seal it has seen that *)
(* the slot is the original and has no intent.                             *)
SealerKnows(s) ==
  LET i  == sealer[s].id
      pc == sealer[s].pc
  IN
  /\ pc = "idle" => i = None
  /\ pc # "idle" => i \in Ids /\ lock[i] = s
  /\ pc = "seal" => /\ Readable(i, "started") /\ SameIncarnation(i)
                    /\ \A f \in Files \ {"started"} : Absent(i, f)

LockInv ==
  \A i \in Ids :
    /\ lock[i] \in Writers => writer[lock[i]].id = i /\ writer[lock[i]].pc \in Locked
    /\ lock[i] \in Sealers => sealer[lock[i]].id = i

(* What the files say, what was ever written, and what happened outside.   *)
(* A slot of its own incarnation has lost no file.                         *)
SlotInv(i) ==
  /\ ~slot[i].dir => Fresh(i)
  /\ slot[i].start <= incarnation[i]
  /\ \A f \in Files : Readable(i, f) => f \in wrote[i]
  /\ SameIncarnation(i) => \A f \in wrote[i] : Readable(i, f)
  /\ wrote[i] # {} => "started" \in wrote[i]
  /\ entered[i] => "invoked" \in wrote[i] /\ "not-invoked" \notin wrote[i]
  /\ effect[i] => entered[i]
  /\ "completed" \in wrote[i] => effect[i]
  /\ "not-invoked" \in wrote[i] => \A w \in Writers : ~InSlot(w, i)
  /\ issued[i] => "not-invoked" \in wrote[i]

JInv ==
  /\ TypeOK /\ OneWriter /\ LockInv
  /\ \A w \in Writers : WriterKnows(w)
  /\ \A s \in Sealers : SealerKnows(s)
  /\ \A i \in Ids : SlotInv(i)

-----------------------------------------------------------------------------
(* What the steps of a process do to the variables. *)

LEMMA Types ==
  ASSUME TypeOK
  PROVE  /\ \A i \in Ids : slot[i].dir \in BOOLEAN /\ slot[i].start \in Nat
                           /\ slot[i].afterArm \in BOOLEAN /\ incarnation[i] \in Nat
                           /\ slot[i].file \in [Files -> FileState] /\ wrote[i] \subseteq Files
         /\ \A w \in Writers : writer[w].pc \in WriterPCs
         /\ \A s \in Sealers : sealer[s].pc \in SealerPCs
BY IncarnationAssumption DEF TypeOK, Slot

(* What Store does, field by field. *)
FileStored(i, f, state, start) ==
  /\ slot' \in [Ids -> Slot] /\ wrote' \in [Ids -> SUBSET Files]
  /\ slot'[i].dir = slot[i].dir /\ slot'[i].start = start
  /\ \A g \in Files : slot'[i].file[g] = IF g = f THEN state ELSE slot[i].file[g]
  /\ wrote'[i] = IF state = "whole" THEN wrote[i] \cup {f} ELSE wrote[i]
  /\ \A j \in Ids : j # i => slot'[j] = slot[j] /\ wrote'[j] = wrote[j]

LEMMA Stored ==
  ASSUME TypeOK, NEW i \in Ids, NEW f \in Files, NEW state \in FileState, NEW start \in Nat,
         NEW after \in BOOLEAN, Store(i, f, state, start, after)
  PROVE  FileStored(i, f, state, start)
<1> DEFINE new == [dir |-> slot[i].dir, file |-> [slot[i].file EXCEPT ![f] = state],
                   start |-> start, afterArm |-> after]
<1>1. slot[i].dir \in BOOLEAN /\ slot[i].file \in [Files -> FileState] BY Types
<1>2. [slot[i].file EXCEPT ![f] = state] \in [Files -> FileState] BY <1>1
<1>3. new \in Slot BY <1>1, <1>2 DEF Slot
<1>4. \A g \in Files : new.file[g] = IF g = f THEN state ELSE slot[i].file[g] BY <1>1
<1>5. new.dir = slot[i].dir /\ new.start = start OBVIOUS
<1>6. slot' = [slot EXCEPT ![i] = new] BY DEF Store
<1> HIDE DEF new
<1>7. slot' \in [Ids -> Slot] /\ slot'[i] = new /\ \A j \in Ids : j # i => slot'[j] = slot[j]
  BY <1>3, <1>6 DEF TypeOK
<1>8. /\ wrote' \in [Ids -> SUBSET Files]
      /\ wrote'[i] = IF state = "whole" THEN wrote[i] \cup {f} ELSE wrote[i]
      /\ \A j \in Ids : j # i => wrote'[j] = wrote[j]
  BY DEF Store, TypeOK
<1> QED BY <1>4, <1>5, <1>7, <1>8 DEF FileStored

LEMMA WriterRetired ==
  ASSUME TypeOK, NEW w \in Writers, RetireWriter(w)
  PROVE  /\ writer' \in [Writers -> [pc : WriterPCs, id : Ids \cup {None}]]
         /\ lock' \in [Ids -> Writers \cup Sealers \cup {None}]
         /\ writer'[w].pc = "idle" /\ writer'[w].id = None
         /\ \A x \in Writers : x # w => writer'[x] = writer[x]
         /\ \A i \in Ids : lock'[i] = IF lock[i] = w THEN None ELSE lock[i]
<1>1. Retired \in [pc : WriterPCs, id : Ids \cup {None}] BY DEF Retired, WriterPCs
<1>2. Retired.pc = "idle" /\ Retired.id = None BY DEF Retired
<1> QED BY <1>1, <1>2 DEF TypeOK, RetireWriter, Unlocked

LEMMA SealerRetired ==
  ASSUME TypeOK, NEW s \in Sealers, RetireSealer(s)
  PROVE  /\ sealer' \in [Sealers -> [pc : SealerPCs, id : Ids \cup {None}]]
         /\ lock' \in [Ids -> Writers \cup Sealers \cup {None}]
         /\ sealer'[s].pc = "idle" /\ sealer'[s].id = None
         /\ \A x \in Sealers : x # s => sealer'[x] = sealer[x]
         /\ \A i \in Ids : lock'[i] = IF lock[i] = s THEN None ELSE lock[i]
<1>1. Retired \in [pc : SealerPCs, id : Ids \cup {None}] BY DEF Retired, SealerPCs
<1>2. Retired.pc = "idle" /\ Retired.id = None BY DEF Retired
<1> QED BY <1>1, <1>2 DEF TypeOK, RetireSealer, Unlocked

LEMMA WriterGone ==
  ASSUME TypeOK, NEW w \in Writers, NEW pc \in WriterPCs, GoWriter(w, pc)
  PROVE  /\ writer' \in [Writers -> [pc : WriterPCs, id : Ids \cup {None}]]
         /\ writer'[w].pc = pc /\ writer'[w].id = writer[w].id
         /\ \A x \in Writers : x # w => writer'[x] = writer[x]
BY DEF TypeOK, GoWriter

LEMMA SealerGone ==
  ASSUME TypeOK, NEW s \in Sealers, NEW pc \in SealerPCs, GoSealer(s, pc)
  PROVE  /\ sealer' \in [Sealers -> [pc : SealerPCs, id : Ids \cup {None}]]
         /\ sealer'[s].pc = pc /\ sealer'[s].id = sealer[s].id
         /\ \A x \in Sealers : x # s => sealer'[x] = sealer[x]
BY DEF TypeOK, GoSealer

-----------------------------------------------------------------------------
(* What a step that leaves a slot alone leaves true of it. *)

Same(i) ==
  /\ slot'[i] = slot[i] /\ wrote'[i] = wrote[i] /\ incarnation'[i] = incarnation[i]
  /\ entered'[i] = entered[i] /\ effect'[i] = effect[i] /\ issued'[i] = issued[i]

LEMMA WriterKept ==
  ASSUME NEW w \in Writers, WriterKnows(w), writer'[w] = writer[w],
         writer[w].pc \in Inside =>
           Same(writer[w].id) /\ (writer[w].pc \in Locked => lock'[writer[w].id] = lock[writer[w].id])
  PROVE  WriterKnows(w)'
BY DEF WriterKnows, Same, Inside, Locked, Absent

LEMMA SealerKept ==
  ASSUME NEW s \in Sealers, SealerKnows(s), sealer'[s] = sealer[s],
         sealer[s].pc # "idle" => Same(sealer[s].id) /\ lock'[sealer[s].id] = lock[sealer[s].id]
  PROVE  SealerKnows(s)'
BY DEF SealerKnows, Same, Readable, Absent, SameIncarnation

LEMMA SlotKept ==
  ASSUME NEW i \in Ids, SlotInv(i), Same(i), \A x \in Writers : InSlot(x, i)' => InSlot(x, i)
  PROVE  SlotInv(i)'
BY DEF SlotInv, Same, Fresh, Readable, Absent, SameIncarnation

(* Writers and sealers exclude each other. *)
LEMMA Exclusive ==
  ASSUME JInv, NEW w \in Writers, writer[w].pc \in Locked
  PROVE  LET i == writer[w].id IN
         /\ i \in Ids /\ lock[i] = w /\ slot[i].dir
         /\ \A x \in Writers : x # w /\ writer[x].id = i => writer[x].pc \notin Inside
         /\ \A s \in Sealers : sealer[s].pc # "idle" => sealer[s].id # i
<1> DEFINE i == writer[w].id
<1>1. WriterKnows(w) BY DEF JInv
<1>2. i \in Ids /\ lock[i] = w /\ slot[i].dir BY <1>1 DEF WriterKnows, Locked, Inside
<1>3. ASSUME NEW x \in Writers, x # w, writer[x].id = i PROVE writer[x].pc \notin Inside
  BY <1>3 DEF JInv, OneWriter, Locked
<1>4. ASSUME NEW s \in Sealers, sealer[s].pc # "idle" PROVE sealer[s].id # i
  <2>1. SealerKnows(s) BY DEF JInv
  <2>2. w # s BY ProcessesAssumption
  <2> QED BY <1>2, <1>4, <2>1, <2>2 DEF SealerKnows
<1> QED BY <1>2, <1>3, <1>4

(* A step of a writer that holds its slot concerns only that slot. *)
LEMMA WriterLocal ==
  ASSUME JInv, NEW w \in Writers, NEW i \in Ids, writer[w].pc \in Locked, writer[w].id = i,
         TypeOK', UNCHANGED <<sealer, incarnation>>,
         \A j \in Ids : j # i => Same(j) /\ lock'[j] = lock[j],
         \A x \in Writers : x # w => writer'[x] = writer[x],
         \/ writer'[w].pc = "idle" /\ writer'[w].id = None /\ lock'[i] = None
         \/ writer'[w].pc \in Locked /\ writer'[w].id = i /\ lock'[i] = w /\ WriterKnows(w)',
         SlotInv(i)'
  PROVE  JInv'
<1>1. /\ lock[i] = w /\ slot[i].dir
      /\ \A x \in Writers : x # w /\ writer[x].id = i => writer[x].pc \notin Inside
      /\ \A s \in Sealers : sealer[s].pc # "idle" => sealer[s].id # i
  BY Exclusive
<1>2. None \notin Ids /\ None \notin Writers /\ None \notin Sealers /\ Writers \cap Sealers = {}
  BY ProcessesAssumption
<1>3. ASSUME NEW x \in Writers PROVE WriterKnows(x)'
  <2>1. CASE x # w
    <3>1. WriterKnows(x) BY DEF JInv
    <3>2. writer[x].pc \in Inside => writer[x].id \in Ids /\ writer[x].id # i
      BY <1>1, <2>1, <3>1 DEF WriterKnows, Inside
    <3> QED BY <2>1, <3>1, <3>2, WriterKept
  <2>2. CASE x = w /\ writer'[w].pc = "idle" BY <2>2 DEF WriterKnows, Inside, Locked
  <2>3. CASE x = w /\ writer'[w].pc # "idle" BY <2>3
  <2> QED BY <2>1, <2>2, <2>3
<1>4. ASSUME NEW s \in Sealers PROVE SealerKnows(s)'
  <2>1. SealerKnows(s) BY DEF JInv
  <2>2. sealer[s].pc # "idle" => sealer[s].id \in Ids /\ sealer[s].id # i
    BY <1>1, <2>1 DEF SealerKnows
  <2> QED BY <2>1, <2>2, SealerKept
<1>5. ASSUME NEW x \in Writers, writer'[x].pc \in Inside
      PROVE  writer[x].pc \in Inside /\ writer[x].id = writer'[x].id
  BY <1>5 DEF Inside, Locked
<1>6. OneWriter' BY <1>5 DEF JInv, OneWriter
<1>7. LockInv'
  <2> SUFFICES ASSUME NEW j \in Ids
               PROVE  /\ lock'[j] \in Writers =>
                           writer'[lock'[j]].id = j /\ writer'[lock'[j]].pc \in Locked
                      /\ lock'[j] \in Sealers => sealer'[lock'[j]].id = j
    BY DEF LockInv
  <2>1. CASE j = i BY <1>2, <2>1
  <2>2. CASE j # i
    <3>1. lock'[j] = lock[j] /\ lock[j] # w
      BY <2>2 DEF JInv, LockInv
    <3> QED BY <3>1 DEF JInv, LockInv
  <2> QED BY <2>1, <2>2
<1>8. ASSUME NEW j \in Ids PROVE SlotInv(j)'
  <2>1. CASE j = i BY <2>1
  <2>2. CASE j # i
    <3>1. \A x \in Writers : InSlot(x, j)' => InSlot(x, j) BY <1>5 DEF InSlot
    <3> QED BY <2>2, <3>1, SlotKept DEF JInv
  <2> QED BY <2>1, <2>2
<1> QED BY <1>3, <1>4, <1>6, <1>7, <1>8 DEF JInv

(* What a witness file, whole or torn, leaves true of its slot. *)
LEMMA SlotStored ==
  ASSUME TypeOK, NEW i \in Ids, SlotInv(i), slot[i].dir,
         NEW f \in Files, NEW state \in {"whole", "torn"}, NEW start \in Nat, NEW after \in BOOLEAN,
         Absent(i, f), Store(i, f, state, start, after),
         start = slot[i].start \/ (wrote[i] = {} /\ start = incarnation[i]),
         state = "whole" => /\ f = "started" \/ "started" \in wrote[i]
                            /\ f = "not-invoked" => ~entered[i]
                            /\ f = "completed" => effect[i],
         "not-invoked" \in wrote'[i] => \A x \in Writers : ~InSlot(x, i)',
         UNCHANGED <<incarnation, effect, entered, issued>>
  PROVE  SlotInv(i)'
<1>1. FileStored(i, f, state, start)
  <2>1. state \in FileState BY DEF FileState
  <2> QED BY <2>1, Stored
<1>2. wrote[i] \subseteq Files /\ incarnation[i] \in Nat /\ slot[i].start \in Nat BY Types
<1>3. \A g \in Files : Readable(i, g)' => g \in wrote'[i]
  BY <1>1 DEF FileStored, SlotInv, Readable, Absent
<1>4. SameIncarnation(i)' => \A g \in wrote'[i] : Readable(i, g)'
  BY <1>1, <1>2 DEF FileStored, SlotInv, Readable, Absent, SameIncarnation
<1>5. slot'[i].start <= incarnation'[i] BY <1>1, <1>2 DEF FileStored, SlotInv
<1>6. /\ wrote'[i] # {} => "started" \in wrote'[i]
      /\ entered'[i] => "invoked" \in wrote'[i] /\ "not-invoked" \notin wrote'[i]
      /\ effect'[i] => entered'[i]
      /\ "completed" \in wrote'[i] => effect'[i]
      /\ issued'[i] => "not-invoked" \in wrote'[i]
  BY <1>1 DEF FileStored, SlotInv
<1> QED BY <1>1, <1>3, <1>4, <1>5, <1>6 DEF FileStored, SlotInv

(* A writer that holds its slot returns, with or without writing a file. *)
LEMMA WriterOut ==
  ASSUME JInv, NEW w \in Writers, NEW i \in Ids, writer[w].pc \in Locked, writer[w].id = i,
         RetireWriter(w)
  PROVE  /\ \A j \in Ids : j # i => lock'[j] = lock[j]
         /\ \A x \in Writers : x # w => writer'[x] = writer[x]
         /\ writer'[w].pc = "idle" /\ writer'[w].id = None /\ lock'[i] = None
         /\ \A x \in Writers : ~InSlot(x, i)'
<1>0. TypeOK BY DEF JInv
<1>1. /\ lock[i] = w
      /\ \A x \in Writers : x # w /\ writer[x].id = i => writer[x].pc \notin Inside
  BY Exclusive
<1>2. /\ writer'[w].pc = "idle" /\ writer'[w].id = None
      /\ \A x \in Writers : x # w => writer'[x] = writer[x]
      /\ \A j \in Ids : lock'[j] = IF lock[j] = w THEN None ELSE lock[j]
  BY <1>0, WriterRetired
<1>3. \A j \in Ids : lock[j] = w => j = i BY DEF JInv, LockInv
<1>4. \A x \in Writers : ~InSlot(x, i)' BY <1>1, <1>2 DEF InSlot, Inside
<1> QED BY <1>1, <1>2, <1>3, <1>4

(* It returns without writing. *)
LEMMA WriterQuits ==
  ASSUME JInv, NEW w \in Writers, NEW i \in Ids, writer[w].pc \in Locked, writer[w].id = i,
         RetireWriter(w),
         UNCHANGED <<slot, incarnation, sealer, effect, entered, wrote, issued>>
  PROVE  JInv'
<1>0. TypeOK BY DEF JInv
<1>2. TypeOK' BY <1>0, WriterRetired DEF TypeOK
<1>4. /\ \A j \in Ids : j # i => lock'[j] = lock[j]
      /\ \A x \in Writers : x # w => writer'[x] = writer[x]
      /\ writer'[w].pc = "idle" /\ writer'[w].id = None /\ lock'[i] = None
      /\ \A x \in Writers : ~InSlot(x, i)'
  BY WriterOut
<1>5. \A j \in Ids : Same(j) BY DEF Same
<1>6. SlotInv(i)' BY <1>4, <1>5, SlotKept DEF JInv
<1> QED BY <1>2, <1>4, <1>5, <1>6, WriterLocal

(* It returns after writing. *)
LEMMA WriterStores ==
  ASSUME JInv, NEW w \in Writers, NEW i \in Ids, writer[w].pc \in Locked, writer[w].id = i,
         RetireWriter(w),
         NEW f \in Files, NEW state \in {"whole", "torn"}, NEW start \in Nat, NEW after \in BOOLEAN,
         Absent(i, f), Store(i, f, state, start, after),
         start = slot[i].start \/ (wrote[i] = {} /\ start = incarnation[i]),
         state = "whole" => /\ f = "started" \/ "started" \in wrote[i]
                            /\ f = "not-invoked" => ~entered[i]
                            /\ f = "completed" => effect[i],
         UNCHANGED <<incarnation, sealer, effect, entered, issued>>
  PROVE  JInv'
<1>0. TypeOK /\ SlotInv(i) BY DEF JInv
<1>1. slot[i].dir BY Exclusive
<1>2. FileStored(i, f, state, start)
  <2>1. state \in FileState BY DEF FileState
  <2> QED BY <1>0, <2>1, Stored
<1>3. TypeOK' BY <1>0, <1>2, WriterRetired DEF TypeOK, FileStored
<1>4. /\ \A j \in Ids : j # i => lock'[j] = lock[j]
      /\ \A x \in Writers : x # w => writer'[x] = writer[x]
      /\ writer'[w].pc = "idle" /\ writer'[w].id = None /\ lock'[i] = None
      /\ \A x \in Writers : ~InSlot(x, i)'
  BY WriterOut
<1>5. \A j \in Ids : j # i => Same(j) BY <1>2 DEF Same, FileStored
<1>6. SlotInv(i)' BY <1>0, <1>1, <1>4, SlotStored
<1> QED BY <1>3, <1>4, <1>5, <1>6, WriterLocal

-----------------------------------------------------------------------------
(* The steps of a publish request that holds its slot. *)

LEMMA WriteAndGoSafe ==
  ASSUME JInv, NEW w \in Writers, NEW i \in Ids, writer[w].pc \in Locked, writer[w].id = i,
         NEW f \in {"started", "invoked"}, NEW pc \in {"prepare", "armed"},
         pc = "prepare" <=> f = "started",
         f = "started" => wrote[i] = {},
         f = "invoked" => wrote[i] = {"started"},
         ~entered[i],
         WriteAndGo(w, f, pc), UNCHANGED <<incarnation, sealer, effect, entered, issued>>
  PROVE  JInv'
<1> DEFINE start == IF f = "started" THEN incarnation[i] ELSE slot[i].start
           after == slot[i].afterArm
<1>0. TypeOK /\ SlotInv(i) /\ f \in Files BY DEF JInv, Files
<1>1. start \in Nat /\ after \in BOOLEAN BY <1>0, Types
<1>2. start = slot[i].start \/ (wrote[i] = {} /\ start = incarnation[i]) OBVIOUS
<1>3. \A state : Put(i, f, state) => Absent(i, f) /\ Store(i, f, state, start, after)
  BY DEF Put
<1>4. f = "started" \/ "started" \in wrote[i] OBVIOUS
<1>5. f # "not-invoked" /\ f # "completed" OBVIOUS
<1> HIDE DEF start, after
<1>6. CASE Put(i, f, "whole") /\ GoWriter(w, pc) /\ lock' = lock
  <2>1. Absent(i, f) /\ Store(i, f, "whole", start, after) BY <1>3, <1>6
  <2>2. FileStored(i, f, "whole", start)
    <3>1. "whole" \in FileState BY DEF FileState
    <3> QED BY <1>0, <1>1, <2>1, <3>1, Stored
  <2>3. pc \in WriterPCs /\ pc \in Locked BY DEF WriterPCs, Locked, Inside
  <2>4. /\ writer' \in [Writers -> [pc : WriterPCs, id : Ids \cup {None}]]
        /\ writer'[w].pc = pc /\ writer'[w].id = writer[w].id
        /\ \A x \in Writers : x # w => writer'[x] = writer[x]
    BY <1>0, <1>6, <2>3, WriterGone
  <2>5. TypeOK' BY <1>0, <1>6, <2>2, <2>4 DEF TypeOK, FileStored
  <2>6. \A j \in Ids : j # i => Same(j) /\ lock'[j] = lock[j] BY <1>6, <2>2 DEF Same, FileStored
  <2>7. lock'[i] = w /\ slot[i].dir /\ slot'[i].dir BY <1>6, <2>2, Exclusive DEF FileStored
  <2>8. wrote'[i] = wrote[i] \cup {f} BY <2>2 DEF FileStored
  <2>9. WriterKnows(w)'
    BY <2>3, <2>4, <2>7, <2>8 DEF WriterKnows, Inside, Locked
  <2>10. "not-invoked" \notin wrote'[i] BY <2>8
  <2>11. SlotInv(i)' BY <1>0, <1>1, <1>2, <1>4, <1>5, <2>1, <2>7, <2>10, SlotStored
  <2> QED BY <2>3, <2>4, <2>5, <2>6, <2>7, <2>9, <2>11, WriterLocal
<1>7. CASE Put(i, f, "torn") /\ RetireWriter(w)
  <2>1. Absent(i, f) /\ Store(i, f, "torn", start, after) BY <1>3, <1>7
  <2> QED BY <1>0, <1>1, <1>2, <1>4, <1>5, <1>7, <2>1, WriterStores
<1>8. CASE ~Absent(i, f) /\ RetireWriter(w) /\ UNCHANGED <<slot, wrote>>
  BY <1>8, WriterQuits
<1> QED BY <1>6, <1>7, <1>8 DEF WriteAndGo

LEMMA WriteStartedSafe ==
  ASSUME JInv, NEW w \in Writers, WriteStarted(w)  PROVE JInv'
<1>1. WriterKnows(w) /\ writer[w].pc = "start" /\ writer[w].pc \in Locked
  BY DEF JInv, WriteStarted, WriterAt, Locked, Inside
<1>2. ASSUME NEW i \in Ids, i = writer[w].id PROVE JInv'
  <2>1. wrote[i] = {} /\ ~entered[i] BY <1>1, <1>2 DEF WriterKnows, Inside
  <2>2. WriteAndGo(w, "started", "prepare") /\ UNCHANGED <<incarnation, sealer, effect, entered, issued>>
    BY DEF WriteStarted
  <2> QED BY <1>1, <1>2, <2>1, <2>2, WriteAndGoSafe
<1> QED BY <1>1, <1>2, Exclusive

LEMMA ArmSafe ==
  ASSUME JInv, NEW w \in Writers, Arm(w)  PROVE JInv'
<1>1. WriterKnows(w) /\ writer[w].pc = "arm" /\ writer[w].pc \in Locked
  BY DEF JInv, Arm, WriterAt, Locked, Inside
<1>2. ASSUME NEW i \in Ids, i = writer[w].id PROVE JInv'
  <2>1. wrote[i] = {"started"} /\ ~entered[i] BY <1>1, <1>2 DEF WriterKnows, Inside
  <2>2. WriteAndGo(w, "invoked", "armed") /\ UNCHANGED <<incarnation, sealer, effect, entered, issued>>
    BY DEF Arm
  <2> QED BY <1>1, <1>2, <2>1, <2>2, WriteAndGoSafe
<1> QED BY <1>1, <1>2, Exclusive

(* It goes on without writing; Publish is entered at most here. *)
LEMMA WriterMoves ==
  ASSUME JInv, NEW w \in Writers, NEW i \in Ids, writer[w].pc \in Locked, writer[w].id = i,
         NEW pc \in Locked, GoWriter(w, pc), UNCHANGED <<slot, incarnation, lock, sealer, effect, wrote, issued>>,
         pc \notin {"lock", "start"},
         pc = "arm" => writer[w].pc = "prepare",
         pc \in {"retain", "publishing"} => writer[w].pc = "armed",
         pc = "settle" => writer[w].pc = "publishing" /\ effect[i],
         pc \notin {"prepare", "armed"},
         entered' = IF pc = "publishing" THEN [entered EXCEPT ![i] = TRUE] ELSE entered
  PROVE  JInv'
<1>0. TypeOK /\ SlotInv(i) /\ WriterKnows(w) BY DEF JInv
<1>1. pc \in WriterPCs BY DEF WriterPCs, Locked, Inside
<1>2. /\ writer' \in [Writers -> [pc : WriterPCs, id : Ids \cup {None}]]
      /\ writer'[w].pc = pc /\ writer'[w].id = writer[w].id
      /\ \A x \in Writers : x # w => writer'[x] = writer[x]
  BY <1>0, <1>1, WriterGone
<1>3. /\ entered' \in [Ids -> BOOLEAN]
      /\ entered'[i] = IF pc = "publishing" THEN TRUE ELSE entered[i]
      /\ \A j \in Ids : j # i => entered'[j] = entered[j]
  BY <1>0 DEF TypeOK
<1>4. TypeOK' BY <1>0, <1>2, <1>3 DEF TypeOK
<1>5. \A j \in Ids : j # i => Same(j) /\ lock'[j] = lock[j] BY <1>3 DEF Same
<1>6. lock[i] = w /\ slot[i].dir BY Exclusive
<1>7. wrote[i] = IF pc = "arm" THEN {"started"} ELSE {"started", "invoked"}
  BY <1>0 DEF WriterKnows, Locked, Inside
<1>8. entered'[i] <=> pc \in {"publishing", "settle"}
  BY <1>0, <1>3 DEF WriterKnows, Locked, Inside
<1>9. WriterKnows(w)' BY <1>2, <1>6, <1>7, <1>8 DEF WriterKnows, Locked, Inside
<1>10. SlotInv(i)'
  <2>1. entered'[i] => "invoked" \in wrote[i] BY <1>7, <1>8
  <2>2. "not-invoked" \notin wrote[i] BY <1>7
  <2>3. effect[i] => entered'[i] BY <1>0, <1>3 DEF SlotInv
  <2> QED BY <1>0, <1>6, <2>1, <2>2, <2>3 DEF SlotInv, Readable, SameIncarnation, Absent
<1> QED BY <1>2, <1>4, <1>5, <1>6, <1>9, <1>10, WriterLocal

LEMMA PrepareSafe ==
  ASSUME JInv, NEW w \in Writers, Prepare(w)  PROVE JInv'
<1>1. writer[w].pc = "prepare" /\ writer[w].pc \in Locked
  BY DEF Prepare, WriterAt, Locked, Inside
<1>2. ASSUME NEW i \in Ids, i = writer[w].id PROVE JInv'
  <2>1. CASE GoWriter(w, "arm") /\ lock' = lock
    BY <1>1, <1>2, <2>1, WriterMoves DEF Prepare, Locked, Inside
  <2>2. CASE RetireWriter(w) BY <1>1, <1>2, <2>2, WriterQuits DEF Prepare
  <2> QED BY <2>1, <2>2 DEF Prepare
<1> QED BY <1>1, <1>2, Exclusive

LEMMA EnterSafe ==
  ASSUME JInv, NEW w \in Writers, Enter(w)  PROVE JInv'
<1>1. writer[w].pc = "armed" /\ writer[w].pc \in Locked
  BY DEF Enter, WriterAt, Locked, Inside
<1>2. ASSUME NEW i \in Ids, i = writer[w].id PROVE JInv'
  BY <1>1, <1>2, WriterMoves DEF Enter, Locked, Inside
<1> QED BY <1>1, <1>2, Exclusive

LEMMA CancelArmedSafe ==
  ASSUME JInv, NEW w \in Writers, CancelArmed(w)  PROVE JInv'
<1>1. writer[w].pc = "armed" /\ writer[w].pc \in Locked
  BY DEF CancelArmed, WriterAt, Locked, Inside
<1>2. ASSUME NEW i \in Ids, i = writer[w].id PROVE JInv'
  BY <1>1, <1>2, WriterMoves DEF CancelArmed, Locked, Inside
<1> QED BY <1>1, <1>2, Exclusive

LEMMA PublishReturnsSafe ==
  ASSUME JInv, NEW w \in Writers, PublishReturns(w)  PROVE JInv'
<1>1. writer[w].pc = "publishing" /\ writer[w].pc \in Locked
  BY DEF PublishReturns, WriterAt, Locked, Inside
<1>2. ASSUME NEW i \in Ids, i = writer[w].id PROVE JInv'
  <2>1. CASE effect[i] /\ GoWriter(w, "settle") /\ lock' = lock
    BY <1>1, <1>2, <2>1, WriterMoves DEF PublishReturns, Locked, Inside
  <2>2. CASE RetireWriter(w) BY <1>1, <1>2, <2>2, WriterQuits DEF PublishReturns
  <2> QED BY <1>2, <2>1, <2>2 DEF PublishReturns
<1> QED BY <1>1, <1>2, Exclusive

LEMMA RetainCertificateSafe ==
  ASSUME JInv, NEW w \in Writers, RetainCertificate(w)  PROVE JInv'
<1>1. WriterKnows(w) /\ writer[w].pc = "retain" /\ writer[w].pc \in Locked
  BY DEF JInv, RetainCertificate, WriterAt, Locked, Inside
<1>2. ASSUME NEW i \in Ids, i = writer[w].id PROVE JInv'
  <2>1. RetireWriter(w) /\ UNCHANGED <<incarnation, sealer, effect, entered, issued>>
    BY DEF RetainCertificate
  <2>2. wrote[i] = {"started", "invoked"} /\ ~entered[i] BY <1>1, <1>2 DEF WriterKnows, Inside
  <2>3. CASE UNCHANGED <<slot, wrote>> BY <1>1, <1>2, <2>1, <2>3, WriterQuits
  <2>4. ASSUME NEW state \in {"whole", "torn"}, Absent(i, "not-invoked"),
               Store(i, "not-invoked", state, slot[i].start, TRUE)
        PROVE  JInv'
    <3>1. slot[i].start \in Nat /\ TRUE \in BOOLEAN /\ "not-invoked" \in Files
      BY Types DEF JInv, Files
    <3> QED BY <1>1, <1>2, <2>1, <2>2, <2>4, <3>1, WriterStores
  <2> QED BY <1>2, <2>3, <2>4 DEF RetainCertificate
<1> QED BY <1>1, <1>2, Exclusive

LEMMA WriteCompletedSafe ==
  ASSUME JInv, NEW w \in Writers, WriteCompleted(w)  PROVE JInv'
<1>1. WriterKnows(w) /\ writer[w].pc = "settle" /\ writer[w].pc \in Locked
  BY DEF JInv, WriteCompleted, WriterAt, Locked, Inside
<1>2. ASSUME NEW i \in Ids, i = writer[w].id PROVE JInv'
  <2>1. RetireWriter(w) /\ UNCHANGED <<incarnation, sealer, effect, entered, issued>>
    BY DEF WriteCompleted
  <2>2. wrote[i] = {"started", "invoked"} /\ effect[i] BY <1>1, <1>2 DEF WriterKnows
  <2>3. CASE UNCHANGED <<slot, wrote>> BY <1>1, <1>2, <2>1, <2>3, WriterQuits
  <2>4. ASSUME NEW state \in {"whole", "torn"}, Put(i, "completed", state)
        PROVE  JInv'
    <3>1. slot[i].start \in Nat /\ slot[i].afterArm \in BOOLEAN /\ "completed" \in Files
      BY Types DEF JInv, Files
    <3>2. Absent(i, "completed") /\ Store(i, "completed", state, slot[i].start, slot[i].afterArm)
      BY <2>4 DEF Put
    <3> QED BY <1>1, <1>2, <2>1, <2>2, <3>1, <3>2, WriterStores
  <2> QED BY <1>2, <2>3, <2>4 DEF WriteCompleted
<1> QED BY <1>1, <1>2, Exclusive

-----------------------------------------------------------------------------
(* The steps of a publish request that does not hold its slot. *)

(* A writer that holds nothing returns, or a new one arrives. *)
LEMMA OutsiderMoves ==
  ASSUME JInv, NEW w \in Writers, writer[w].pc \notin Locked, TypeOK',
         UNCHANGED <<slot, incarnation, sealer, effect, entered, wrote, issued>>,
         \A j \in Ids : lock'[j] = lock[j],
         \A x \in Writers : x # w => writer'[x] = writer[x],
         writer'[w].pc \in {"idle", "mkdir"}, WriterKnows(w)'
  PROVE  JInv'
<1>1. \A j \in Ids : Same(j) BY DEF Same
<1>2. \A j \in Ids : lock[j] # w BY DEF JInv, LockInv
<1>3. ASSUME NEW x \in Writers PROVE WriterKnows(x)'
  <2>1. CASE x # w
    <3>1. WriterKnows(x) BY DEF JInv
    <3>2. writer[x].pc \in Inside => writer[x].id \in Ids BY <3>1 DEF WriterKnows, Inside
    <3> QED BY <1>1, <2>1, <3>1, <3>2, WriterKept
  <2> QED BY <2>1
<1>4. ASSUME NEW s \in Sealers PROVE SealerKnows(s)'
  <2>1. SealerKnows(s) BY DEF JInv
  <2>2. sealer[s].pc # "idle" => sealer[s].id \in Ids BY <2>1 DEF SealerKnows
  <2> QED BY <1>1, <2>1, <2>2, SealerKept
<1>5. ASSUME NEW x \in Writers, writer'[x].pc \in Inside PROVE writer'[x] = writer[x]
  BY <1>5 DEF Inside
<1>6. OneWriter' BY <1>5 DEF JInv, OneWriter
<1>7. LockInv' BY <1>2 DEF JInv, LockInv
<1>8. ASSUME NEW j \in Ids PROVE SlotInv(j)'
  <2>1. \A x \in Writers : InSlot(x, j)' => InSlot(x, j) BY <1>5 DEF InSlot
  <2> QED BY <1>1, <2>1, SlotKept DEF JInv
<1> QED BY <1>3, <1>4, <1>6, <1>7, <1>8 DEF JInv

LEMMA OutsiderQuits ==
  ASSUME JInv, NEW w \in Writers, writer[w].pc \notin Locked, RetireWriter(w),
         UNCHANGED <<slot, incarnation, sealer, effect, entered, wrote, issued>>
  PROVE  JInv'
<1>0. TypeOK BY DEF JInv
<1>1. /\ writer' \in [Writers -> [pc : WriterPCs, id : Ids \cup {None}]]
      /\ lock' \in [Ids -> Writers \cup Sealers \cup {None}]
      /\ writer'[w].pc = "idle" /\ writer'[w].id = None
      /\ \A x \in Writers : x # w => writer'[x] = writer[x]
      /\ \A i \in Ids : lock'[i] = IF lock[i] = w THEN None ELSE lock[i]
  BY <1>0, WriterRetired
<1>2. \A j \in Ids : lock'[j] = lock[j] BY <1>1 DEF JInv, LockInv
<1>3. TypeOK' BY <1>0, <1>1 DEF TypeOK
<1>4. WriterKnows(w)' BY <1>1 DEF WriterKnows, Inside, Locked
<1> QED BY <1>1, <1>2, <1>3, <1>4, OutsiderMoves

LEMMA ArriveSafe ==
  ASSUME JInv, NEW w \in Writers, NEW i \in Ids, Arrive(w, i)  PROVE JInv'
<1>0. TypeOK BY DEF JInv
<1> DEFINE new == [pc |-> "mkdir", id |-> i]
<1>1. new \in [pc : WriterPCs, id : Ids \cup {None}] /\ new.pc = "mkdir" /\ new.id = i
  BY DEF WriterPCs
<1>2. writer' = [writer EXCEPT ![w] = new] BY DEF Arrive
<1> HIDE DEF new
<1>3. /\ writer' \in [Writers -> [pc : WriterPCs, id : Ids \cup {None}]]
      /\ writer'[w].pc = "mkdir" /\ writer'[w].id = i
      /\ \A x \in Writers : x # w => writer'[x] = writer[x]
  BY <1>0, <1>1, <1>2 DEF TypeOK
<1>4. TypeOK' BY <1>0, <1>3 DEF TypeOK, Arrive
<1>5. WriterKnows(w)' BY <1>3 DEF WriterKnows, Inside, Locked
<1>6. writer[w].pc \notin Locked BY DEF Arrive, WriterAt, Locked, Inside
<1> QED BY <1>3, <1>4, <1>5, <1>6, OutsiderMoves DEF Arrive

(* The directory is made by one writer only. *)
LEMMA MakeSlotSafe ==
  ASSUME JInv, NEW w \in Writers, MakeSlot(w)  PROVE JInv'
<1>0. TypeOK /\ WriterKnows(w) BY DEF JInv
<1>1. writer[w].pc = "mkdir" /\ writer[w].id \in Ids
  BY <1>0 DEF MakeSlot, WriterAt, WriterKnows
<1>2. ASSUME NEW i \in Ids, i = writer[w].id, ~slot[i].dir,
             slot' = [slot EXCEPT ![i].dir = TRUE], GoWriter(w, "lock"), lock' = lock
      PROVE  JInv'
  <2>1. /\ slot' \in [Ids -> Slot] /\ slot'[i].dir /\ slot'[i].start = slot[i].start
        /\ slot'[i].file = slot[i].file
        /\ \A j \in Ids : j # i => slot'[j] = slot[j]
    <3> DEFINE row == [slot[i] EXCEPT !.dir = TRUE]
    <3>1. slot \in [Ids -> Slot] /\ slot[i] \in Slot BY <1>0 DEF TypeOK
    <3>2. row \in Slot /\ row.dir /\ row.start = slot[i].start /\ row.file = slot[i].file
      BY <3>1 DEF Slot
    <3>3. slot' = [slot EXCEPT ![i] = row] BY <1>2
    <3> HIDE DEF row
    <3> QED BY <3>1, <3>2, <3>3
  <2>2. /\ writer' \in [Writers -> [pc : WriterPCs, id : Ids \cup {None}]]
        /\ writer'[w].pc = "lock" /\ writer'[w].id = i
        /\ \A x \in Writers : x # w => writer'[x] = writer[x]
    BY <1>0, <1>2, WriterGone DEF WriterPCs
  <2>3. UNCHANGED <<incarnation, sealer, effect, entered, wrote, issued>> BY DEF MakeSlot
  <2>4. TypeOK' BY <1>0, <1>2, <2>1, <2>2, <2>3 DEF TypeOK
  <2>5. \A j \in Ids : j # i => Same(j) BY <2>1, <2>3 DEF Same
  <2>6. SlotInv(i) /\ Fresh(i) BY <1>2 DEF JInv, SlotInv
  <2>7. ASSUME NEW x \in Writers, x # w, writer[x].id = i PROVE writer[x].pc \notin Inside
    BY <1>2, <2>7 DEF JInv, WriterKnows
  <2>8. ASSUME NEW x \in Writers PROVE WriterKnows(x)'
    <3>1. CASE x # w
      <4>1. WriterKnows(x) BY DEF JInv
      <4>2. writer[x].pc \in Inside => writer[x].id \in Ids /\ writer[x].id # i
        BY <2>7, <3>1, <4>1 DEF WriterKnows, Inside
      <4> QED BY <1>2, <2>2, <2>5, <3>1, <4>1, <4>2, WriterKept
    <3>2. CASE x = w
      BY <2>1, <2>2, <2>3, <2>6, <3>2 DEF WriterKnows, Inside, Locked, Fresh, Absent
    <3> QED BY <3>1, <3>2
  <2>9. ASSUME NEW s \in Sealers PROVE SealerKnows(s)'
    <3>1. SealerKnows(s) BY DEF JInv
    <3>2. SlotInv(i) => \A f \in Files : ~Readable(i, f)
      BY <2>6 DEF Fresh, Absent, Readable
    <3> QED BY <1>2, <2>1, <2>3, <2>6, <3>1, <3>2
        DEF SealerKnows, Readable, Absent, SameIncarnation, Files
  <2>10. OneWriter' BY <2>2, <2>7 DEF JInv, OneWriter
  <2>11. LockInv' BY <1>1, <1>2, <2>2, <2>3 DEF JInv, LockInv, Locked, Inside
  <2>12. ASSUME NEW j \in Ids PROVE SlotInv(j)'
    <3>1. CASE j # i
      <4>1. \A x \in Writers : InSlot(x, j)' => InSlot(x, j) BY <2>2, <3>1 DEF InSlot
      <4> QED BY <2>5, <3>1, <4>1, SlotKept DEF JInv
    <3>2. CASE j = i
      BY <2>1, <2>3, <2>6, <3>2 DEF SlotInv, Fresh, Readable, Absent, SameIncarnation
    <3> QED BY <3>1, <3>2
  <2> QED BY <2>4, <2>8, <2>9, <2>10, <2>11, <2>12 DEF JInv
<1>3. CASE RetireWriter(w) /\ slot' = slot
  <2>1. writer[w].pc \notin Locked BY <1>1 DEF Locked, Inside
  <2> QED BY <1>3, <2>1, OutsiderQuits DEF MakeSlot
<1> QED BY <1>1, <1>2, <1>3 DEF MakeSlot

LEMMA LockSlotSafe ==
  ASSUME JInv, NEW w \in Writers, LockSlot(w)  PROVE JInv'
<1>0. TypeOK /\ WriterKnows(w) BY DEF JInv
<1>1. writer[w].pc = "lock" /\ writer[w].id \in Ids
  BY <1>0 DEF LockSlot, WriterAt, WriterKnows
<1>2. UNCHANGED <<slot, incarnation, sealer, effect, entered, wrote, issued>> BY DEF LockSlot
<1>3. ASSUME NEW i \in Ids, i = writer[w].id, lock[i] = None,
             lock' = [lock EXCEPT ![i] = w], GoWriter(w, "start")
      PROVE  JInv'
  <2>1. /\ lock' \in [Ids -> Writers \cup Sealers \cup {None}] /\ lock'[i] = w
        /\ \A j \in Ids : j # i => lock'[j] = lock[j]
    BY <1>0, <1>3 DEF TypeOK
  <2>2. /\ writer' \in [Writers -> [pc : WriterPCs, id : Ids \cup {None}]]
        /\ writer'[w].pc = "start" /\ writer'[w].id = i
        /\ \A x \in Writers : x # w => writer'[x] = writer[x]
    BY <1>0, <1>3, WriterGone DEF WriterPCs
  <2>3. TypeOK' BY <1>0, <1>2, <2>1, <2>2 DEF TypeOK
  <2>4. \A j \in Ids : Same(j) BY <1>2 DEF Same
  <2>5. None \notin Writers /\ None \notin Sealers /\ Writers \cap Sealers = {}
    BY ProcessesAssumption
  <2>6. ASSUME NEW x \in Writers PROVE WriterKnows(x)'
    <3>1. CASE x # w
      <4>1. WriterKnows(x) BY DEF JInv
      <4>2. writer[x].pc \in Inside => writer[x].id \in Ids BY <4>1 DEF WriterKnows, Inside
      <4>3. writer[x].pc \in Locked => writer[x].id # i
        BY <1>3, <2>5, <4>1 DEF WriterKnows
      <4> QED BY <2>1, <2>2, <2>4, <3>1, <4>1, <4>2, <4>3, WriterKept DEF Locked
    <3>2. CASE x = w
      <4>1. wrote[i] = {} /\ ~entered[i] /\ slot[i].dir /\ \A f \in Files : Absent(i, f)
        BY <1>0, <1>1, <1>3 DEF WriterKnows, Inside
      <4> QED BY <1>2, <2>1, <2>2, <3>2, <4>1 DEF WriterKnows, Inside, Locked, Absent
    <3> QED BY <3>1, <3>2
  <2>7. ASSUME NEW s \in Sealers PROVE SealerKnows(s)'
    <3>1. SealerKnows(s) BY DEF JInv
    <3>2. sealer[s].pc # "idle" => sealer[s].id \in Ids /\ sealer[s].id # i
      BY <1>3, <2>5, <3>1 DEF SealerKnows
    <3> QED BY <1>2, <2>1, <2>4, <3>1, <3>2, SealerKept
  <2>8. ASSUME NEW x \in Writers, writer'[x].pc \in Inside
        PROVE  writer[x].pc \in Inside /\ writer[x].id = writer'[x].id
    BY <1>1, <1>3, <2>2, <2>8 DEF Inside
  <2>9. OneWriter' BY <2>8 DEF JInv, OneWriter
  <2>10. LockInv'
    <3> SUFFICES ASSUME NEW j \in Ids
                 PROVE  /\ lock'[j] \in Writers =>
                             writer'[lock'[j]].id = j /\ writer'[lock'[j]].pc \in Locked
                        /\ lock'[j] \in Sealers => sealer'[lock'[j]].id = j
      BY DEF LockInv
    <3>1. CASE j = i BY <2>1, <2>2, <2>5, <3>1 DEF Locked, Inside
    <3>2. CASE j # i
      <4>1. lock'[j] = lock[j] /\ lock[j] # w
        BY <1>1, <2>1, <3>2 DEF JInv, LockInv, Locked
      <4> QED BY <1>2, <2>2, <4>1 DEF JInv, LockInv
    <3> QED BY <3>1, <3>2
  <2>11. ASSUME NEW j \in Ids PROVE SlotInv(j)'
    <3>1. \A x \in Writers : InSlot(x, j)' => InSlot(x, j) BY <2>8 DEF InSlot
    <3> QED BY <2>4, <3>1, SlotKept DEF JInv
  <2> QED BY <2>3, <2>6, <2>7, <2>9, <2>10, <2>11 DEF JInv
<1>4. CASE RetireWriter(w)
  <2>1. writer[w].pc \notin Locked BY <1>1 DEF Locked
  <2> QED BY <1>2, <1>4, <2>1, OutsiderQuits
<1> QED BY <1>1, <1>3, <1>4 DEF LockSlot, LockFree

LEMMA KillWriterSafe ==
  ASSUME JInv, NEW w \in Writers, KillWriter(w)  PROVE JInv'
<1>1. RetireWriter(w) /\ UNCHANGED <<slot, incarnation, sealer, effect, entered, wrote, issued>>
  BY DEF KillWriter
<1>2. CASE writer[w].pc \notin Locked BY <1>1, <1>2, OutsiderQuits
<1>3. CASE writer[w].pc \in Locked
  <2>1. ASSUME NEW i \in Ids, i = writer[w].id PROVE JInv' BY <1>1, <1>3, <2>1, WriterQuits
  <2> QED BY <1>3, <2>1, Exclusive
<1> QED BY <1>2, <1>3

-----------------------------------------------------------------------------
(* The steps of a no-invocation request. *)

(* No writer and no other sealer works on a slot that a sealer holds. *)
LEMMA SealerExclusive ==
  ASSUME JInv, NEW s \in Sealers, sealer[s].pc # "idle"
  PROVE  LET i == sealer[s].id IN
         /\ i \in Ids /\ lock[i] = s
         /\ \A w \in Writers : writer[w].id = i => writer[w].pc \notin Locked
         /\ \A x \in Sealers : x # s /\ sealer[x].pc # "idle" => sealer[x].id # i
<1>1. SealerKnows(s) BY DEF JInv
<1>2. ASSUME NEW w \in Writers, writer[w].pc \in Locked PROVE writer[w].id # sealer[s].id
  <2>1. WriterKnows(w) /\ w # s BY ProcessesAssumption DEF JInv
  <2> QED BY <1>1, <1>2, <2>1 DEF WriterKnows, SealerKnows
<1>3. ASSUME NEW x \in Sealers, x # s, sealer[x].pc # "idle" PROVE sealer[x].id # sealer[s].id
  <2>1. SealerKnows(x) BY DEF JInv
  <2> QED BY <1>1, <1>3, <2>1 DEF SealerKnows
<1> QED BY <1>1, <1>2, <1>3 DEF SealerKnows

(* A step of a sealer that holds its slot concerns only that slot, and     *)
(* changes its files only when no writer is in it.                         *)
LEMMA SealerLocal ==
  ASSUME JInv, NEW s \in Sealers, NEW i \in Ids, sealer[s].pc # "idle", sealer[s].id = i,
         TypeOK', UNCHANGED <<writer, incarnation>>,
         \A j \in Ids : j # i => Same(j) /\ lock'[j] = lock[j],
         \A x \in Sealers : x # s => sealer'[x] = sealer[x],
         \/ sealer'[s].pc = "idle" /\ sealer'[s].id = None /\ lock'[i] = None
         \/ sealer'[s].pc # "idle" /\ sealer'[s].id = i /\ lock'[i] = s /\ SealerKnows(s)',
         \/ \A w \in Writers : ~InSlot(w, i)
         \/ /\ slot'[i] = slot[i] /\ wrote'[i] = wrote[i]
            /\ entered'[i] = entered[i] /\ effect'[i] = effect[i],
         SlotInv(i)'
  PROVE  JInv'
<1>1. /\ lock[i] = s
      /\ \A w \in Writers : writer[w].id = i => writer[w].pc \notin Locked
      /\ \A x \in Sealers : x # s /\ sealer[x].pc # "idle" => sealer[x].id # i
  BY SealerExclusive
<1>2. None \notin Ids /\ None \notin Writers /\ None \notin Sealers /\ Writers \cap Sealers = {}
  BY ProcessesAssumption
<1>3. ASSUME NEW w \in Writers PROVE WriterKnows(w)'
  <2>1. WriterKnows(w) BY DEF JInv
  <2>2. writer[w].pc \in Inside => writer[w].id \in Ids BY <2>1 DEF WriterKnows, Inside
  <2>3. CASE writer[w].pc \in Inside /\ writer[w].id = i
    <3>1. writer[w].pc = "lock" BY <1>1, <2>3 DEF Locked
    <3>2. ~ \A x \in Writers : ~InSlot(x, i) BY <2>3 DEF InSlot
    <3> QED BY <2>1, <2>3, <3>1, <3>2 DEF WriterKnows, Inside, Locked, Absent
  <2>4. CASE ~(writer[w].pc \in Inside /\ writer[w].id = i)
    BY <2>1, <2>2, <2>4, WriterKept DEF Locked
  <2> QED BY <2>3, <2>4
<1>4. ASSUME NEW x \in Sealers PROVE SealerKnows(x)'
  <2>1. CASE x # s
    <3>1. SealerKnows(x) BY DEF JInv
    <3>2. sealer[x].pc # "idle" => sealer[x].id \in Ids /\ sealer[x].id # i
      BY <1>1, <2>1, <3>1 DEF SealerKnows
    <3> QED BY <2>1, <3>1, <3>2, SealerKept
  <2>2. CASE x = s /\ sealer'[s].pc = "idle" BY <2>2 DEF SealerKnows
  <2>3. CASE x = s /\ sealer'[s].pc # "idle" BY <2>3
  <2> QED BY <2>1, <2>2, <2>3
<1>5. OneWriter' BY DEF JInv, OneWriter
<1>6. LockInv'
  <2> SUFFICES ASSUME NEW j \in Ids
               PROVE  /\ lock'[j] \in Writers =>
                           writer'[lock'[j]].id = j /\ writer'[lock'[j]].pc \in Locked
                      /\ lock'[j] \in Sealers => sealer'[lock'[j]].id = j
    BY DEF LockInv
  <2>1. CASE j = i BY <1>2, <2>1
  <2>2. CASE j # i
    <3>1. lock'[j] = lock[j] /\ lock[j] # s
      BY <2>2 DEF JInv, LockInv
    <3> QED BY <3>1 DEF JInv, LockInv
  <2> QED BY <2>1, <2>2
<1>7. ASSUME NEW j \in Ids PROVE SlotInv(j)'
  <2>1. CASE j = i BY <2>1
  <2>2. CASE j # i
    <3>1. \A w \in Writers : InSlot(w, j)' => InSlot(w, j) BY DEF InSlot
    <3> QED BY <2>2, <3>1, SlotKept DEF JInv
  <2> QED BY <2>1, <2>2
<1> QED BY <1>3, <1>4, <1>5, <1>6, <1>7 DEF JInv

LEMMA SealerOut ==
  ASSUME JInv, NEW s \in Sealers, NEW i \in Ids, sealer[s].pc # "idle", sealer[s].id = i,
         RetireSealer(s)
  PROVE  /\ \A j \in Ids : j # i => lock'[j] = lock[j]
         /\ \A x \in Sealers : x # s => sealer'[x] = sealer[x]
         /\ sealer'[s].pc = "idle" /\ sealer'[s].id = None /\ lock'[i] = None
<1>0. TypeOK BY DEF JInv
<1>1. lock[i] = s BY SealerExclusive
<1>2. /\ sealer'[s].pc = "idle" /\ sealer'[s].id = None
      /\ \A x \in Sealers : x # s => sealer'[x] = sealer[x]
      /\ \A j \in Ids : lock'[j] = IF lock[j] = s THEN None ELSE lock[j]
  BY <1>0, SealerRetired
<1>3. \A j \in Ids : lock[j] = s => j = i BY DEF JInv, LockInv
<1> QED BY <1>1, <1>2, <1>3

(* It returns, perhaps with a certificate. *)
LEMMA SealerQuits ==
  ASSUME JInv, NEW s \in Sealers, NEW i \in Ids, sealer[s].pc # "idle", sealer[s].id = i,
         RetireSealer(s), UNCHANGED <<slot, incarnation, writer, effect, entered, wrote>>,
         issued' \in [Ids -> BOOLEAN], \A j \in Ids : j # i => issued'[j] = issued[j],
         issued'[i] => "not-invoked" \in wrote[i]
  PROVE  JInv'
<1>0. TypeOK BY DEF JInv
<1>1. TypeOK' BY <1>0, SealerRetired DEF TypeOK
<1>2. /\ \A j \in Ids : j # i => lock'[j] = lock[j]
      /\ \A x \in Sealers : x # s => sealer'[x] = sealer[x]
      /\ sealer'[s].pc = "idle" /\ sealer'[s].id = None /\ lock'[i] = None
  BY SealerOut
<1>3. \A j \in Ids : j # i => Same(j) BY DEF Same
<1>4. SlotInv(i)'
  BY DEF JInv, SlotInv, Fresh, Readable, Absent, SameIncarnation, InSlot
<1> QED BY <1>1, <1>2, <1>3, <1>4, SealerLocal

LEMMA SealLockSafe ==
  ASSUME JInv, NEW s \in Sealers, NEW i \in Ids, SealLock(s, i)  PROVE JInv'
<1>0. TypeOK BY DEF JInv
<1> DEFINE new == [pc |-> "check", id |-> i]
<1>1. new \in [pc : SealerPCs, id : Ids \cup {None}] /\ new.pc = "check" /\ new.id = i
  BY DEF SealerPCs
<1>2. sealer' = [sealer EXCEPT ![s] = new] BY DEF SealLock
<1> HIDE DEF new
<1>3. /\ sealer' \in [Sealers -> [pc : SealerPCs, id : Ids \cup {None}]]
      /\ sealer'[s].pc = "check" /\ sealer'[s].id = i
      /\ \A x \in Sealers : x # s => sealer'[x] = sealer[x]
  BY <1>0, <1>1, <1>2 DEF TypeOK
<1>4. /\ lock' \in [Ids -> Writers \cup Sealers \cup {None}] /\ lock'[i] = s
      /\ lock[i] = None /\ sealer[s].pc = "idle"
      /\ \A j \in Ids : j # i => lock'[j] = lock[j]
  BY <1>0 DEF TypeOK, SealLock, LockFree, SealerAt
<1>5. UNCHANGED <<slot, incarnation, writer, effect, entered, wrote, issued>> BY DEF SealLock
<1>6. TypeOK' BY <1>0, <1>3, <1>4, <1>5 DEF TypeOK
<1>7. \A j \in Ids : Same(j) BY <1>5 DEF Same
<1>8. None \notin Ids /\ None \notin Writers /\ None \notin Sealers /\ Writers \cap Sealers = {}
  BY ProcessesAssumption
<1>9. ASSUME NEW w \in Writers PROVE WriterKnows(w)'
  <2>1. WriterKnows(w) BY DEF JInv
  <2>2. writer[w].pc \in Inside => writer[w].id \in Ids BY <2>1 DEF WriterKnows, Inside
  <2>3. writer[w].pc \in Locked => writer[w].id # i BY <1>4, <1>8, <2>1 DEF WriterKnows
  <2> QED BY <1>4, <1>5, <1>7, <2>1, <2>2, <2>3, WriterKept DEF Locked
<1>10. ASSUME NEW x \in Sealers PROVE SealerKnows(x)'
  <2>1. CASE x # s
    <3>1. SealerKnows(x) BY DEF JInv
    <3>2. sealer[x].pc # "idle" => sealer[x].id \in Ids /\ sealer[x].id # i
      BY <1>4, <1>8, <3>1 DEF SealerKnows
    <3> QED BY <1>3, <1>4, <1>7, <2>1, <3>1, <3>2, SealerKept
  <2>2. CASE x = s BY <1>3, <1>4, <2>2 DEF SealerKnows
  <2> QED BY <2>1, <2>2
<1>11. OneWriter' BY <1>5 DEF JInv, OneWriter
<1>12. LockInv'
  <2> SUFFICES ASSUME NEW j \in Ids
               PROVE  /\ lock'[j] \in Writers =>
                           writer'[lock'[j]].id = j /\ writer'[lock'[j]].pc \in Locked
                      /\ lock'[j] \in Sealers => sealer'[lock'[j]].id = j
    BY DEF LockInv
  <2>1. CASE j = i BY <1>3, <1>4, <1>8, <2>1
  <2>2. CASE j # i
    <3>1. lock'[j] = lock[j] /\ lock[j] # s
      <4>1. SealerKnows(s) /\ sealer[s].id = None BY <1>4 DEF JInv, SealerKnows
      <4> QED BY <1>4, <1>8, <2>2, <4>1 DEF JInv, LockInv
    <3> QED BY <1>3, <1>5, <3>1 DEF JInv, LockInv
  <2> QED BY <2>1, <2>2
<1>13. ASSUME NEW j \in Ids PROVE SlotInv(j)'
  <2>1. \A w \in Writers : InSlot(w, j)' => InSlot(w, j) BY <1>5 DEF InSlot
  <2> QED BY <1>7, <2>1, SlotKept DEF JInv
<1> QED BY <1>6, <1>9, <1>10, <1>11, <1>12, <1>13 DEF JInv

(* It goes on without writing. *)
LEMMA SealerMoves ==
  ASSUME JInv, NEW s \in Sealers, NEW i \in Ids, sealer[s].pc # "idle", sealer[s].id = i,
         NEW pc \in {"seal", "read"}, GoSealer(s, pc),
         pc = "seal" => /\ Readable(i, "started") /\ SameIncarnation(i)
                        /\ \A f \in Files \ {"started"} : Absent(i, f),
         UNCHANGED <<slot, incarnation, lock, writer, effect, entered, wrote, issued>>
  PROVE  JInv'
<1>0. TypeOK BY DEF JInv
<1>1. /\ sealer' \in [Sealers -> [pc : SealerPCs, id : Ids \cup {None}]]
      /\ sealer'[s].pc = pc /\ sealer'[s].id = i
      /\ \A x \in Sealers : x # s => sealer'[x] = sealer[x]
  BY <1>0, SealerGone DEF SealerPCs
<1>2. TypeOK' BY <1>0, <1>1 DEF TypeOK
<1>3. \A j \in Ids : Same(j) BY DEF Same
<1>4. lock[i] = s BY SealerExclusive
<1>5. SealerKnows(s)' BY <1>1, <1>4 DEF SealerKnows, Readable, Absent, SameIncarnation
<1>6. SlotInv(i)'
  <2>1. \A w \in Writers : InSlot(w, i)' => InSlot(w, i) BY DEF InSlot
  <2> QED BY <1>3, <2>1, SlotKept DEF JInv
<1> QED BY <1>1, <1>2, <1>3, <1>4, <1>5, <1>6, SealerLocal

LEMMA SealCheckSafe ==
  ASSUME JInv, NEW s \in Sealers, SealCheck(s)  PROVE JInv'
<1>1. sealer[s].pc # "idle" BY DEF SealCheck, SealerAt
<1>2. UNCHANGED <<slot, incarnation, writer, effect, entered, wrote, issued>> BY DEF SealCheck
<1>3. ASSUME NEW i \in Ids, i = sealer[s].id PROVE JInv'
  <2>1. CASE GoSealer(s, "read") /\ lock' = lock BY <1>1, <1>2, <1>3, <2>1, SealerMoves
  <2>2. CASE RetireSealer(s)
    <3>1. issued' \in [Ids -> BOOLEAN] /\ (issued'[i] => "not-invoked" \in wrote[i])
      BY <1>2 DEF JInv, TypeOK, SlotInv
    <3> QED BY <1>1, <1>2, <1>3, <2>2, <3>1, SealerQuits
  <2>3. CASE /\ Readable(i, "started") /\ SameIncarnation(i) /\ Absent(i, "completed")
             /\ Absent(i, "invoked") /\ Absent(i, "not-invoked")
             /\ GoSealer(s, "seal") /\ lock' = lock
    <3>1. \A f \in Files \ {"started"} : Absent(i, f) BY <2>3 DEF Files
    <3> QED BY <1>1, <1>2, <1>3, <2>3, <3>1, SealerMoves
  <2> QED BY <1>3, <2>1, <2>2, <2>3 DEF SealCheck
<1> QED BY <1>1, <1>3, SealerExclusive

(* The seal is written into the original slot, without an intent, while    *)
(* no publish request can be in it.                                        *)
LEMMA SealWriteSafe ==
  ASSUME JInv, NEW s \in Sealers, SealWrite(s)  PROVE JInv'
<1>0. TypeOK BY DEF JInv
<1>1. sealer[s].pc = "seal" BY DEF SealWrite, SealerAt
<1>2. UNCHANGED <<incarnation, writer, effect, entered, issued>> BY DEF SealWrite
<1>3. ASSUME NEW i \in Ids, i = sealer[s].id PROVE JInv'
  <2>1. SealerKnows(s) /\ SlotInv(i) BY DEF JInv
  <2>2. "started" \in wrote[i] /\ "invoked" \notin wrote[i] /\ ~entered[i] /\ slot[i].dir
    <3>1. Readable(i, "started") /\ SameIncarnation(i) /\ Absent(i, "invoked")
      BY <1>1, <1>3, <2>1 DEF SealerKnows, Files
    <3> QED BY <2>1, <3>1 DEF SlotInv, Fresh, Readable, Absent, Files
  <2>3. \A w \in Writers : ~InSlot(w, i)
    <3> SUFFICES ASSUME NEW w \in Writers, InSlot(w, i) PROVE FALSE OBVIOUS
    <3>1. WriterKnows(w) /\ writer[w].pc \notin Locked
      BY <1>1, <1>3, SealerExclusive DEF InSlot, JInv
    <3>2. writer[w].pc = "lock" /\ writer[w].id = i BY <3>1 DEF InSlot, Locked
    <3> QED BY <2>2, <3>1, <3>2 DEF WriterKnows
  <2>4. slot[i].start \in Nat /\ FALSE \in BOOLEAN /\ "not-invoked" \in Files
    BY <1>0, Types DEF Files
  <2>5. ASSUME NEW state \in {"whole", "torn"}, Put(i, "not-invoked", state)
        PROVE  /\ FileStored(i, "not-invoked", state, slot[i].start)
               /\ SlotInv(i)'
    <3>1. Absent(i, "not-invoked") /\ Store(i, "not-invoked", state, slot[i].start, FALSE)
      BY <2>5 DEF Put
    <3>2. state \in FileState BY DEF FileState
    <3>3. FileStored(i, "not-invoked", state, slot[i].start)
      BY <1>0, <2>4, <3>1, <3>2, Stored
    <3>4. \A x \in Writers : ~InSlot(x, i)' BY <1>2, <2>3 DEF InSlot
    <3>5. SlotInv(i)'
      BY <1>0, <1>2, <2>1, <2>2, <2>4, <3>1, <3>4, SlotStored
    <3> QED BY <3>3, <3>5
  <2>6. CASE Put(i, "not-invoked", "whole") /\ GoSealer(s, "read") /\ lock' = lock
    <3>1. FileStored(i, "not-invoked", "whole", slot[i].start) /\ SlotInv(i)'
      BY <2>5, <2>6
    <3>2. /\ sealer' \in [Sealers -> [pc : SealerPCs, id : Ids \cup {None}]]
          /\ sealer'[s].pc = "read" /\ sealer'[s].id = i
          /\ \A x \in Sealers : x # s => sealer'[x] = sealer[x]
      BY <1>0, <1>3, <2>6, SealerGone DEF SealerPCs
    <3>3. TypeOK' BY <1>0, <1>2, <2>6, <3>1, <3>2 DEF TypeOK, FileStored
    <3>4. \A j \in Ids : j # i => Same(j) /\ lock'[j] = lock[j]
      BY <1>2, <2>6, <3>1 DEF Same, FileStored
    <3>5. lock'[i] = s BY <1>1, <1>3, <2>6, SealerExclusive
    <3>6. SealerKnows(s)' BY <3>2, <3>5 DEF SealerKnows
    <3> QED BY <1>1, <1>2, <1>3, <2>3, <3>1, <3>2, <3>3, <3>4, <3>5, <3>6, SealerLocal
  <2>7. CASE Put(i, "not-invoked", "torn") /\ RetireSealer(s)
    <3>1. FileStored(i, "not-invoked", "torn", slot[i].start) /\ SlotInv(i)'
      BY <2>5, <2>7
    <3>2. TypeOK' BY <1>0, <1>2, <2>7, <3>1, SealerRetired DEF TypeOK, FileStored
    <3>3. \A j \in Ids : j # i => Same(j) BY <1>2, <3>1 DEF Same, FileStored
    <3>4. /\ \A j \in Ids : j # i => lock'[j] = lock[j]
          /\ \A x \in Sealers : x # s => sealer'[x] = sealer[x]
          /\ sealer'[s].pc = "idle" /\ sealer'[s].id = None /\ lock'[i] = None
      BY <1>1, <1>3, <2>7, SealerOut
    <3> QED BY <1>1, <1>2, <1>3, <2>3, <3>1, <3>2, <3>3, <3>4, SealerLocal
  <2>8. CASE RetireSealer(s) /\ UNCHANGED <<slot, wrote>>
    <3>1. issued' \in [Ids -> BOOLEAN] /\ (issued'[i] => "not-invoked" \in wrote[i])
      BY <1>0, <1>2, <2>1 DEF TypeOK, SlotInv
    <3> QED BY <1>1, <1>2, <1>3, <2>8, <3>1, SealerQuits
  <2> QED BY <1>3, <2>6, <2>7, <2>8 DEF SealWrite
<1> QED BY <1>1, <1>3, SealerExclusive

LEMMA SealReadSafe ==
  ASSUME JInv, NEW s \in Sealers, SealRead(s)  PROVE JInv'
<1>0. TypeOK BY DEF JInv
<1>1. sealer[s].pc # "idle" BY DEF SealRead, SealerAt
<1>2. ASSUME NEW i \in Ids, i = sealer[s].id PROVE JInv'
  <2>1. issued' \in [Ids -> BOOLEAN] /\ (\A j \in Ids : j # i => issued'[j] = issued[j])
    BY <1>0, <1>2 DEF SealRead, TypeOK
  <2>2. issued'[i] => issued[i] \/ Readable(i, "not-invoked")
    BY <1>0, <1>2 DEF SealRead, TypeOK
  <2>3. issued'[i] => "not-invoked" \in wrote[i]
    BY <2>2 DEF JInv, SlotInv, Files
  <2> QED BY <1>1, <1>2, <2>1, <2>3, SealerQuits DEF SealRead
<1> QED BY <1>1, <1>2, SealerExclusive

LEMMA KillSealerSafe ==
  ASSUME JInv, NEW s \in Sealers, KillSealer(s)  PROVE JInv'
<1>1. sealer[s].pc # "idle" BY DEF KillSealer, SealerAt
<1>2. ASSUME NEW i \in Ids, i = sealer[s].id PROVE JInv'
  <2>1. issued' \in [Ids -> BOOLEAN] /\ (issued'[i] => "not-invoked" \in wrote[i])
    BY DEF KillSealer, JInv, TypeOK, SlotInv
  <2> QED BY <1>1, <1>2, <2>1, SealerQuits DEF KillSealer
<1> QED BY <1>1, <1>2, SealerExclusive

-----------------------------------------------------------------------------
(* The machine and GitHub. *)

LEMMA ApplySafe ==
  ASSUME JInv, NEW i \in Ids, Apply(i)  PROVE JInv'
<1>0. TypeOK BY DEF JInv
<1>1. UNCHANGED <<slot, incarnation, lock, writer, sealer, entered, wrote, issued>> BY DEF Apply
<1>2. /\ effect' \in [Ids -> BOOLEAN] /\ effect'[i] /\ entered[i]
      /\ \A j \in Ids : j # i => effect'[j] = effect[j]
  BY <1>0 DEF Apply, TypeOK
<1>3. TypeOK' BY <1>0, <1>1, <1>2 DEF TypeOK
<1>4. ASSUME NEW w \in Writers PROVE WriterKnows(w)'
  <2>1. WriterKnows(w) BY DEF JInv
  <2> QED BY <1>1, <1>2, <2>1 DEF WriterKnows, Absent, Inside
<1>5. ASSUME NEW s \in Sealers PROVE SealerKnows(s)'
  <2>1. SealerKnows(s) BY DEF JInv
  <2> QED BY <1>1, <2>1 DEF SealerKnows, Readable, Absent, SameIncarnation
<1>6. OneWriter' /\ LockInv' BY <1>1 DEF JInv, OneWriter, LockInv
<1>7. ASSUME NEW j \in Ids PROVE SlotInv(j)'
  <2>1. SlotInv(j) BY DEF JInv
  <2> QED BY <1>1, <1>2, <2>1 DEF SlotInv, Fresh, Readable, Absent, SameIncarnation, InSlot
<1> QED BY <1>3, <1>4, <1>5, <1>6, <1>7 DEF JInv

(* Another incarnation of a slot nobody works on, with files of the old    *)
(* one or fewer, is never taken for the original.                          *)
LEMMA OtherIncarnation ==
  ASSUME TypeOK, NEW i \in Ids, SlotInv(i), incarnation'[i] = incarnation[i] + 1,
         slot'[i].dir = slot[i].dir, slot'[i].start = slot[i].start,
         \A f \in Files : slot'[i].file[f] \in {slot[i].file[f], "absent"},
         UNCHANGED <<writer, effect, entered, wrote, issued>>
  PROVE  SlotInv(i)' /\ ~SameIncarnation(i)'
<1>1. slot[i].start \in Nat /\ incarnation[i] \in Nat BY Types
<1>2. slot'[i].start <= incarnation'[i] /\ incarnation'[i] # slot'[i].start
  BY <1>1 DEF SlotInv
<1>3. /\ \A f \in Files : Readable(i, f)' => Readable(i, f)
      /\ \A f \in Files : Absent(i, f) => Absent(i, f)'
  BY DEF Readable, Absent
<1>4. ~SameIncarnation(i)' BY <1>2 DEF SameIncarnation
<1> QED BY <1>2, <1>3, <1>4 DEF SlotInv, Fresh, InSlot

LEMMA RebootSafe ==
  ASSUME JInv, Reboot  PROVE JInv'
<1>0. TypeOK BY DEF JInv
<1>1. UNCHANGED <<slot, lock, writer, sealer, effect, entered, wrote, issued>> BY DEF Reboot
<1>2. /\ incarnation' \in [Ids -> 0..MaxIncarnation]
      /\ \A i \in Ids : incarnation'[i] = incarnation[i] + 1
  BY <1>0, IncarnationAssumption DEF Reboot, TypeOK
<1>3. TypeOK' BY <1>0, <1>1, <1>2 DEF TypeOK
<1>4. ASSUME NEW w \in Writers PROVE WriterKnows(w)'
  <2>1. WriterKnows(w) /\ writer[w].pc = "idle" BY DEF JInv, Reboot, WriterAt
  <2> QED BY <1>1, <2>1 DEF WriterKnows, Inside, Locked
<1>5. ASSUME NEW s \in Sealers PROVE SealerKnows(s)'
  <2>1. SealerKnows(s) /\ sealer[s].pc = "idle" BY DEF JInv, Reboot, SealerAt
  <2> QED BY <1>1, <2>1 DEF SealerKnows
<1>6. OneWriter' /\ LockInv' BY <1>1 DEF JInv, OneWriter, LockInv
<1>7. ASSUME NEW i \in Ids PROVE SlotInv(i)'
  BY <1>0, <1>1, <1>2, OtherIncarnation DEF JInv
<1> QED BY <1>3, <1>4, <1>5, <1>6, <1>7 DEF JInv

LEMMA RestoreSafe ==
  ASSUME JInv, NEW i \in Ids, NEW missing \in SUBSET (Files \ {"started"}), Restore(i, missing)
  PROVE  JInv'
<1>0. TypeOK BY DEF JInv
<1>1. UNCHANGED <<lock, writer, sealer, effect, entered, wrote, issued>> BY DEF Restore
<1>2. /\ incarnation' \in [Ids -> 0..MaxIncarnation] /\ incarnation'[i] = incarnation[i] + 1
      /\ \A j \in Ids : j # i => incarnation'[j] = incarnation[j]
  BY <1>0, IncarnationAssumption DEF Restore, TypeOK
<1> DEFINE left == [f \in Files |-> IF f \in missing THEN "absent" ELSE slot[i].file[f]]
<1>3. /\ left \in [Files -> FileState]
      /\ \A f \in Files : left[f] \in {slot[i].file[f], "absent"}
  BY <1>0, Types DEF FileState
<1>4. slot' = [slot EXCEPT ![i].file = left] BY DEF Restore
<1> HIDE DEF left
<1>5. /\ slot' \in [Ids -> Slot] /\ slot'[i].dir = slot[i].dir /\ slot'[i].start = slot[i].start
      /\ slot'[i].file = left /\ \A j \in Ids : j # i => slot'[j] = slot[j]
  <2>1. slot[i] \in Slot BY <1>0 DEF TypeOK
  <2> DEFINE new == [slot[i] EXCEPT !.file = left]
  <2>2. new \in Slot BY <1>3, <2>1 DEF Slot
  <2>3. new.dir = slot[i].dir /\ new.start = slot[i].start /\ new.file = left
    BY <2>1 DEF Slot
  <2>4. slot' = [slot EXCEPT ![i] = new] BY <1>4
  <2> HIDE DEF new
  <2> QED BY <1>0, <2>2, <2>3, <2>4 DEF TypeOK
<1>6. TypeOK' BY <1>0, <1>1, <1>2, <1>5 DEF TypeOK
<1>7. \A j \in Ids : j # i => Same(j) BY <1>1, <1>2, <1>5 DEF Same
<1>8. ASSUME NEW w \in Writers PROVE WriterKnows(w)'
  <2>1. WriterKnows(w) /\ writer[w].id # i BY DEF JInv, Restore
  <2>2. writer[w].pc \in Inside => writer[w].id \in Ids BY <2>1 DEF WriterKnows, Inside
  <2> QED BY <1>1, <1>7, <2>1, <2>2, WriterKept
<1>9. ASSUME NEW s \in Sealers PROVE SealerKnows(s)'
  <2>1. SealerKnows(s) /\ sealer[s].id # i BY DEF JInv, Restore
  <2>2. sealer[s].pc # "idle" => sealer[s].id \in Ids BY <2>1 DEF SealerKnows
  <2> QED BY <1>1, <1>7, <2>1, <2>2, SealerKept
<1>10. OneWriter' /\ LockInv' BY <1>1 DEF JInv, OneWriter, LockInv
<1>11. ASSUME NEW j \in Ids PROVE SlotInv(j)'
  <2>1. CASE j = i BY <1>0, <1>1, <1>2, <1>3, <1>5, <2>1, OtherIncarnation DEF JInv
  <2>2. CASE j # i
    <3>1. \A x \in Writers : InSlot(x, j)' => InSlot(x, j) BY <1>1 DEF InSlot
    <3> QED BY <1>7, <2>2, <3>1, SlotKept DEF JInv
  <2> QED BY <2>1, <2>2
<1> QED BY <1>6, <1>8, <1>9, <1>10, <1>11 DEF JInv

-----------------------------------------------------------------------------
(* The invariant, and what follows from it. *)

LEMMA InitSafe == Init => JInv
<1> SUFFICES ASSUME Init PROVE JInv OBVIOUS
<1>1. NoSlot \in Slot /\ ~NoSlot.dir /\ NoSlot.start = 0 /\ \A f \in Files : NoSlot.file[f] = "absent"
  BY DEF NoSlot, Slot, FileState
<1>2. /\ Retired \in [pc : WriterPCs, id : Ids \cup {None}]
      /\ Retired \in [pc : SealerPCs, id : Ids \cup {None}]
      /\ Retired.pc = "idle" /\ Retired.id = None
  BY DEF Retired, WriterPCs, SealerPCs
<1>3. TypeOK BY <1>1, <1>2, IncarnationAssumption DEF Init, TypeOK
<1>4. \A w \in Writers : WriterKnows(w) BY <1>2 DEF Init, WriterKnows, Inside, Locked
<1>5. \A s \in Sealers : SealerKnows(s) BY <1>2 DEF Init, SealerKnows
<1>6. OneWriter BY <1>2 DEF Init, OneWriter, Inside
<1>7. LockInv BY ProcessesAssumption DEF Init, LockInv
<1>8. ASSUME NEW i \in Ids PROVE SlotInv(i)
  BY <1>1 DEF Init, SlotInv, Fresh, Readable, Absent, SameIncarnation
<1> QED BY <1>3, <1>4, <1>5, <1>6, <1>7, <1>8 DEF JInv

LEMMA NextSafe == JInv /\ [Next]_vars => JInv'
<1> SUFFICES ASSUME JInv, [Next]_vars PROVE JInv' OBVIOUS
<1>1. ASSUME NEW w \in Writers, Publish(w) PROVE JInv'
  BY <1>1, ArriveSafe, MakeSlotSafe, LockSlotSafe, WriteStartedSafe, PrepareSafe, ArmSafe,
     EnterSafe, CancelArmedSafe, RetainCertificateSafe, PublishReturnsSafe, WriteCompletedSafe,
     KillWriterSafe DEF Publish
<1>2. ASSUME NEW s \in Sealers, Seal(s) PROVE JInv'
  BY <1>2, SealLockSafe, SealCheckSafe, SealWriteSafe, SealReadSafe, KillSealerSafe DEF Seal
<1>3. ASSUME UNCHANGED vars PROVE JInv'
  BY <1>3 DEF vars, JInv, TypeOK, OneWriter, LockInv, WriterKnows, SealerKnows, SlotInv, Fresh,
              Readable, Absent, SameIncarnation, InSlot
<1> QED BY <1>1, <1>2, <1>3, ApplySafe, RestoreSafe, RebootSafe DEF Next

(* What every request knows of its slot at each of its steps, who holds a  *)
(* slot's lock, and what the files of a slot still say of what was written *)
(* and done: in every reachable state of the journal.                      *)
THEOREM JournalInductive == Spec => []JInv
<1> QED BY InitSafe, NextSafe, PTL DEF Spec

(* Every variable of the journal has its shape: a lock is held by a        *)
(* process or by nobody.                                                   *)
THEOREM JournalTyped == Spec => []TypeOK
<1>1. JInv => TypeOK BY DEF JInv
<1> QED BY <1>1, JournalInductive, PTL

(* The two answers of the journal never lie: a certificate of              *)
(* non-invocation is only given out when Publish was not entered and       *)
(* cannot be any more, and a completion only when the effect is there.     *)
THEOREM EvidenceTruthful == Spec => []EvidenceIsTruthful
<1>1. ASSUME JInv PROVE EvidenceIsTruthful
  <2> SUFFICES ASSUME NEW i \in Ids
               PROVE  /\ issued[i] => /\ ~entered[i] /\ ~effect[i]
                                      /\ \A w \in Writers : writer[w].id = i => writer[w].pc = "mkdir"
                      /\ CompletionReadable(i) => effect[i] /\ ~issued[i]
    BY DEF EvidenceIsTruthful
  <2>1. SlotInv(i) /\ TypeOK BY <1>1 DEF JInv
  <2>2. ASSUME issued[i], NEW w \in Writers, writer[w].id = i PROVE writer[w].pc = "mkdir"
    <3>1. WriterKnows(w) /\ writer[w].pc \in WriterPCs BY <1>1, <2>1, Types DEF JInv
    <3>2. writer[w].pc # "idle" BY <2>2, <3>1, ProcessesAssumption DEF WriterKnows
    <3>3. writer[w].pc \notin Inside BY <2>1, <2>2 DEF SlotInv, InSlot
    <3> QED BY <3>1, <3>2, <3>3 DEF Inside, WriterPCs
  <2>3. issued[i] => ~entered[i] /\ ~effect[i] BY <2>1 DEF SlotInv
  <2>4. CompletionReadable(i) => effect[i]
    BY <2>1 DEF CompletionReadable, SlotInv, Files
  <2> QED BY <2>2, <2>3, <2>4
<1> QED BY <1>1, JournalInductive, PTL

-----------------------------------------------------------------------------
(* The journal implements PublicationWitness, step by step. *)

Pub == [i \in Ids |-> Publication(i)]

(* The step changes the view of one publication only. *)
Turns(i, witness, held, eff) ==
  /\ \A j \in Ids : j # i => Publication(j)' = Publication(j)
  /\ Publication(i)' = [witness |-> witness, held |-> held, effect |-> eff]

LEMMA TurnsWitness ==
  ASSUME NEW i \in Ids, NEW witness, Turns(i, witness, Publication(i).held, Publication(i).effect)
  PROVE  Pub' = [Pub EXCEPT ![i].witness = witness]
<1>1. Pub'[i] = [Pub[i] EXCEPT !.witness = witness] BY DEF Turns, Pub, Publication
<1>2. \A j \in Ids : j # i => Pub'[j] = Pub[j] BY DEF Turns, Pub
<1> QED BY <1>1, <1>2 DEF Pub

LEMMA TurnsHeld ==
  ASSUME NEW i \in Ids, NEW held, Turns(i, Publication(i).witness, held, Publication(i).effect)
  PROVE  Pub' = [Pub EXCEPT ![i].held = held]
<1>1. Pub'[i] = [Pub[i] EXCEPT !.held = held] BY DEF Turns, Pub, Publication
<1>2. \A j \in Ids : j # i => Pub'[j] = Pub[j] BY DEF Turns, Pub
<1> QED BY <1>1, <1>2 DEF Pub

LEMMA TurnsBoth ==
  ASSUME NEW i \in Ids, NEW witness, NEW held, Turns(i, witness, held, Publication(i).effect)
  PROVE  Pub' = [Pub EXCEPT ![i].witness = witness, ![i].held = held]
<1> DEFINE half == [Pub[i] EXCEPT !.witness = witness]
<1>1. half = [witness |-> witness, held |-> Pub[i].held, effect |-> Pub[i].effect]
  BY DEF Pub, Publication
<1> HIDE DEF half
<1>2. [half EXCEPT !.held = held] = [witness |-> witness, held |-> held, effect |-> Pub[i].effect]
  BY <1>1
<1>3. Pub'[i] = [half EXCEPT !.held = held] BY <1>2 DEF Turns, Pub
<1>4. \A j \in Ids : j # i => Pub'[j] = Pub[j] BY DEF Turns, Pub
<1>5. [Pub EXCEPT ![i].witness = witness, ![i].held = held] = [Pub EXCEPT ![i] = [half EXCEPT !.held = held]]
  BY DEF half, Pub
<1> QED BY <1>3, <1>4, <1>5 DEF Pub

LEMMA TurnsEffect ==
  ASSUME NEW i \in Ids, NEW eff, Turns(i, Publication(i).witness, Publication(i).held, eff)
  PROVE  Pub' = [Pub EXCEPT ![i].effect = eff]
<1>1. Pub'[i] = [Pub[i] EXCEPT !.effect = eff] BY DEF Turns, Pub, Publication
<1>2. \A j \in Ids : j # i => Pub'[j] = Pub[j] BY DEF Turns, Pub
<1> QED BY <1>1, <1>2 DEF Pub

LEMMA Stutters ==
  ASSUME \A j \in Ids : Publication(j)' = Publication(j)
  PROVE  Pub' = Pub
BY DEF Pub

Asked(i) == \E w \in Writers : writer[w].id = i

(* What the view of a publication depends on. *)
LEMMA ViewKept ==
  ASSUME NEW j \in Ids, wrote'[j] = wrote[j], entered'[j] = entered[j], effect'[j] = effect[j],
         lock'[j] \in Writers <=> lock[j] \in Writers,
         "started" \in wrote[j] \/ (Asked(j)' <=> Asked(j))
  PROVE  Publication(j)' = Publication(j)
<1>1. Witness(j)' = Witness(j) BY DEF Witness, Asked
<1> QED BY <1>1 DEF Publication

(* The steps of PublicationWitness, in terms of the view. *)
AbstractStep == Abstract!PubNext \/ Pub' = Pub

LEMMA AbstractSteps ==
  ASSUME NEW i \in Ids
  PROVE  /\ /\ Pub[i].witness = "none" /\ Pub' = [Pub EXCEPT ![i].witness = "requested"]
            => AbstractStep
         /\ /\ Pub[i].witness = "requested" /\ Pub' = [Pub EXCEPT ![i].witness = "none"]
            => AbstractStep
         /\ /\ Pub[i].witness = "requested"
            /\ Pub' = [Pub EXCEPT ![i].witness = "started", ![i].held = TRUE]
            => AbstractStep
         /\ /\ Pub[i].witness = "started" /\ Pub[i].held
            /\ Pub' = [Pub EXCEPT ![i].witness = "armed"]
            => AbstractStep
         /\ /\ Pub[i].witness = "armed" /\ Pub[i].held
            /\ Pub' = [Pub EXCEPT ![i].witness = "sealed", ![i].held = FALSE]
            => AbstractStep
         /\ /\ Pub[i].witness = "armed" /\ Pub[i].held
            /\ Pub' = [Pub EXCEPT ![i].witness = "entered"]
            => AbstractStep
         /\ /\ Pub[i].witness = "entered" /\ ~Pub[i].effect
            /\ Pub' = [Pub EXCEPT ![i].effect = TRUE]
            => AbstractStep
         /\ /\ Pub[i].witness = "entered" /\ Pub[i].held /\ Pub[i].effect
            /\ Pub' = [Pub EXCEPT ![i].witness = "completed", ![i].held = FALSE]
            => AbstractStep
         /\ /\ Pub[i].held /\ Pub' = [Pub EXCEPT ![i].held = FALSE]
            => AbstractStep
         /\ /\ Pub[i].witness = "started" /\ ~Pub[i].held
            /\ Pub' = [Pub EXCEPT ![i].witness = "sealed"]
            => AbstractStep
BY DEF Pub, AbstractStep, Abstract!PubNext, Abstract!PublisherStep, Abstract!PublishRequested,
       Abstract!RefusePublish, Abstract!BeginSlot, Abstract!ArmInvocation,
       Abstract!RetainArmedCancellation, Abstract!EnterPublish, Abstract!ExternalEffect,
       Abstract!CompletePublish, Abstract!ReleaseSlot, Abstract!SealUninvoked

(* A publish request ends without a new file: it is refused, or its slot   *)
(* is released, or nothing changes.                                        *)
LEMMA RetireImplements ==
  ASSUME JInv, NEW w \in Writers, NEW i \in Ids, writer[w].id = i, RetireWriter(w),
         UNCHANGED <<wrote, entered, effect>>
  PROVE  AbstractStep
<1>0. TypeOK /\ SlotInv(i) BY DEF JInv
<1>1. /\ writer'[w].id = None
      /\ \A x \in Writers : x # w => writer'[x] = writer[x]
      /\ \A j \in Ids : lock'[j] = IF lock[j] = w THEN None ELSE lock[j]
  BY <1>0, WriterRetired
<1>2. None \notin Ids /\ None \notin Writers BY ProcessesAssumption
<1>3. ASSUME NEW j \in Ids, j # i PROVE Publication(j)' = Publication(j)
  <2>1. lock'[j] = lock[j] BY <1>1, <1>3 DEF JInv, LockInv
  <2>2. Asked(j)' <=> Asked(j) BY <1>1, <1>2, <1>3 DEF Asked
  <2> QED BY <2>1, <2>2, ViewKept
<1>4. Asked(i) BY DEF Asked
<1>5. CASE "started" \in wrote[i]
  <2>1. CASE lock[i] # w
    <3>1. Publication(i)' = Publication(i) BY <1>1, <1>5, <2>1, ViewKept
    <3> QED BY <1>3, <3>1, Stutters DEF AbstractStep
  <2>2. CASE lock[i] = w
    <3>1. lock'[i] \notin Writers BY <1>1, <1>2, <2>2
    <3>2. Witness(i)' = Witness(i) BY <1>5 DEF Witness
    <3>3. Turns(i, Publication(i).witness, FALSE, Publication(i).effect)
      BY <1>3, <3>1, <3>2 DEF Turns, Publication
    <3>4. CASE Publication(i).held
      <4>1. Pub[i].held BY <3>4 DEF Pub
      <4> QED BY <3>3, <4>1, TurnsHeld, AbstractSteps
    <3>5. CASE ~Publication(i).held
      <4>1. Publication(i)' = Publication(i) BY <3>3, <3>5 DEF Turns, Publication
      <4> QED BY <1>3, <4>1, Stutters DEF AbstractStep
    <3> QED BY <3>4, <3>5
  <2> QED BY <2>1, <2>2
<1>6. CASE "started" \notin wrote[i]
  <2>1. wrote[i] = {} /\ ~entered[i] BY <1>0, <1>6 DEF SlotInv
  <2>2. Witness(i) = "requested" BY <1>4, <2>1 DEF Witness, Asked
  <2>3. Witness(i)' = IF Asked(i)' THEN "requested" ELSE "none" BY <2>1 DEF Witness, Asked
  <2>4. CASE Asked(i)'
    <3>1. Publication(i)' = Publication(i) BY <2>2, <2>3, <2>4 DEF Publication
    <3> QED BY <1>3, <3>1, Stutters DEF AbstractStep
  <2>5. CASE ~Asked(i)'
    <3>1. Turns(i, "none", Publication(i).held, Publication(i).effect)
      BY <1>3, <2>2, <2>3, <2>5 DEF Turns, Publication
    <3>2. Pub[i].witness = "requested" BY <2>2 DEF Pub, Publication
    <3> QED BY <3>1, <3>2, TurnsWitness, AbstractSteps
  <2> QED BY <2>4, <2>5
<1> QED BY <1>5, <1>6

(* A publish request goes on: who asked does not change. *)
LEMMA GoKeepsAsked ==
  ASSUME TypeOK, NEW w \in Writers, NEW pc \in WriterPCs, GoWriter(w, pc)
  PROVE  \A j \in Ids : Asked(j)' <=> Asked(j)
<1>1. /\ writer'[w].id = writer[w].id
      /\ \A x \in Writers : x # w => writer'[x] = writer[x]
  BY WriterGone
<1> QED BY <1>1 DEF Asked

(* A step that only moves requests and locks is a stutter. *)
LEMMA QuietImplements ==
  ASSUME UNCHANGED <<wrote, entered, effect>>,
         \A j \in Ids : lock'[j] \in Writers <=> lock[j] \in Writers,
         \A j \in Ids : Asked(j)' <=> Asked(j)
  PROVE  AbstractStep
<1>1. \A j \in Ids : Publication(j)' = Publication(j) BY ViewKept
<1> QED BY <1>1, Stutters DEF AbstractStep

LEMMA ArriveImplements ==
  ASSUME JInv, NEW w \in Writers, NEW i \in Ids, Arrive(w, i)  PROVE AbstractStep
<1>0. TypeOK /\ SlotInv(i) /\ WriterKnows(w) BY DEF JInv
<1>1. UNCHANGED <<wrote, entered, effect, lock>> /\ writer[w].id = None
  BY <1>0 DEF Arrive, WriterAt, WriterKnows
<1>2. writer'[w].id = i /\ \A x \in Writers : x # w => writer'[x] = writer[x]
  BY <1>0 DEF Arrive, TypeOK
<1>3. \A j \in Ids : j # i => (Asked(j)' <=> Asked(j))
  BY <1>1, <1>2, ProcessesAssumption DEF Asked
<1>4. Asked(i)' BY <1>2 DEF Asked
<1>5. ASSUME NEW j \in Ids, j # i PROVE Publication(j)' = Publication(j)
  BY <1>1, <1>3, <1>5, ViewKept
<1>6. CASE "started" \in wrote[i] \/ Asked(i)
  <2>1. Publication(i)' = Publication(i) BY <1>1, <1>4, <1>6, ViewKept
  <2> QED BY <1>5, <2>1, Stutters DEF AbstractStep
<1>7. CASE "started" \notin wrote[i] /\ ~Asked(i)
  <2>1. wrote[i] = {} /\ ~entered[i] BY <1>0, <1>7 DEF SlotInv
  <2>2. Witness(i) = "none" BY <1>7, <2>1 DEF Witness, Asked
  <2>3. Witness(i)' = "requested" BY <1>1, <1>4, <2>1 DEF Witness, Asked
  <2>4. Turns(i, "requested", Publication(i).held, Publication(i).effect)
    BY <1>1, <1>5, <2>2, <2>3 DEF Turns, Publication
  <2>5. Pub[i].witness = "none" BY <2>2 DEF Pub, Publication
  <2> QED BY <2>4, <2>5, TurnsWitness, AbstractSteps
<1> QED BY <1>6, <1>7

LEMMA MakeSlotImplements ==
  ASSUME JInv, NEW w \in Writers, MakeSlot(w)  PROVE AbstractStep
<1>0. TypeOK /\ WriterKnows(w) BY DEF JInv
<1>1. UNCHANGED <<wrote, entered, effect>> BY DEF MakeSlot
<1>2. CASE RetireWriter(w)
  <2>1. writer[w].id \in Ids BY <1>0 DEF MakeSlot, WriterAt, WriterKnows
  <2>2. ASSUME NEW i \in Ids, writer[w].id = i PROVE AbstractStep
    BY <1>1, <1>2, <2>2, RetireImplements
  <2> QED BY <2>1, <2>2
<1>3. CASE GoWriter(w, "lock") /\ lock' = lock
  <2>1. "lock" \in WriterPCs BY DEF WriterPCs
  <2>2. \A j \in Ids : Asked(j)' <=> Asked(j) BY <1>0, <1>3, <2>1, GoKeepsAsked
  <2> QED BY <1>1, <1>3, <2>2, QuietImplements
<1> QED BY <1>2, <1>3 DEF MakeSlot

(* Taking the lock of a slot that has no STARTED yet. *)
LEMMA LockSlotImplements ==
  ASSUME JInv, NEW w \in Writers, LockSlot(w)  PROVE AbstractStep
<1>0. TypeOK /\ WriterKnows(w) BY DEF JInv
<1>1. UNCHANGED <<wrote, entered, effect>> /\ writer[w].pc = "lock" BY DEF LockSlot, WriterAt
<1>2. writer[w].id \in Ids BY <1>0, <1>1 DEF WriterKnows
<1>3. CASE RetireWriter(w)
  <2>1. ASSUME NEW i \in Ids, writer[w].id = i PROVE AbstractStep
    BY <1>1, <1>3, <2>1, RetireImplements
  <2> QED BY <1>2, <2>1
<1>4. ASSUME NEW i \in Ids, writer[w].id = i, lock' = [lock EXCEPT ![i] = w], GoWriter(w, "start")
      PROVE  AbstractStep
  <2>1. "start" \in WriterPCs BY DEF WriterPCs
  <2>2. \A j \in Ids : Asked(j)' <=> Asked(j) BY <1>0, <1>4, <2>1, GoKeepsAsked
  <2>3. Asked(i) BY <1>4 DEF Asked
  <2>4. wrote[i] = {} /\ ~entered[i] BY <1>0, <1>1, <1>4 DEF WriterKnows, Inside
  <2>5. Witness(i) = "requested" /\ Witness(i)' = "requested"
    BY <1>1, <2>2, <2>3, <2>4 DEF Witness, Asked
  <2>6. Publication(i)' = Publication(i) BY <1>1, <2>5 DEF Publication
  <2>7. ASSUME NEW j \in Ids, j # i PROVE Publication(j)' = Publication(j)
    <3>1. lock'[j] = lock[j] BY <1>0, <1>4, <2>7 DEF TypeOK
    <3> QED BY <1>1, <2>2, <3>1, ViewKept
  <2> QED BY <2>6, <2>7, Stutters DEF AbstractStep
<1> QED BY <1>2, <1>3, <1>4 DEF LockSlot

LEMMA TornKeepsWrote ==
  ASSUME TypeOK, NEW i \in Ids, NEW f, NEW start, NEW after, Store(i, f, "torn", start, after)
  PROVE  wrote' = wrote
BY DEF Store, TypeOK

(* A witness file written whole. *)
LEMMA WholeWrites ==
  ASSUME TypeOK, NEW i \in Ids, NEW f, NEW start, NEW after, Store(i, f, "whole", start, after)
  PROVE  wrote'[i] = wrote[i] \cup {f} /\ \A j \in Ids : j # i => wrote'[j] = wrote[j]
BY DEF Store, TypeOK

(* STARTED and the intent. *)
LEMMA WriteAndGoImplements ==
  ASSUME JInv, NEW w \in Writers, NEW i \in Ids, writer[w].pc \in Locked, writer[w].id = i,
         NEW f \in {"started", "invoked"}, NEW pc \in {"prepare", "armed"},
         f = "started" => wrote[i] = {},
         f = "invoked" => wrote[i] = {"started"},
         ~entered[i],
         WriteAndGo(w, f, pc), UNCHANGED <<entered, effect>>
  PROVE  AbstractStep
<1>0. TypeOK BY DEF JInv
<1>1. ASSUME NEW state, Put(i, f, state)
      PROVE  \E start, after : Store(i, f, state, start, after)
  BY <1>1 DEF Put
<1>2. CASE Put(i, f, "whole") /\ GoWriter(w, pc) /\ lock' = lock
  <2>1. wrote'[i] = wrote[i] \cup {f} /\ \A j \in Ids : j # i => wrote'[j] = wrote[j]
    BY <1>0, <1>1, <1>2, WholeWrites
  <2>2. pc \in WriterPCs BY DEF WriterPCs
  <2>3. \A j \in Ids : Asked(j)' <=> Asked(j) BY <1>0, <1>2, <2>2, GoKeepsAsked
  <2>4. ASSUME NEW j \in Ids, j # i PROVE Publication(j)' = Publication(j)
    BY <1>2, <2>1, <2>3, <2>4, ViewKept
  <2>5. lock[i] = w /\ lock'[i] = w BY <1>2, Exclusive
  <2>6. CASE f = "started"
    <3>1. Asked(i) BY DEF Asked
    <3>2. Witness(i) = "requested" BY <2>6, <3>1 DEF Witness, Asked
    <3>3. Witness(i)' = "started" BY <2>1, <2>6 DEF Witness
    <3>4. Turns(i, "started", TRUE, Publication(i).effect)
      BY <2>4, <2>5, <3>3 DEF Turns, Publication
    <3>5. Pub[i].witness = "requested" BY <3>2 DEF Pub, Publication
    <3>6. Pub' = [Pub EXCEPT ![i].witness = "started", ![i].held = TRUE] BY <3>4, TurnsBoth
    <3> QED BY <3>5, <3>6, AbstractSteps
  <2>7. CASE f = "invoked"
    <3>1. Witness(i) = "started" BY <2>7 DEF Witness
    <3>2. Witness(i)' = "armed" BY <2>1, <2>7 DEF Witness
    <3>3. Turns(i, "armed", Publication(i).held, Publication(i).effect)
      BY <2>4, <2>5, <3>1, <3>2 DEF Turns, Publication
    <3>4. Pub[i].witness = "started" /\ Pub[i].held BY <2>5, <3>1 DEF Pub, Publication
    <3> QED BY <3>3, <3>4, TurnsWitness, AbstractSteps
  <2> QED BY <2>6, <2>7
<1>3. CASE Put(i, f, "torn") /\ RetireWriter(w)
  <2>1. wrote' = wrote BY <1>0, <1>1, <1>3, TornKeepsWrote
  <2> QED BY <1>3, <2>1, RetireImplements
<1>4. CASE RetireWriter(w) /\ UNCHANGED <<slot, wrote>> BY <1>4, RetireImplements
<1> QED BY <1>2, <1>3, <1>4 DEF WriteAndGo

LEMMA EnterImplements ==
  ASSUME JInv, NEW w \in Writers, Enter(w)  PROVE AbstractStep
<1>0. TypeOK /\ WriterKnows(w) BY DEF JInv
<1>1. writer[w].pc = "armed" /\ writer[w].pc \in Locked
  BY DEF Enter, WriterAt, Locked, Inside
<1>2. ASSUME NEW i \in Ids, i = writer[w].id PROVE AbstractStep
  <2>1. wrote[i] = {"started", "invoked"} /\ ~entered[i] BY <1>0, <1>1, <1>2 DEF WriterKnows, Inside
  <2>2. UNCHANGED <<wrote, effect, lock>> /\ GoWriter(w, "publishing") BY DEF Enter
  <2>3. entered'[i] /\ \A j \in Ids : j # i => entered'[j] = entered[j]
    BY <1>0, <1>2 DEF Enter, TypeOK
  <2>4. "publishing" \in WriterPCs BY DEF WriterPCs
  <2>5. \A j \in Ids : Asked(j)' <=> Asked(j) BY <1>0, <2>2, <2>4, GoKeepsAsked
  <2>6. ASSUME NEW j \in Ids, j # i PROVE Publication(j)' = Publication(j)
    BY <2>2, <2>3, <2>5, <2>6, ViewKept
  <2>7. lock[i] = w /\ lock'[i] = w BY <1>1, <1>2, <2>2, Exclusive
  <2>8. Witness(i) = "armed" BY <2>1 DEF Witness
  <2>9. Witness(i)' = "entered" BY <2>1, <2>2, <2>3 DEF Witness
  <2>10. Turns(i, "entered", Publication(i).held, Publication(i).effect)
    BY <2>2, <2>6, <2>7, <2>8, <2>9 DEF Turns, Publication
  <2>11. Pub[i].witness = "armed" /\ Pub[i].held BY <2>7, <2>8 DEF Pub, Publication
  <2> QED BY <2>10, <2>11, TurnsWitness, AbstractSteps
<1> QED BY <1>1, <1>2, Exclusive

(* The last file of a publish request: the certificate or COMPLETED. *)
LEMMA LastFileImplements ==
  ASSUME JInv, NEW w \in Writers, NEW i \in Ids, writer[w].pc \in Locked, writer[w].id = i,
         NEW f, NEW start, NEW after, Store(i, f, "whole", start, after), RetireWriter(w),
         UNCHANGED <<entered, effect>>,
         wrote[i] = {"started", "invoked"},
         \/ f = "not-invoked" /\ ~entered[i]
         \/ f = "completed" /\ entered[i] /\ effect[i]
  PROVE  AbstractStep
<1>0. TypeOK BY DEF JInv
<1>1. wrote'[i] = wrote[i] \cup {f} /\ \A j \in Ids : j # i => wrote'[j] = wrote[j]
  BY <1>0, WholeWrites
<1>2. /\ writer'[w].id = None
      /\ \A x \in Writers : x # w => writer'[x] = writer[x]
  BY <1>0, WriterRetired
<1>3. \A j \in Ids : j # i => (Asked(j)' <=> Asked(j))
  BY <1>2, ProcessesAssumption DEF Asked
<1>4. (\A j \in Ids : j # i => lock'[j] = lock[j]) /\ lock'[i] = None BY WriterOut
<1>5. ASSUME NEW j \in Ids, j # i PROVE Publication(j)' = Publication(j)
  BY <1>1, <1>3, <1>4, <1>5, ViewKept
<1>6. lock[i] = w /\ lock'[i] \notin Writers BY <1>4, Exclusive, ProcessesAssumption
<1>7. CASE f = "not-invoked" /\ ~entered[i]
  <2>1. Witness(i) = "armed" BY <1>7 DEF Witness
  <2>2. Witness(i)' = "sealed" BY <1>1, <1>7 DEF Witness
  <2>3. Turns(i, "sealed", FALSE, Publication(i).effect)
    BY <1>5, <2>2 DEF Turns, Publication
  <2>4. Pub[i].witness = "armed" /\ Pub[i].held BY <1>6, <2>1 DEF Pub, Publication
  <2>5. Pub' = [Pub EXCEPT ![i].witness = "sealed", ![i].held = FALSE] BY <2>3, TurnsBoth
  <2> QED BY <2>4, <2>5, AbstractSteps
<1>8. CASE f = "completed" /\ entered[i] /\ effect[i]
  <2>1. Witness(i) = "entered" BY <1>8 DEF Witness
  <2>2. Witness(i)' = "completed" BY <1>1, <1>8 DEF Witness
  <2>3. Turns(i, "completed", FALSE, Publication(i).effect)
    BY <1>5, <2>2 DEF Turns, Publication
  <2>4. Pub[i].witness = "entered" /\ Pub[i].held /\ Pub[i].effect
    BY <1>6, <1>8, <2>1 DEF Pub, Publication
  <2>5. Pub' = [Pub EXCEPT ![i].witness = "completed", ![i].held = FALSE] BY <2>3, TurnsBoth
  <2> QED BY <2>4, <2>5, AbstractSteps
<1> QED BY <1>7, <1>8

LEMMA PublishImplements ==
  ASSUME JInv, NEW w \in Writers, Publish(w)  PROVE AbstractStep
<1>0. TypeOK /\ WriterKnows(w) BY DEF JInv
<1> DEFINE Returns == RetireWriter(w) /\ UNCHANGED <<wrote, entered, effect>>
<1>1. ASSUME Returns, writer[w].pc # "idle" PROVE AbstractStep
  <2>1. writer[w].id \in Ids BY <1>0, <1>1 DEF WriterKnows
  <2>2. ASSUME NEW i \in Ids, writer[w].id = i PROVE AbstractStep BY <1>1, <2>2, RetireImplements
  <2> QED BY <2>1, <2>2
<1>2. ASSUME NEW pc \in WriterPCs, GoWriter(w, pc), UNCHANGED <<lock, wrote, entered, effect>>
      PROVE  AbstractStep
  <2>1. \A j \in Ids : Asked(j)' <=> Asked(j) BY <1>0, <1>2, GoKeepsAsked
  <2> QED BY <1>2, <2>1, QuietImplements
<1>3. ASSUME WriteStarted(w) PROVE AbstractStep
  <2>1. writer[w].pc = "start" /\ writer[w].pc \in Locked
    BY <1>3 DEF WriteStarted, WriterAt, Locked, Inside
  <2>2. ASSUME NEW i \in Ids, writer[w].id = i PROVE AbstractStep
    <3>1. wrote[i] = {} /\ ~entered[i] BY <1>0, <2>1, <2>2 DEF WriterKnows, Inside
    <3>2. WriteAndGo(w, "started", "prepare") /\ UNCHANGED <<entered, effect>>
      BY <1>3 DEF WriteStarted
    <3> QED BY <2>1, <2>2, <3>1, <3>2, WriteAndGoImplements
  <2> QED BY <2>1, <2>2, Exclusive
<1>4. ASSUME Arm(w) PROVE AbstractStep
  <2>1. writer[w].pc = "arm" /\ writer[w].pc \in Locked
    BY <1>4 DEF Arm, WriterAt, Locked, Inside
  <2>2. ASSUME NEW i \in Ids, writer[w].id = i PROVE AbstractStep
    <3>1. wrote[i] = {"started"} /\ ~entered[i] BY <1>0, <2>1, <2>2 DEF WriterKnows, Inside
    <3>2. WriteAndGo(w, "invoked", "armed") /\ UNCHANGED <<entered, effect>>
      BY <1>4 DEF Arm
    <3> QED BY <2>1, <2>2, <3>1, <3>2, WriteAndGoImplements
  <2> QED BY <2>1, <2>2, Exclusive
<1>5. ASSUME RetainCertificate(w) PROVE AbstractStep
  <2>1. writer[w].pc = "retain" /\ writer[w].pc \in Locked
    BY <1>5 DEF RetainCertificate, WriterAt, Locked, Inside
  <2>2. RetireWriter(w) /\ UNCHANGED <<entered, effect>> BY <1>5 DEF RetainCertificate
  <2>3. ASSUME NEW i \in Ids, writer[w].id = i PROVE AbstractStep
    <3>1. wrote[i] = {"started", "invoked"} /\ ~entered[i]
      BY <1>0, <2>1, <2>3 DEF WriterKnows, Inside
    <3>2. CASE wrote' = wrote BY <1>1, <2>1, <2>2, <3>2
    <3>3. CASE Store(i, "not-invoked", "whole", slot[i].start, TRUE)
      BY <2>1, <2>2, <2>3, <3>1, <3>3, LastFileImplements
    <3>4. CASE Store(i, "not-invoked", "torn", slot[i].start, TRUE)
      BY <1>0, <3>2, <3>4, TornKeepsWrote
    <3> QED BY <1>5, <2>3, <3>2, <3>3, <3>4 DEF RetainCertificate
  <2> QED BY <2>1, <2>3, Exclusive
<1>6. ASSUME WriteCompleted(w) PROVE AbstractStep
  <2>1. writer[w].pc = "settle" /\ writer[w].pc \in Locked
    BY <1>6 DEF WriteCompleted, WriterAt, Locked, Inside
  <2>2. RetireWriter(w) /\ UNCHANGED <<entered, effect>> BY <1>6 DEF WriteCompleted
  <2>3. ASSUME NEW i \in Ids, writer[w].id = i PROVE AbstractStep
    <3>1. wrote[i] = {"started", "invoked"} /\ entered[i] /\ effect[i]
      BY <1>0, <2>1, <2>3 DEF WriterKnows, Inside
    <3>2. CASE wrote' = wrote BY <1>1, <2>1, <2>2, <3>2
    <3>3. CASE Put(i, "completed", "whole")
      <4>1. Store(i, "completed", "whole", slot[i].start, slot[i].afterArm) BY <3>3 DEF Put
      <4> QED BY <2>1, <2>2, <2>3, <3>1, <4>1, LastFileImplements
    <3>4. CASE Put(i, "completed", "torn")
      <4>1. Store(i, "completed", "torn", slot[i].start, slot[i].afterArm) BY <3>4 DEF Put
      <4> QED BY <1>0, <3>2, <4>1, TornKeepsWrote
    <3> QED BY <1>6, <2>3, <3>2, <3>3, <3>4 DEF WriteCompleted
  <2> QED BY <2>1, <2>3, Exclusive
<1>7. ASSUME Prepare(w) PROVE AbstractStep
  <2>1. "arm" \in WriterPCs /\ writer[w].pc # "idle" BY <1>7 DEF WriterPCs, Prepare, WriterAt
  <2> QED BY <1>1, <1>2, <1>7, <2>1 DEF Prepare
<1>8. ASSUME CancelArmed(w) PROVE AbstractStep
  <2>1. "retain" \in WriterPCs BY DEF WriterPCs
  <2> QED BY <1>2, <1>8, <2>1 DEF CancelArmed
<1>9. ASSUME PublishReturns(w) PROVE AbstractStep
  <2>1. "settle" \in WriterPCs /\ writer[w].pc # "idle"
    BY <1>9 DEF WriterPCs, PublishReturns, WriterAt
  <2> QED BY <1>1, <1>2, <1>9, <2>1 DEF PublishReturns
<1>10. ASSUME KillWriter(w) PROVE AbstractStep BY <1>1, <1>10 DEF KillWriter, WriterAt
<1> QED BY <1>3, <1>4, <1>5, <1>6, <1>7, <1>8, <1>9, <1>10, ArriveImplements, MakeSlotImplements,
           LockSlotImplements, EnterImplements DEF Publish

LEMMA SealImplements ==
  ASSUME JInv, NEW s \in Sealers, Seal(s)  PROVE AbstractStep
<1>0. TypeOK /\ SealerKnows(s) BY DEF JInv
<1>1. None \notin Writers /\ s \notin Writers BY ProcessesAssumption
<1>2. ASSUME RetireSealer(s)
      PROVE  \A j \in Ids : lock'[j] \in Writers <=> lock[j] \in Writers
  <2>1. \A j \in Ids : lock'[j] = IF lock[j] = s THEN None ELSE lock[j]
    BY <1>0, <1>2, SealerRetired
  <2> QED BY <1>1, <2>1
<1>3. UNCHANGED <<writer, entered, effect>>
  BY DEF Seal, SealLock, SealCheck, SealWrite, SealRead, KillSealer
<1>4. \A j \in Ids : Asked(j)' <=> Asked(j) BY <1>3 DEF Asked
<1>5. ASSUME wrote' = wrote, RetireSealer(s) \/ lock' = lock PROVE AbstractStep
  BY <1>2, <1>3, <1>4, <1>5, QuietImplements
<1>6. ASSUME NEW i \in Ids, SealLock(s, i) PROVE AbstractStep
  <2>1. wrote' = wrote BY <1>6 DEF SealLock
  <2>2. lock'[i] = s /\ lock[i] = None /\ \A j \in Ids : j # i => lock'[j] = lock[j]
    BY <1>0, <1>6 DEF SealLock, LockFree, TypeOK
  <2>3. \A j \in Ids : lock'[j] \in Writers <=> lock[j] \in Writers BY <1>1, <2>2
  <2> QED BY <1>3, <1>4, <2>1, <2>3, QuietImplements
<1>7. ASSUME NEW i \in Ids, sealer[s].id = i, sealer[s].pc = "seal",
             Put(i, "not-invoked", "whole"), lock' = lock
      PROVE  AbstractStep
  <2>1. SlotInv(i) BY DEF JInv
  <2>2. /\ Readable(i, "started") /\ SameIncarnation(i)
        /\ Absent(i, "invoked") /\ Absent(i, "not-invoked") /\ Absent(i, "completed")
    BY <1>0, <1>7 DEF SealerKnows, Files
  <2>3. /\ "started" \in wrote[i] /\ "invoked" \notin wrote[i] /\ "not-invoked" \notin wrote[i]
        /\ "completed" \notin wrote[i] /\ ~entered[i]
    BY <2>1, <2>2 DEF SlotInv, Readable, Absent, Files
  <2>4. Store(i, "not-invoked", "whole", slot[i].start, FALSE) BY <1>7 DEF Put
  <2>5. wrote'[i] = wrote[i] \cup {"not-invoked"} /\ \A j \in Ids : j # i => wrote'[j] = wrote[j]
    BY <1>0, <2>4, WholeWrites
  <2>6. lock[i] = s /\ lock'[i] \notin Writers /\ lock[i] \notin Writers
    BY <1>1, <1>7, SealerExclusive
  <2>7. ASSUME NEW j \in Ids, j # i PROVE Publication(j)' = Publication(j)
    BY <1>3, <1>4, <1>7, <2>5, <2>7, ViewKept
  <2>8. Witness(i) = "started" BY <2>3 DEF Witness
  <2>9. Witness(i)' = "sealed" BY <2>5 DEF Witness
  <2>10. Turns(i, "sealed", Publication(i).held, Publication(i).effect)
    BY <1>3, <2>6, <2>7, <2>9 DEF Turns, Publication
  <2>11. Pub[i].witness = "started" /\ ~Pub[i].held BY <2>6, <2>8 DEF Pub, Publication
  <2> QED BY <2>10, <2>11, TurnsWitness, AbstractSteps
<1>8. ASSUME SealWrite(s) PROVE AbstractStep
  <2>1. sealer[s].pc = "seal" BY <1>8 DEF SealWrite, SealerAt
  <2>2. ASSUME NEW i \in Ids, sealer[s].id = i PROVE AbstractStep
    <3>1. CASE Put(i, "not-invoked", "torn") /\ RetireSealer(s)
      <4>1. Store(i, "not-invoked", "torn", slot[i].start, FALSE) BY <3>1 DEF Put
      <4>2. wrote' = wrote BY <1>0, <4>1, TornKeepsWrote
      <4> QED BY <1>5, <3>1, <4>2
    <3> QED BY <1>5, <1>7, <1>8, <2>1, <2>2, <3>1 DEF SealWrite
  <2> QED BY <2>1, <2>2, SealerExclusive
<1>9. ASSUME SealCheck(s) \/ SealRead(s) \/ KillSealer(s) PROVE AbstractStep
  BY <1>5, <1>9 DEF SealCheck, SealRead, KillSealer
<1> QED BY <1>6, <1>8, <1>9 DEF Seal

LEMMA StepImplements ==
  ASSUME JInv, [Next]_vars  PROVE AbstractStep
<1>1. ASSUME NEW i \in Ids, Apply(i) PROVE AbstractStep
  <2>0. TypeOK /\ SlotInv(i) BY DEF JInv
  <2>1. UNCHANGED <<wrote, entered, lock, writer>> BY <1>1 DEF Apply
  <2>2. /\ effect'[i] = TRUE /\ ~effect[i] /\ entered[i] /\ "completed" \notin wrote[i]
        /\ \A j \in Ids : j # i => effect'[j] = effect[j]
    BY <1>1, <2>0 DEF Apply, TypeOK
  <2>3. \A j \in Ids : Asked(j)' <=> Asked(j) BY <2>1 DEF Asked
  <2>4. ASSUME NEW j \in Ids, j # i PROVE Publication(j)' = Publication(j)
    BY <2>1, <2>2, <2>3, <2>4, ViewKept
  <2>5. Witness(i) = "entered" /\ Witness(i)' = "entered"
    BY <2>0, <2>1, <2>2 DEF Witness, SlotInv
  <2>6. Turns(i, Publication(i).witness, Publication(i).held, TRUE)
    BY <2>1, <2>2, <2>4, <2>5 DEF Turns, Publication
  <2>7. Pub[i].witness = "entered" /\ ~Pub[i].effect BY <2>2, <2>5 DEF Pub, Publication
  <2> QED BY <2>6, <2>7, TurnsEffect, AbstractSteps
<1>2. ASSUME UNCHANGED <<wrote, entered, effect, lock, writer>> PROVE AbstractStep
  <2>1. \A j \in Ids : Asked(j)' <=> Asked(j) BY <1>2 DEF Asked
  <2> QED BY <1>2, <2>1, QuietImplements
<1>3. ASSUME NEW i \in Ids, NEW missing, Restore(i, missing) PROVE AbstractStep
  BY <1>2, <1>3 DEF Restore
<1>4. ASSUME Reboot PROVE AbstractStep BY <1>2, <1>4 DEF Reboot
<1>5. ASSUME UNCHANGED vars PROVE AbstractStep BY <1>2, <1>5 DEF vars
<1> QED BY <1>1, <1>3, <1>4, <1>5, PublishImplements, SealImplements DEF Next

(* The journal of files, locks and incarnations keeps the promise the      *)
(* action ledger relies on: each of its steps is a step of                 *)
(* PublicationWitness or leaves the publications as they are.              *)
THEOREM PromiseKept == Spec => KeepsPublicationPromise
<1>1. Init => Abstract!PubInit
  <2> SUFFICES ASSUME Init PROVE Abstract!PubInit OBVIOUS
  <2>1. ASSUME NEW i \in Ids
        PROVE  Publication(i) = [witness |-> "none", held |-> FALSE, effect |-> FALSE]
    <3>1. \A w \in Writers : writer[w].id # i BY ProcessesAssumption DEF Init, Retired
    <3>2. Witness(i) = "none" BY <3>1 DEF Init, Witness
    <3>3. effect[i] = FALSE BY DEF Init
    <3> QED BY <3>2, <3>3 DEF Publication
  <2> QED BY <2>1 DEF Abstract!PubInit
<1>2. JInv /\ [Next]_vars => [Abstract!PubNext]_([i \in Ids |-> Publication(i)])
  BY StepImplements DEF AbstractStep, Pub
<1> QED BY <1>1, <1>2, JournalInductive, PTL DEF Spec, KeepsPublicationPromise, Abstract!PubSpec

-----------------------------------------------------------------------------
(* GitHubPublication. *)

CallPCs == PublishPCs \cup ObservePCs \cup {"idle", "done"}
Outcomes == {"none", "PRECONDITION_FAILED", "UNKNOWN", "CONFIRMED", "UNRESOLVED", "CONFLICT", "PARTIAL", "ABSENT", "OBSERVED"}
Bases == {"frozen", "moved"}
Call == [pc : CallPCs, pull : Nat, seen : Pull, on : Bases, reaped : BOOLEAN, outcome : Outcomes,
         prior : BOOLEAN, pristine : BOOLEAN]
Mutations == {"push", "create"}
Requests == [caller : Callers, kind : Mutations \cup {"update"}]

GitHubTypeOK ==
  /\ base \in Bases /\ branch \in {"absent", "result", "other"}
  /\ pulls \in Seq(Pull)
  /\ call \in [Callers -> Call]
  /\ inFlight \subseteq Requests
  /\ effects \subseteq Requests

(* The number in hand is a pull request, and what was seen is its owner. *)
InHand(r, ps) == r.pull \in 1 .. Len(ps) /\ r.seen.own = ps[r.pull].own

(* What one call relies on. *)
CallStands(r, ps) ==
  /\ r.prior => ps # <<>>
  /\ r.pc \in {"push", "create"} => ~r.prior
  /\ r.pc \in {"bind", "update"} => InHand(r, ps)
  /\ r.pc = "ohistory" /\ ps = <<>> => r.pristine
  /\ r.outcome # "none" => r.pc = "done"
  /\ r.outcome \in {"CONFIRMED", "OBSERVED"} => InHand(r, ps) /\ r.seen.own
  /\ r.outcome = "ABSENT" => r.pristine

(* A push or a creation, accepted or on its way, is of a call that found   *)
(* no pull request.                                                        *)
Unpublished(e) == call[e.caller].pc # "idle" /\ ~call[e.caller].prior

GitHubInv ==
  /\ GitHubTypeOK
  /\ \A c \in Callers : CallStands(call[c], pulls)
  /\ \A e \in effects : Unpublished(e)
  /\ \A e \in inFlight : e.kind \in Mutations => Unpublished(e)

(* Pull requests are never removed and never change their repository. *)
PullsStay ==
  /\ pulls' \in Seq(Pull)
  /\ Len(pulls) <= Len(pulls')
  /\ \A k \in 1 .. Len(pulls) : pulls'[k].own = pulls[k].own

(* No call and no request at first. *)
LEMMA GitHubInitially == GitHubInit => GitHubInv
<1> SUFFICES ASSUME GitHubInit PROVE GitHubInv
  OBVIOUS
<1>1. NoCall \in Call /\ CallStands(NoCall, <<>>)
  BY DEF NoCall, NoPull, Call, CallPCs, Outcomes, Bases, Pull, CallStands
<1>2. QED
  BY <1>1 DEF GitHubInit, GitHubInv, GitHubTypeOK, Bases

(* What a call relies on survives when the repository moves on. *)
LEMMA CallStays ==
  ASSUME NEW r \in Call, CallStands(r, pulls), pulls \in Seq(Pull), PullsStay
  PROVE  CallStands(r, pulls)'
<1>1. Len(pulls) \in Nat /\ Len(pulls') \in Nat
  BY DEF PullsStay
<1>2. pulls # <<>> => pulls' # <<>>
  BY <1>1 DEF PullsStay
<1>3. InHand(r, pulls) => InHand(r, pulls')
  BY <1>1 DEF InHand, PullsStay
<1>4. QED BY <1>2, <1>3 DEF CallStands

(* One call moves, and with it GitHub or the requests on their way. *)
LEMMA OneCallMoves ==
  ASSUME GitHubInv, NEW c \in Callers, NEW row \in Call, call' = [call EXCEPT ![c] = row],
         PullsStay, CallStands(row, pulls'),
         call[c].pc # "idle" => row.pc # "idle" /\ row.prior = call[c].prior,
         base' = base, branch' \in {"absent", "result", "other"},
         effects' \subseteq Requests, inFlight' \subseteq Requests,
         \A e \in effects' \ effects : e.caller = c /\ call[c].pc \in {"push", "create"},
         \A e \in inFlight' \ inFlight : e.kind \in Mutations => e.caller = c /\ call[c].pc \in {"push", "create"}
  PROVE  GitHubInv'
<1> USE DEF GitHubInv
<1>1. GitHubTypeOK'
  BY DEF GitHubTypeOK, PullsStay
<1>2. ASSUME NEW d \in Callers PROVE CallStands(call[d], pulls)'
  <2>1. CASE d = c
    <3>1. call'[d] = row
      BY <2>1 DEF GitHubTypeOK
    <3>2. QED BY <3>1
  <2>2. CASE d # c
    <3>1. call'[d] = call[d] /\ call[d] \in Call /\ CallStands(call[d], pulls)
      BY <2>2 DEF GitHubTypeOK
    <3>2. PICK r : r = call[d]
      OBVIOUS
    <3>3. CallStands(r, pulls)'
      BY <3>1, <3>2, CallStays DEF GitHubTypeOK
    <3>4. QED BY <3>1, <3>2, <3>3
  <2>3. QED BY <2>1, <2>2
<1>3. ASSUME NEW d \in Callers, call[d].pc # "idle", ~call[d].prior PROVE call'[d].pc # "idle" /\ ~call'[d].prior
  BY <1>3 DEF GitHubTypeOK
<1>4. call[c].pc \in {"push", "create"} => call[c].pc # "idle" /\ ~call[c].prior
  BY DEF CallStands
<1>5. ASSUME NEW e \in effects' PROVE Unpublished(e)'
  <2>1. e.caller \in Callers
    BY DEF Requests
  <2>2. call[e.caller].pc # "idle" /\ ~call[e.caller].prior
    BY <1>4 DEF Unpublished
  <2>3. QED BY <2>1, <2>2, <1>3 DEF Unpublished
<1>6. ASSUME NEW e \in inFlight', e.kind \in Mutations PROVE Unpublished(e)'
  <2>1. e.caller \in Callers
    BY DEF Requests
  <2>2. call[e.caller].pc # "idle" /\ ~call[e.caller].prior
    BY <1>4, <1>6 DEF Unpublished
  <2>3. QED BY <2>1, <2>2, <1>3 DEF Unpublished
<1>7. QED BY <1>1, <1>2, <1>5, <1>6

(* A call moves and nothing else does. *)
LEMMA QuietMove ==
  ASSUME GitHubInv, NEW c \in Callers, NEW row \in Call, call' = [call EXCEPT ![c] = row], Quiet,
         CallStands(row, pulls),
         call[c].pc # "idle" => row.pc # "idle" /\ row.prior = call[c].prior
  PROVE  GitHubInv'
<1>1. UNCHANGED <<base, branch, pulls, effects, inFlight>>
  BY DEF Quiet, remoteVars
<1>2. PullsStay
  BY <1>1 DEF PullsStay, GitHubInv, GitHubTypeOK
<1>3. CallStands(row, pulls')
  BY <1>1
<1>4. QED
  BY <1>1, <1>2, <1>3, OneCallMoves DEF GitHubInv, GitHubTypeOK

(* A call goes on, with nothing new in hand. *)
LEMMA QuietGo ==
  ASSUME GitHubInv, NEW c \in Callers, NEW pc \in CallPCs \ {"idle", "bind", "update", "ohistory"}, Go(c, pc), Quiet,
         call[c].pc \notin {"idle", "done"}, pc \in {"push", "create"} => pulls = <<>>
  PROVE  GitHubInv'
<1> DEFINE row == [call[c] EXCEPT !.pc = pc]
<1>1. call[c] \in Call /\ CallStands(call[c], pulls) /\ call \in [Callers -> Call]
  BY DEF GitHubInv, GitHubTypeOK
<1>2. /\ row \in Call /\ row.pc = pc /\ row.outcome = call[c].outcome /\ row.prior = call[c].prior
      /\ row.pristine = call[c].pristine /\ row.pull = call[c].pull /\ row.seen = call[c].seen
  BY <1>1 DEF Call
<1>3. call' = [call EXCEPT ![c] = row]
  BY <1>1 DEF Go
<1> HIDE DEF row
<1>4. CallStands(row, pulls)
  BY <1>1, <1>2 DEF CallStands
<1>5. QED BY <1>2, <1>3, <1>4, QuietMove

(* A call ends without an answer about GitHub. *)
LEMMA QuietEnd ==
  ASSUME GitHubInv, NEW c \in Callers, NEW o \in {"UNKNOWN", "UNRESOLVED", "CONFLICT", "PARTIAL"}, End(c, o), Quiet,
         call[c].pc # "idle"
  PROVE  GitHubInv'
<1> DEFINE row == [call[c] EXCEPT !.pc = "done", !.outcome = o]
<1>1. call[c] \in Call /\ CallStands(call[c], pulls) /\ call \in [Callers -> Call]
  BY DEF GitHubInv, GitHubTypeOK
<1>2. row \in Call /\ row.pc = "done" /\ row.outcome = o /\ row.prior = call[c].prior
  BY <1>1 DEF Call, CallPCs, Outcomes
<1>3. call' = [call EXCEPT ![c] = row]
  BY <1>1 DEF End
<1> HIDE DEF row
<1>4. CallStands(row, pulls)
  BY <1>1, <1>2 DEF CallStands
<1>5. QED BY <1>2, <1>3, <1>4, QuietMove

(* Dispatch and Reconcile begin: what was there before is noted. *)
LEMMA BeginStands ==
  ASSUME GitHubInv, NEW c \in Callers, Dispatch(c) \/ Reconcile(c)
  PROVE  GitHubInv'
<1> DEFINE Begun(pc) == [NoCall EXCEPT !.pc = pc, !.prior = pulls # <<>>]
           Refused(o) == [NoCall EXCEPT !.pc = "done", !.outcome = o]
<1>1. call[c].pc = "idle" /\ Quiet
  BY DEF Dispatch, Reconcile
<1>2. PICK n : n = NoCall
  OBVIOUS
<1>3. /\ n \in Call /\ n.outcome = "none" /\ ~n.prior
  BY <1>2 DEF NoCall, NoPull, Call, CallPCs, Outcomes, Bases, Pull
<1>4. PICK row : /\ call' = [call EXCEPT ![c] = row]
                 /\ \/ row = [n EXCEPT !.pc = "dispatch", !.prior = pulls # <<>>]
                    \/ row = [n EXCEPT !.pc = "obase", !.prior = pulls # <<>>]
                    \/ row = [n EXCEPT !.pc = "done", !.outcome = "PRECONDITION_FAILED"]
                    \/ row = [n EXCEPT !.pc = "done", !.outcome = "UNRESOLVED"]
  BY <1>2 DEF Dispatch, Reconcile
<1>5. row \in Call /\ CallStands(row, pulls)
  <2>1. CASE row = [n EXCEPT !.pc = "dispatch", !.prior = pulls # <<>>] \/ row = [n EXCEPT !.pc = "obase", !.prior = pulls # <<>>]
    <3>1. row \in Call /\ row.pc \in {"dispatch", "obase"} /\ row.outcome = "none" /\ row.prior = (pulls # <<>>)
      BY <2>1, <1>3 DEF Call, CallPCs, PublishPCs, ObservePCs
    <3>2. QED BY <3>1 DEF CallStands
  <2>2. CASE row = [n EXCEPT !.pc = "done", !.outcome = "PRECONDITION_FAILED"] \/ row = [n EXCEPT !.pc = "done", !.outcome = "UNRESOLVED"]
    <3>1. row \in Call /\ row.pc = "done" /\ row.outcome \in {"PRECONDITION_FAILED", "UNRESOLVED"} /\ ~row.prior
      BY <2>2, <1>3 DEF Call, CallPCs, Outcomes
    <3>2. QED BY <3>1 DEF CallStands
  <2>3. QED BY <1>4, <2>1, <2>2
<1>6. QED BY <1>1, <1>4, <1>5, QuietMove


(* The checks of a publication, up to its next request. *)
LEMMA ChecksStand ==
  ASSUME GitHubInv, NEW c \in Callers,
         StageSnapshot(c) \/ PublishBase(c) \/ stageBundle(c) \/ PublishBranch(c) \/ CheckHistory(c) \/ ConfirmBranch(c)
         \/ PublishFails(c) \/ ObserveFails(c)
  PROVE  GitHubInv'
<1>1. CASE StageSnapshot(c) \/ PublishBase(c) \/ stageBundle(c) \/ PublishBranch(c) \/ CheckHistory(c) \/ ConfirmBranch(c)
  <2>1. PICK pc \in {"base", "stage", "branch", "confirm", "history", "push", "create", "find"} :
          Go(c, pc) /\ (pc \in {"push", "create"} => pulls = <<>>)
    BY <1>1 DEF StageSnapshot, PublishBase, stageBundle, PublishBranch, CheckHistory, ConfirmBranch, hasHistoricalPull
  <2>2. Quiet /\ call[c].pc \notin {"idle", "done"}
    BY <1>1 DEF StageSnapshot, PublishBase, stageBundle, PublishBranch, CheckHistory, ConfirmBranch
  <2>3. pc \in CallPCs \ {"idle", "bind", "update", "ohistory"}
    BY <2>1 DEF CallPCs, PublishPCs
  <2>4. QED BY <2>1, <2>2, <2>3, QuietGo
<1>2. CASE PublishFails(c) \/ ObserveFails(c)
  <2>1. PICK o \in {"UNKNOWN", "UNRESOLVED"} : End(c, o)
    BY <1>2 DEF PublishFails, ObserveFails
  <2>2. Quiet /\ call[c].pc # "idle"
    BY <1>2 DEF PublishFails, ObserveFails, PublishPCs, ObservePCs
  <2>3. QED BY <2>1, <2>2, QuietEnd
<1>3. QED BY <1>1, <1>2

(* A pull request is found and taken up, or its history is asked for. *)
LEMMA FindStands ==
  ASSUME GitHubInv, NEW c \in Callers, FindOpen(c)
  PROVE  GitHubInv'
<1>1. call[c].pc = "find" /\ Quiet /\ call[c] \in Call /\ CallStands(call[c], pulls) /\ call \in [Callers -> Call]
      /\ base \in Bases /\ pulls \in Seq(Pull)
  BY DEF FindOpen, GitHubInv, GitHubTypeOK
<1>2. CASE Go(c, "history2")
  BY <1>1, <1>2, QuietGo DEF CallPCs, PublishPCs
<1>3. ASSUME NEW k \in OpenPulls,
             call' = [call EXCEPT ![c].pull = k, ![c].seen = pulls[k], ![c].on = base,
                                  ![c].pc = IF pulls[k].text THEN "bind" ELSE "update"]
      PROVE  GitHubInv'
  <2> DEFINE pc == IF pulls[k].text THEN "bind" ELSE "update"
             row == [call[c] EXCEPT !.pull = k, !.seen = pulls[k], !.on = base, !.pc = pc]
  <2>1. k \in 1 .. Len(pulls) /\ k \in Nat /\ pulls[k] \in Pull
    BY <1>1 DEF OpenPulls
  <2>2. pc \in {"bind", "update"} /\ pc \in CallPCs
    BY DEF CallPCs, PublishPCs
  <2>3. call' = [call EXCEPT ![c] = row]
    BY <1>1, <1>3
  <2> HIDE DEF pc
  <2>4. /\ row \in Call /\ row.pc = pc /\ row.pull = k /\ row.seen = pulls[k]
        /\ row.prior = call[c].prior /\ row.outcome = call[c].outcome
    BY <1>1, <2>1, <2>2 DEF Call
  <2> HIDE DEF row
  <2>5. CallStands(row, pulls)
    BY <1>1, <2>1, <2>2, <2>4 DEF CallStands, InHand
  <2>6. QED BY <1>1, <2>2, <2>3, <2>4, <2>5, QuietMove
<1>4. QED BY <1>2, <1>3 DEF FindOpen

(* What GitHub does with a push, a creation and an update. *)
LEMMA EffectsStay ==
  ASSUME GitHubInv, NEW c \in Callers
  PROVE  /\ Pushed(c) => PullsStay /\ effects' = effects \cup {[caller |-> c, kind |-> "push"]}
                         /\ base' = base /\ branch' \in {"absent", "result", "other"}
         /\ Created(c) => /\ PullsStay /\ effects' = effects \cup {[caller |-> c, kind |-> "create"]}
                          /\ base' = base /\ branch' = branch
                          /\ Len(pulls') \in 1 .. Len(pulls') /\ pulls'[Len(pulls')] \in Pull
         /\ \A k : Updated(k) => PullsStay /\ UNCHANGED <<base, branch, effects>>
<1> USE DEF GitHubInv, GitHubTypeOK
<1>1. Pushed(c) => PullsStay /\ effects' = effects \cup {[caller |-> c, kind |-> "push"]}
                   /\ base' = base /\ branch' \in {"absent", "result", "other"}
  BY DEF Pushed, PullsStay
<1>2. ASSUME Created(c)
      PROVE  /\ PullsStay /\ effects' = effects \cup {[caller |-> c, kind |-> "create"]}
             /\ base' = base /\ branch' = branch
             /\ Len(pulls') \in 1 .. Len(pulls') /\ pulls'[Len(pulls')] \in Pull
  <2> DEFINE pr == [own |-> TRUE, target |-> TRUE, open |-> TRUE, head |-> branch, text |-> TRUE]
  <2>1. pr \in Pull
    BY <1>2 DEF Created, Pull
  <2>2. pulls' = Append(pulls, pr) /\ effects' = effects \cup {[caller |-> c, kind |-> "create"]} /\ base' = base /\ branch' = branch
    BY <1>2 DEF Created
  <2> HIDE DEF pr
  <2>3. pulls' \in Seq(Pull) /\ Len(pulls') = Len(pulls) + 1 /\ Len(pulls) \in Nat
        /\ (\A k \in 1 .. Len(pulls) : pulls'[k] = pulls[k]) /\ pulls'[Len(pulls) + 1] = pr
    BY <2>1, <2>2
  <2>4. QED BY <2>1, <2>2, <2>3 DEF PullsStay
<1>3. ASSUME NEW k, Updated(k) PROVE PullsStay /\ UNCHANGED <<base, branch, effects>>
  <2>1. pulls' = [pulls EXCEPT ![k].text = TRUE]
    BY <1>3 DEF Updated
  <2>2. pulls \in [1 .. Len(pulls) -> Pull] /\ Len(pulls) \in Nat
    OBVIOUS
  <2>3. pulls' \in [1 .. Len(pulls) -> Pull] /\ \A j \in 1 .. Len(pulls) : pulls'[j].own = pulls[j].own
    BY <2>1, <2>2 DEF Pull
  <2>4. pulls' \in Seq(Pull) /\ Len(pulls') = Len(pulls)
    BY <2>2, <2>3
  <2>5. QED BY <1>3, <2>2, <2>3, <2>4 DEF Updated, PullsStay
<1>4. QED BY <1>1, <1>2, <1>3


(* A request that its caller gives up is on its way. *)
LEMMA GiveUpStands ==
  ASSUME GitHubInv, NEW c \in Callers, NEW kind \in Mutations \cup {"update"}, NEW reaped \in BOOLEAN,
         kind \in Mutations => call[c].pc = kind, call[c].pc # "idle",
         inFlight' = inFlight \cup {[caller |-> c, kind |-> kind]},
         call' = [call EXCEPT ![c] = [call[c] EXCEPT !.pc = "done", !.outcome = "UNKNOWN", !.reaped = reaped]],
         UNCHANGED remoteVars
  PROVE  GitHubInv'
<1> DEFINE row == [call[c] EXCEPT !.pc = "done", !.outcome = "UNKNOWN", !.reaped = reaped]
           request == [caller |-> c, kind |-> kind]
<1>1. call[c] \in Call /\ CallStands(call[c], pulls) /\ pulls \in Seq(Pull) /\ base \in Bases
      /\ branch \in {"absent", "result", "other"} /\ effects \subseteq Requests /\ inFlight \subseteq Requests
  BY DEF GitHubInv, GitHubTypeOK
<1>2. row \in Call /\ row.pc = "done" /\ row.outcome = "UNKNOWN" /\ row.prior = call[c].prior
  BY <1>1 DEF Call, CallPCs, Outcomes
<1>3. call' = [call EXCEPT ![c] = row]
  OBVIOUS
<1>4. request \in Requests /\ request.caller = c /\ request.kind = kind /\ inFlight' = inFlight \cup {request}
  BY DEF Requests
<1> HIDE DEF row, request
<1>5. PullsStay /\ UNCHANGED <<base, branch, pulls, effects>>
  BY <1>1 DEF PullsStay, remoteVars
<1>6. CallStands(row, pulls')
  BY <1>1, <1>2, <1>5 DEF CallStands
<1>7. \A e \in inFlight' \ inFlight : e.kind \in Mutations => e.caller = c /\ call[c].pc \in {"push", "create"}
  BY <1>4 DEF Mutations
<1>8. inFlight' \subseteq Requests /\ effects' \subseteq Requests
  BY <1>1, <1>4, <1>5
<1>9. QED BY <1>1, <1>2, <1>3, <1>5, <1>6, <1>7, <1>8, OneCallMoves

(* The branch is pushed. *)
LEMMA PushStands ==
  ASSUME GitHubInv, NEW c \in Callers, push(c)
  PROVE  GitHubInv'
<1>1. call[c].pc = "push" /\ call[c] \in Call /\ CallStands(call[c], pulls) /\ call \in [Callers -> Call]
      /\ effects \subseteq Requests /\ inFlight \subseteq Requests
  BY DEF push, GitHubInv, GitHubTypeOK
<1>2. CASE Pushed(c) /\ Go(c, "confirm") /\ UNCHANGED inFlight
  <2> DEFINE row == [call[c] EXCEPT !.pc = "confirm"]
             accepted == [caller |-> c, kind |-> "push"]
  <2>1. row \in Call /\ row.pc = "confirm" /\ row.outcome = call[c].outcome /\ row.prior = call[c].prior
    BY <1>1 DEF Call, CallPCs, PublishPCs
  <2>2. call' = [call EXCEPT ![c] = row]
    BY <1>1, <1>2 DEF Go
  <2>3. accepted \in Requests /\ accepted.caller = c
    BY DEF Requests, Mutations
  <2> HIDE DEF row
  <2>4. PullsStay /\ effects' = effects \cup {accepted} /\ base' = base /\ branch' \in {"absent", "result", "other"}
        /\ pulls' = pulls
    BY <1>2, EffectsStay DEF Pushed
  <2> HIDE DEF accepted
  <2>5. CallStands(row, pulls')
    BY <1>1, <2>1, <2>4 DEF CallStands
  <2>6. QED BY <1>1, <1>2, <2>1, <2>2, <2>3, <2>4, <2>5, OneCallMoves
<1>3. CASE /\ inFlight' = inFlight \cup {[caller |-> c, kind |-> "push"]}
           /\ call' = [call EXCEPT ![c].pc = "done", ![c].outcome = "UNKNOWN", ![c].reaped = FALSE]
           /\ UNCHANGED remoteVars
  <2>1. call' = [call EXCEPT ![c] = [call[c] EXCEPT !.pc = "done", !.outcome = "UNKNOWN", !.reaped = FALSE]]
    BY <1>1, <1>3
  <2>2. QED BY <1>1, <1>3, <2>1, GiveUpStands DEF Mutations
<1>4. QED BY <1>2, <1>3 DEF push

(* A request given up without a Git process of its own. *)
LEMMA EndUnknown ==
  ASSUME GitHubInv, NEW c \in Callers, End(c, "UNKNOWN")
  PROVE  /\ call[c].reaped \in BOOLEAN
         /\ call' = [call EXCEPT ![c] = [call[c] EXCEPT !.pc = "done", !.outcome = "UNKNOWN", !.reaped = call[c].reaped]]
<1>1. call[c] \in Call /\ call \in [Callers -> Call]
  BY DEF GitHubInv, GitHubTypeOK
<1>2. PICK r \in Call : r = call[c]
  BY <1>1
<1>3. r.reaped \in BOOLEAN /\ [r EXCEPT !.pc = "done", !.outcome = "UNKNOWN", !.reaped = r.reaped] = [r EXCEPT !.pc = "done", !.outcome = "UNKNOWN"]
  BY DEF Call
<1>4. call' = [call EXCEPT ![c] = [call[c] EXCEPT !.pc = "done", !.outcome = "UNKNOWN"]]
  BY <1>1 DEF End
<1>5. QED BY <1>2, <1>3, <1>4

(* The pull request is created. *)
LEMMA CreateStands ==
  ASSUME GitHubInv, NEW c \in Callers, createPull(c)
  PROVE  GitHubInv'
<1>1. call[c].pc = "create" /\ call[c] \in Call /\ CallStands(call[c], pulls) /\ call \in [Callers -> Call]
      /\ effects \subseteq Requests /\ inFlight \subseteq Requests /\ base \in Bases
      /\ branch \in {"absent", "result", "other"}
  BY DEF createPull, GitHubInv, GitHubTypeOK
<1>2. CASE /\ Created(c)
           /\ call' = [call EXCEPT ![c].pc = "bind", ![c].pull = Len(pulls'), ![c].seen = pulls'[Len(pulls')], ![c].on = base]
           /\ UNCHANGED inFlight
  <2> DEFINE row == [call[c] EXCEPT !.pc = "bind", !.pull = Len(pulls'), !.seen = pulls'[Len(pulls')], !.on = base]
             accepted == [caller |-> c, kind |-> "create"]
  <2>1. PullsStay /\ effects' = effects \cup {accepted} /\ base' = base /\ branch' = branch
        /\ Len(pulls') \in 1 .. Len(pulls') /\ pulls'[Len(pulls')] \in Pull
    BY <1>2, EffectsStay
  <2>2. PICK n, pr : n = Len(pulls') /\ pr = pulls'[Len(pulls')]
    OBVIOUS
  <2>3. n \in Nat /\ pr \in Pull
    BY <2>1, <2>2
  <2>4. "bind" \in CallPCs
    BY DEF CallPCs, PublishPCs
  <2>5. [call[c] EXCEPT !.pc = "bind", !.pull = n, !.seen = pr, !.on = base] = row
    BY <2>2
  <2>6. /\ row \in Call /\ row.pc = "bind" /\ row.pull = n /\ row.seen = pr
        /\ row.prior = call[c].prior /\ row.outcome = call[c].outcome
    <3>1. PICK q : q = [call[c] EXCEPT !.pc = "bind", !.pull = n, !.seen = pr, !.on = base]
      OBVIOUS
    <3>2. q \in Call /\ q.pc = "bind" /\ q.pull = n /\ q.seen = pr /\ q.prior = call[c].prior
    /\ q.outcome = call[c].outcome
      BY <1>1, <2>3, <2>4, <3>1 DEF Call
    <3>3. QED BY <2>5, <3>1, <3>2
  <2>7. call' = [call EXCEPT ![c] = row]
    BY <1>1, <1>2
  <2>8. accepted \in Requests /\ accepted.caller = c
    BY DEF Requests, Mutations
  <2> HIDE DEF row, accepted
  <2>9. pulls' # <<>>
    BY <2>1, <2>2, <2>3
  <2>10. CallStands(row, pulls')
    BY <1>1, <2>1, <2>2, <2>6, <2>9 DEF CallStands, InHand
  <2>11. /\ effects' \subseteq Requests /\ inFlight' \subseteq Requests /\ inFlight' \ inFlight = {}
         /\ \A e \in effects' \ effects : e.caller = c /\ call[c].pc \in {"push", "create"}
    BY <1>1, <1>2, <2>1, <2>8
  <2>12. base' = base /\ branch' \in {"absent", "result", "other"} /\ PullsStay
    BY <1>1, <2>1
  <2>13. row.pc # "idle" /\ row.prior = call[c].prior /\ row \in Call
    BY <2>6
  <2>14. QED BY <2>7, <2>10, <2>11, <2>12, <2>13, OneCallMoves
<1>3. CASE inFlight' = inFlight \cup {[caller |-> c, kind |-> "create"]} /\ End(c, "UNKNOWN") /\ UNCHANGED remoteVars
  BY <1>1, <1>3, EndUnknown, GiveUpStands DEF Mutations
<1>4. QED BY <1>2, <1>3 DEF createPull

(* The pull request is updated. *)
LEMMA UpdateStands ==
  ASSUME GitHubInv, NEW c \in Callers, updatePull(c)
  PROVE  GitHubInv'
<1>1. call[c].pc = "update" /\ call[c] \in Call /\ CallStands(call[c], pulls) /\ call \in [Callers -> Call]
      /\ effects \subseteq Requests /\ inFlight \subseteq Requests /\ base \in Bases
      /\ branch \in {"absent", "result", "other"} /\ pulls \in Seq(Pull)
  BY DEF updatePull, GitHubInv, GitHubTypeOK
<1>2. PICK k : k = call[c].pull
  OBVIOUS
<1>3. CASE /\ Updated(k)
           /\ call' = [call EXCEPT ![c].pc = "bind", ![c].seen = pulls'[k], ![c].on = base]
           /\ UNCHANGED inFlight
  <2> DEFINE row == [call[c] EXCEPT !.pc = "bind", !.seen = pulls'[k], !.on = base]
  <2>1. PullsStay /\ UNCHANGED <<base, branch, effects>>
    BY <1>3, EffectsStay
  <2>2. k \in 1 .. Len(pulls') /\ pulls'[k] \in Pull
    <3>1. k \in 1 .. Len(pulls) BY <1>1, <1>2 DEF CallStands, InHand
    <3>2. Len(pulls) \in Nat /\ Len(pulls') \in Nat /\ Len(pulls) <= Len(pulls') /\ pulls' \in Seq(Pull)
      BY <1>1, <2>1 DEF PullsStay
    <3>3. QED BY <3>1, <3>2
  <2>3. PICK pr \in Pull : pr = pulls'[k]
    BY <2>2
  <2>4. "bind" \in CallPCs
    BY DEF CallPCs, PublishPCs
  <2>5. /\ row \in Call /\ row.pc = "bind" /\ row.pull = k /\ row.seen = pr
        /\ row.prior = call[c].prior /\ row.outcome = call[c].outcome
    <3>1. PICK q : q = [call[c] EXCEPT !.pc = "bind", !.seen = pr, !.on = base]
      OBVIOUS
    <3>2. q \in Call /\ q.pc = "bind" /\ q.pull = k /\ q.seen = pr /\ q.prior = call[c].prior
    /\ q.outcome = call[c].outcome
      BY <1>1, <1>2, <2>3, <2>4, <3>1 DEF Call
    <3>3. q = row BY <2>3, <3>1
    <3>4. QED BY <3>2, <3>3
  <2>6. call' = [call EXCEPT ![c] = row]
    BY <1>1, <1>3
  <2> HIDE DEF row
  <2>7. call[c].prior => pulls' # <<>>
    BY <2>2
  <2>8. CallStands(row, pulls')
    BY <1>1, <2>2, <2>3, <2>5, <2>7 DEF CallStands, InHand
  <2>9. QED BY <1>1, <1>3, <2>1, <2>5, <2>6, <2>8, OneCallMoves
<1>4. CASE inFlight' = inFlight \cup {[caller |-> c, kind |-> "update"]} /\ End(c, "UNKNOWN") /\ UNCHANGED remoteVars
  BY <1>1, <1>4, EndUnknown, GiveUpStands DEF Mutations
<1>5. QED BY <1>2, <1>3, <1>4 DEF updatePull


(* A receipt binds, and an observation answers. *)
LEMMA BindStands ==
  ASSUME GitHubInv, NEW c \in Callers, Bind(c)
  PROVE  GitHubInv'
<1> DEFINE row == [call[c] EXCEPT !.pc = "done", !.outcome = "CONFIRMED"]
<1>1. call[c].pc = "bind" /\ call[c] \in Call /\ CallStands(call[c], pulls) /\ call \in [Callers -> Call] /\ Quiet
      /\ call[c].seen.own
  BY DEF Bind, pullMatches, GitHubInv, GitHubTypeOK
<1>2. /\ row \in Call /\ row.pc = "done" /\ row.outcome = "CONFIRMED" /\ row.prior = call[c].prior
      /\ row.pull = call[c].pull /\ row.seen = call[c].seen
  BY <1>1 DEF Call, CallPCs, Outcomes
<1>3. call' = [call EXCEPT ![c] = row]
  BY <1>1 DEF Bind, End
<1> HIDE DEF row
<1>4. CallStands(row, pulls)
  BY <1>1, <1>2 DEF CallStands, InHand
<1>5. QED BY <1>1, <1>2, <1>3, <1>4, QuietMove

(* The branch is observed. *)
LEMMA ObserveBranchStands ==
  ASSUME GitHubInv, NEW c \in Callers, ObserveBranch(c)
  PROVE  GitHubInv'
<1> DEFINE pc == CASE branch = "absent" -> "ohistory" [] branch = "result" -> "ofind" [] OTHER -> "done"
           outcome == IF branch = "other" THEN "CONFLICT" ELSE call[c].outcome
           pristine == branch = "absent" /\ pulls = <<>>
           row == [call[c] EXCEPT !.pc = pc, !.outcome = outcome, !.pristine = pristine]
<1>1. call[c].pc = "obranch" /\ call[c] \in Call /\ CallStands(call[c], pulls) /\ call \in [Callers -> Call] /\ Quiet
      /\ branch \in {"absent", "result", "other"}
  BY DEF ObserveBranch, GitHubInv, GitHubTypeOK
<1>2. /\ branch = "absent" => pc = "ohistory"
      /\ branch = "result" => pc = "ofind"
      /\ branch = "other" => pc = "done"
  BY <1>1
<1>3. pc \in CallPCs /\ outcome \in Outcomes /\ pristine \in BOOLEAN
  BY <1>1, <1>2 DEF CallPCs, ObservePCs, Outcomes, Call
<1>4. call' = [call EXCEPT ![c] = row]
  BY <1>1 DEF ObserveBranch
<1>5. call[c].outcome = "none"
  BY <1>1 DEF CallStands
<1>6. /\ pc \in {"ohistory", "ofind", "done"} /\ outcome \in {"none", "CONFLICT"} /\ (outcome = "CONFLICT" => pc = "done")
      /\ (pc = "ohistory" /\ pulls = <<>> => pristine)
  BY <1>1, <1>2, <1>5
<1> HIDE DEF pc, outcome, pristine
<1>7. /\ row \in Call /\ row.pc = pc /\ row.outcome = outcome /\ row.prior = call[c].prior /\ row.pristine = pristine
  BY <1>1, <1>3 DEF Call
<1> HIDE DEF row
<1>8. CallStands(row, pulls)
  BY <1>1, <1>6, <1>7 DEF CallStands
<1>9. QED BY <1>1, <1>4, <1>6, <1>7, <1>8, QuietMove

(* Every pull request of the branch is listed. *)
LEMMA ObserveHistoryStands ==
  ASSUME GitHubInv, NEW c \in Callers, ObserveHistory(c)
  PROVE  GitHubInv'
<1>1. call[c].pc = "ohistory" /\ call[c] \in Call /\ CallStands(call[c], pulls) /\ call \in [Callers -> Call] /\ Quiet
  BY DEF ObserveHistory, GitHubInv, GitHubTypeOK
<1>2. CASE pulls # <<>>
  <2>1. End(c, "PARTIAL")
    BY <1>2 DEF ObserveHistory, hasHistoricalPull
  <2>2. QED BY <1>1, <2>1, QuietEnd
<1>3. CASE pulls = <<>>
  <2> DEFINE row == [call[c] EXCEPT !.pc = "done", !.outcome = "ABSENT"]
  <2>1. /\ row \in Call /\ row.pc = "done" /\ row.outcome = "ABSENT" /\ row.prior = call[c].prior
  /\ row.pristine = call[c].pristine
    BY <1>1 DEF Call, CallPCs, Outcomes
  <2>2. call' = [call EXCEPT ![c] = row]
    BY <1>1, <1>3 DEF ObserveHistory, hasHistoricalPull, End
  <2> HIDE DEF row
  <2>3. CallStands(row, pulls)
    BY <1>1, <1>3, <2>1 DEF CallStands
  <2>4. QED BY <1>1, <2>1, <2>2, <2>3, QuietMove
<1>4. QED BY <1>2, <1>3

(* Base and pull request are observed. *)
LEMMA ObserveStands ==
  ASSUME GitHubInv, NEW c \in Callers, ObserveBase(c) \/ ObservePull(c)
  PROVE  GitHubInv'
<1>1. call[c].pc \in {"obase", "ofind"} /\ call[c] \in Call /\ CallStands(call[c], pulls) /\ call \in [Callers -> Call] /\ Quiet
      /\ pulls \in Seq(Pull)
  BY DEF ObserveBase, ObservePull, GitHubInv, GitHubTypeOK
<1>2. CASE Go(c, "obranch")
  BY <1>1, <1>2, QuietGo DEF CallPCs, ObservePCs
<1>3. CASE End(c, "CONFLICT")
  BY <1>1, <1>3, QuietEnd
<1>4. CASE End(c, "PARTIAL")
  BY <1>1, <1>4, QuietEnd
<1>5. ASSUME NEW k \in OpenPulls,
             call' = [call EXCEPT ![c].pc = "done", ![c].pull = k, ![c].seen = pulls[k],
                        ![c].outcome = IF pullMatches(pulls[k], base) THEN "OBSERVED" ELSE "CONFLICT"]
      PROVE  GitHubInv'
  <2> DEFINE o == IF pullMatches(pulls[k], base) THEN "OBSERVED" ELSE "CONFLICT"
             row == [call[c] EXCEPT !.pc = "done", !.pull = k, !.seen = pulls[k], !.outcome = o]
  <2>1. k \in 1 .. Len(pulls) /\ k \in Nat /\ pulls[k] \in Pull
    BY <1>1 DEF OpenPulls
  <2>2. o \in {"OBSERVED", "CONFLICT"} /\ o \in Outcomes /\ (o = "OBSERVED" => pulls[k].own)
    BY DEF Outcomes, pullMatches
  <2>3. call' = [call EXCEPT ![c] = row]
    BY <1>1, <1>5
  <2> HIDE DEF o
  <2>4. "done" \in CallPCs
    BY DEF CallPCs
  <2>5. /\ row \in Call /\ row.pc = "done" /\ row.pull = k /\ row.seen = pulls[k]
        /\ row.prior = call[c].prior /\ row.outcome = o
    BY <1>1, <2>1, <2>2, <2>4 DEF Call
  <2> HIDE DEF row
  <2>6. CallStands(row, pulls)
    BY <1>1, <2>1, <2>2, <2>5 DEF CallStands, InHand
  <2>7. QED BY <1>1, <2>3, <2>5, <2>6, QuietMove
<1>6. QED BY <1>2, <1>3, <1>4, <1>5 DEF ObserveBase, ObservePull

(* The repository moves while every call stands still. *)
LEMMA RepositoryMoves ==
  ASSUME GitHubInv, UNCHANGED call, PullsStay, base' \in Bases, branch' \in {"absent", "result", "other"},
         inFlight' \subseteq inFlight,
         effects' \subseteq Requests, \A e \in effects' \ effects : Unpublished(e)
  PROVE  GitHubInv'
<1>1. GitHubTypeOK'
  BY DEF GitHubInv, GitHubTypeOK, PullsStay
<1>2. ASSUME NEW d \in Callers PROVE CallStands(call[d], pulls)'
  <2>1. call[d] \in Call /\ CallStands(call[d], pulls) /\ pulls \in Seq(Pull)
    BY DEF GitHubInv, GitHubTypeOK
  <2>2. PICK r : r = call[d]
    OBVIOUS
  <2>3. CallStands(r, pulls)'
    BY <2>1, <2>2, CallStays
  <2>4. QED BY <2>2, <2>3
<1>3. \A e : Unpublished(e)' = Unpublished(e)
  BY DEF Unpublished
<1>4. QED BY <1>1, <1>2, <1>3 DEF GitHubInv

(* A request takes effect after its caller gave it up. *)
LEMMA LateStands ==
  ASSUME GitHubInv, NEW e \in inFlight, Late(e)
  PROVE  GitHubInv'
<1>1. /\ base \in Bases /\ branch \in {"absent", "result", "other"} /\ effects \subseteq Requests /\ inFlight \subseteq Requests
  BY DEF GitHubInv, GitHubTypeOK
<1>2. inFlight' \subseteq inFlight /\ UNCHANGED call /\ e \in Requests
  BY <1>1 DEF Late
<1>3. e.caller \in Callers
  BY <1>2 DEF Requests
<1>4. e.kind \in Mutations => Unpublished(e)
  BY DEF GitHubInv
<1>5. ASSUME NEW kind \in Mutations, e.kind = kind, effects' = effects \cup {[caller |-> e.caller, kind |-> kind]}
      PROVE  effects' \subseteq Requests /\ \A x \in effects' \ effects : Unpublished(x)
  <2>1. [caller |-> e.caller, kind |-> kind] \in Requests
    BY <1>3 DEF Requests
  <2>2. Unpublished([caller |-> e.caller, kind |-> kind])
    BY <1>4, <1>5 DEF Unpublished
  <2>3. QED BY <1>1, <1>5, <2>1, <2>2
<1>6. CASE e.kind = "push" /\ Pushed(e.caller)
  <2>1. PullsStay /\ effects' = effects \cup {[caller |-> e.caller, kind |-> "push"]} /\ base' = base
        /\ branch' \in {"absent", "result", "other"}
    BY <1>3, <1>6, EffectsStay
  <2>2. QED BY <1>1, <1>2, <1>5, <1>6, <2>1, RepositoryMoves DEF Mutations
<1>7. CASE e.kind = "create" /\ Created(e.caller)
  <2>1. PullsStay /\ effects' = effects \cup {[caller |-> e.caller, kind |-> "create"]} /\ base' = base
  /\ branch' = branch
    BY <1>3, <1>7, EffectsStay
  <2>2. QED BY <1>1, <1>2, <1>5, <1>7, <2>1, RepositoryMoves DEF Mutations
<1>8. CASE e.kind = "update" /\ Updated(call[e.caller].pull)
  <2>1. PullsStay /\ UNCHANGED <<base, branch, effects>>
    BY <1>3, <1>8, EffectsStay
  <2>2. QED BY <1>1, <1>2, <2>1, RepositoryMoves
<1>9. QED BY <1>6, <1>7, <1>8 DEF Late

(* Whatever people do, pull requests stay and keep their repository. *)
LEMMA HumanStands ==
  ASSUME GitHubInv, NEW core1, NEW bundle1, NEW base1 \in Bases, NEW branch1 \in {"absent", "result", "other"}, NEW pulls1,
         Human(core1, bundle1, base1, branch1, pulls1),
         pulls1 \in Seq(Pull), Len(pulls) <= Len(pulls1), \A k \in 1 .. Len(pulls) : pulls1[k].own = pulls[k].own
  PROVE  GitHubInv'
<1>1. /\ base' = base1 /\ branch' = branch1 /\ pulls' = pulls1 /\ UNCHANGED <<call, inFlight, effects>>
  BY DEF Human
<1>2. PullsStay
  BY <1>1 DEF PullsStay
<1>3. QED BY <1>1, <1>2, RepositoryMoves DEF GitHubInv, GitHubTypeOK

(* People open, close, edit, push and delete. *)
LEMMA PeopleStand ==
  ASSUME GitHubInv, People
  PROVE  GitHubInv'
<1>1. /\ base \in Bases /\ branch \in {"absent", "result", "other"} /\ pulls \in Seq(Pull) /\ Len(pulls) \in Nat
      /\ pulls \in [1 .. Len(pulls) -> Pull] /\ DOMAIN pulls = 1 .. Len(pulls) /\ "moved" \in Bases
  BY DEF GitHubInv, GitHubTypeOK, Bases
<1>2. ASSUME NEW ps, ps \in [1 .. Len(pulls) -> Pull], \A j \in 1 .. Len(pulls) : ps[j].own = pulls[j].own
      PROVE  ps \in Seq(Pull) /\ Len(pulls) <= Len(ps) /\ \A j \in 1 .. Len(pulls) : ps[j].own = pulls[j].own
  BY <1>1, <1>2
<1>3. pulls \in Seq(Pull) /\ Len(pulls) <= Len(pulls) /\ \A k \in 1 .. Len(pulls) : pulls[k].own = pulls[k].own
  BY <1>1
<1>4. ASSUME NEW f, Human([core EXCEPT ![f] = FALSE], bundle, base, branch, pulls) PROVE GitHubInv'
  BY <1>1, <1>3, <1>4, HumanStands
<1>5. ASSUME NEW b, Human(core, b, base, branch, pulls) PROVE GitHubInv'
  BY <1>1, <1>3, <1>5, HumanStands
<1>6. ASSUME Human(core, bundle, "moved", branch, pulls) PROVE GitHubInv'
  BY <1>1, <1>3, <1>6, HumanStands
<1>7. ASSUME NEW h \in {"result", "other"}, NEW o \in BOOLEAN, NEW b \in {"absent", "other"},
             Human(core, bundle, base, b, OwnHead(h, o))
      PROVE  GitHubInv'
  <2>1. OwnHead(h, o) \in [1 .. Len(pulls) -> Pull] /\ \A j \in 1 .. Len(pulls) : OwnHead(h, o)[j].own = pulls[j].own
    BY <1>1 DEF OwnHead, Pull
  <2>2. OwnHead(h, o) \in Seq(Pull) /\ Len(pulls) <= Len(OwnHead(h, o))
    BY <1>2, <2>1
  <2>3. QED BY <1>1, <1>7, <2>1, <2>2, HumanStands
<1>8. ASSUME Human(core, bundle, base, "result", pulls) PROVE GitHubInv'
  BY <1>1, <1>3, <1>8, HumanStands
<1>9. ASSUME NEW k \in DOMAIN pulls, NEW ps,
             ps \in {[pulls EXCEPT ![k].open = FALSE], [pulls EXCEPT ![k].target = FALSE], [pulls EXCEPT ![k].text = FALSE]},
             Human(core, bundle, base, branch, ps)
      PROVE  GitHubInv'
  <2>1. ps \in [1 .. Len(pulls) -> Pull] /\ \A j \in 1 .. Len(pulls) : ps[j].own = pulls[j].own
    <3>1. CASE ps = [pulls EXCEPT ![k].open = FALSE]
      BY <1>1, <3>1 DEF Pull
    <3>2. CASE ps = [pulls EXCEPT ![k].target = FALSE]
      BY <1>1, <3>2 DEF Pull
    <3>3. CASE ps = [pulls EXCEPT ![k].text = FALSE]
      BY <1>1, <3>3 DEF Pull
    <3>4. QED BY <1>9, <3>1, <3>2, <3>3
  <2>2. ps \in Seq(Pull) /\ Len(pulls) <= Len(ps)
    BY <1>2, <2>1
  <2>3. /\ base \in Bases /\ branch \in {"absent", "result", "other"} /\ Human(core, bundle, base, branch, ps)
        /\ \A j \in 1 .. Len(pulls) : ps[j].own = pulls[j].own
    BY <1>1, <1>9, <2>1
  <2>4. QED BY <2>2, <2>3, HumanStands
<1>10. ASSUME Human(core, bundle, base, branch,
               Append(pulls, [own |-> FALSE, target |-> TRUE, open |-> TRUE, head |-> "result", text |-> FALSE]))
      PROVE  GitHubInv'
  <2>1. PICK pr : pr = [own |-> FALSE, target |-> TRUE, open |-> TRUE, head |-> "result", text |-> FALSE]
    OBVIOUS
  <2>2. pr \in Pull
    BY <2>1 DEF Pull
  <2>3. Append(pulls, pr) \in Seq(Pull) /\ Len(pulls) <= Len(Append(pulls, pr))
        /\ \A j \in 1 .. Len(pulls) : Append(pulls, pr)[j].own = pulls[j].own
    BY <1>1, <2>2
  <2>4. QED BY <1>1, <1>10, <2>1, <2>3, HumanStands
<1>11. QED BY <1>4, <1>5, <1>6, <1>7, <1>8, <1>9, <1>10 DEF People

(* Every step at GitHub. *)
LEMMA GitHubStep == GitHubInv /\ [GitHubNext]_githubVars => GitHubInv'
<1> SUFFICES ASSUME GitHubInv, [GitHubNext]_githubVars PROVE GitHubInv'
  OBVIOUS
<1>1. CASE UNCHANGED githubVars
  <2>1. PullsStay /\ UNCHANGED <<call, base, branch, inFlight, effects>>
    BY <1>1 DEF PullsStay, githubVars, GitHubInv, GitHubTypeOK
  <2>2. QED BY <2>1, RepositoryMoves DEF GitHubInv, GitHubTypeOK
<1>2. ASSUME NEW c \in Callers,
       \/ Dispatch(c) \/ Reconcile(c) \/ StageSnapshot(c)
       \/ PublishBase(c) \/ stageBundle(c) \/ PublishBranch(c) \/ CheckHistory(c) \/ push(c)
       \/ ConfirmBranch(c) \/ FindOpen(c) \/ createPull(c) \/ updatePull(c) \/ Bind(c) \/ PublishFails(c)
       \/ ObserveBase(c) \/ ObserveBranch(c) \/ ObserveHistory(c) \/ ObservePull(c) \/ ObserveFails(c)
      PROVE  GitHubInv'
  BY <1>2, BeginStands, ChecksStand, PushStands, FindStands, CreateStands, UpdateStands, BindStands, ObserveStands,
     ObserveBranchStands, ObserveHistoryStands
<1>3. QED BY <1>1, <1>2, LateStands, PeopleStand DEF GitHubNext

(* However calls, late requests and people interleave, a call whose        *)
(* branch had a pull request when it began (closed, retargeted or with     *)
(* its branch deleted) neither pushes nor opens one.                       *)
THEOREM DecisionsAlwaysRespected == GitHubSpec => []DecisionsRespected
<1>1. GitHubInv => DecisionsRespected
  BY DEF GitHubInv, Unpublished, DecisionsRespected
<1>2. QED BY <1>1, GitHubInitially, GitHubStep, PTL DEF GitHubSpec

(* What Dispatch or Reconcile answers was so: a confirmed or observed      *)
(* pull request has head and base in the configured repository, and        *)
(* behind an absent one nothing existed when its branch was read.          *)
THEOREM AnswersAlwaysTrue == GitHubSpec => []AnswersTrue
<1>1. GitHubInv => AnswersTrue
  BY DEF GitHubInv, CallStands, InHand, AnswersTrue
<1>2. QED BY <1>1, GitHubInitially, GitHubStep, PTL DEF GitHubSpec
=============================================================================
