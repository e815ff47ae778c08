-------------------------- MODULE PublisherJournal --------------------------
(***************************************************************************)
(* The dispatch journal of the Publisher service (internal/githubpublish): *)
(* one slot directory per publication, created once, with append-only      *)
(* witness files, an inode lock, and the boot-and-inode incarnation that   *)
(* negative evidence is bound to.  It implements PublicationWitness.       *)
(*                                                                         *)
(* Publish requests (writers) and no-invocation requests (sealers) run     *)
(* concurrently and may be killed between any two steps.  A witness file   *)
(* is written with O_EXCL and synced: it ends up whole, or torn (occupied  *)
(* and unreadable).  A file that was written but not yet synced when the   *)
(* machine fails either survives, as if synced, or is gone, as if never    *)
(* written: readers sync it again before they answer.                      *)
(***************************************************************************)
EXTENDS Naturals

CONSTANTS
  Ids,             \* publications: an exact identity and plan, one slot each
  Writers,         \* concurrent publish requests
  Sealers,         \* concurrent no-invocation requests
  None,
  MaxIncarnation   \* bound on reboots and restored slots

ASSUME ProcessesAssumption ==
  None \notin Writers \cup Sealers \cup Ids /\ Writers \cap Sealers = {}
ASSUME IncarnationAssumption == MaxIncarnation \in Nat

VARIABLES
  slot,         \* [Ids -> the slot directory and its files]
  incarnation,  \* [Ids -> boot and inode of the slot, as a number]
  lock,         \* [Ids -> the process holding the slot's inode lock]
  writer,       \* the publish requests
  sealer,       \* the no-invocation requests
  effect,       \* external: the pull request exists
  entered,      \* history: Remote.Publish was entered
  wrote,        \* history: the witness files ever written whole
  issued        \* history: a NonInvocationEvidence was returned

vars == <<slot, incarnation, lock, writer, sealer, effect, entered, wrote, issued>>

Files == {"started", "invoked", "not-invoked", "completed"}

(* A witness: absent, torn, or whole.  What a whole one says that matters: *)
(* the incarnation of STARTED, and which certificate not-invoked is.       *)
FileState == {"absent", "torn", "whole"}
Slot == [dir : BOOLEAN, file : [Files -> FileState], start : Nat, afterArm : BOOLEAN]
NoSlot == [dir |-> FALSE, file |-> [f \in Files |-> "absent"], start |-> 0, afterArm |-> FALSE]

Absent(i, f)   == slot[i].file[f] = "absent"
Readable(i, f) == slot[i].file[f] = "whole"

WriterPCs == {"idle", "mkdir", "lock", "start", "prepare", "arm", "armed", "retain",
              "publishing", "settle"}
SealerPCs == {"idle", "check", "seal", "read"}

Retired == [pc |-> "idle", id |-> None]
WriterAt(w, pc) == writer[w].pc = pc
SealerAt(s, pc) == sealer[s].pc = pc

GoWriter(w, pc) == writer' = [writer EXCEPT ![w].pc = pc]
GoSealer(s, pc) == sealer' = [sealer EXCEPT ![s].pc = pc]

Unlocked(p) == [i \in Ids |-> IF lock[i] = p THEN None ELSE lock[i]]

(* The handler returns: slot.Close releases the lock. *)
RetireWriter(w) == writer' = [writer EXCEPT ![w] = Retired] /\ lock' = Unlocked(w)
RetireSealer(s) == sealer' = [sealer EXCEPT ![s] = Retired] /\ lock' = Unlocked(s)

(* A witness file with what it says. *)
Store(i, f, state, start, afterArm) ==
  /\ slot' = [slot EXCEPT ![i] = [dir |-> @.dir, file |-> [@.file EXCEPT ![f] = state],
                                  start |-> start, afterArm |-> afterArm]]
  /\ wrote' = [wrote EXCEPT ![i] = IF state = "whole" THEN @ \cup {f} ELSE @]

(* writeWitness: O_EXCL, then write and sync.  Whole or torn. *)
Put(i, f, state) ==
  /\ Absent(i, f)
  /\ Store(i, f, state,
           IF f = "started" THEN incarnation[i] ELSE slot[i].start,
           IF f = "not-invoked" THEN FALSE ELSE slot[i].afterArm)

(* The writer writes a file and goes on, or it is left torn and the        *)
(* request ends.                                                           *)
WriteAndGo(w, f, pc) ==
  LET i == writer[w].id IN
  \/ Put(i, f, "whole") /\ GoWriter(w, pc) /\ lock' = lock
  \/ Put(i, f, "torn") /\ RetireWriter(w)
  \/ ~Absent(i, f) /\ RetireWriter(w) /\ UNCHANGED <<slot, wrote>>

-----------------------------------------------------------------------------
(* handlePublish. *)

(* The request is authorized and its bundle verified; or it is refused. *)
Arrive(w, i) ==
  /\ WriterAt(w, "idle")
  /\ writer' = [writer EXCEPT ![w] = [pc |-> "mkdir", id |-> i]]
  /\ UNCHANGED <<slot, incarnation, lock, sealer, effect, entered, wrote, issued>>

(* From the Mkdir on, every failure leaves an occupied slot. *)
MakeSlot(w) ==
  LET i == writer[w].id IN
  /\ WriterAt(w, "mkdir")
  /\ IF slot[i].dir
     THEN RetireWriter(w) /\ slot' = slot
     ELSE slot' = [slot EXCEPT ![i].dir = TRUE] /\ GoWriter(w, "lock") /\ lock' = lock
  /\ UNCHANGED <<incarnation, sealer, effect, entered, wrote, issued>>

(* Mutant of LockFree: there is no lock. *)
LockIgnored(i) == TRUE

(* flock with LOCK_NB. *)
LockFree(i) == lock[i] = None

LockSlot(w) ==
  LET i == writer[w].id IN
  /\ WriterAt(w, "lock")
  /\ IF LockFree(i)
     THEN lock' = [lock EXCEPT ![i] = w] /\ GoWriter(w, "start")
     ELSE RetireWriter(w)
  /\ UNCHANGED <<slot, incarnation, sealer, effect, entered, wrote, issued>>

WriteStarted(w) ==
  /\ WriterAt(w, "start")
  /\ WriteAndGo(w, "started", "prepare")
  /\ UNCHANGED <<incarnation, sealer, effect, entered, issued>>

(* Mutant of SameIncarnation: a restored slot is taken for the original. *)
AnyIncarnation(i) == TRUE

SameIncarnation(i) == incarnation[i] = slot[i].start

(* arm: what must hold before the intent is written. *)
Prepare(w) ==
  LET i == writer[w].id IN
  /\ WriterAt(w, "prepare")
  /\ IF Absent(i, "not-invoked") /\ Absent(i, "completed") /\ SameIncarnation(i)
     THEN GoWriter(w, "arm") /\ lock' = lock
     ELSE RetireWriter(w)
  /\ UNCHANGED <<slot, incarnation, sealer, effect, entered, wrote, issued>>

Arm(w) ==
  /\ WriterAt(w, "arm")
  /\ WriteAndGo(w, "invoked", "armed")
  /\ UNCHANGED <<incarnation, sealer, effect, entered, issued>>

(* The context is live after the intent: Publish is entered, for good. *)
Enter(w) ==
  LET i == writer[w].id IN
  /\ WriterAt(w, "armed")
  /\ entered' = [entered EXCEPT ![i] = TRUE]
  /\ GoWriter(w, "publishing")
  /\ UNCHANGED <<slot, incarnation, lock, sealer, effect, wrote, issued>>

(* It is cancelled: only this lease knows that Publish was not entered. *)
CancelArmed(w) ==
  /\ WriterAt(w, "armed")
  /\ GoWriter(w, "retain")
  /\ UNCHANGED <<slot, incarnation, lock, sealer, effect, entered, wrote, issued>>

RetainCertificate(w) ==
  LET i == writer[w].id IN
  /\ WriterAt(w, "retain")
  /\ IF /\ SameIncarnation(i)
        /\ Readable(i, "started") /\ Readable(i, "invoked")
        /\ Absent(i, "completed") /\ Absent(i, "not-invoked")
     THEN \E state \in {"whole", "torn"} :
            Store(i, "not-invoked", state, slot[i].start, TRUE)
     ELSE UNCHANGED <<slot, wrote>>
  /\ RetireWriter(w)
  /\ UNCHANGED <<incarnation, sealer, effect, entered, issued>>

(* GitHub applies what was asked of it, at any time after the entry. *)
Apply(i) ==
  /\ entered[i] /\ ~effect[i] /\ "completed" \notin wrote[i]
  /\ effect' = [effect EXCEPT ![i] = TRUE]
  /\ UNCHANGED <<slot, incarnation, lock, writer, sealer, entered, wrote, issued>>

(* Publish returns: a valid receipt of the effect, or an error. *)
PublishReturns(w) ==
  /\ WriterAt(w, "publishing")
  /\ \/ effect[writer[w].id] /\ GoWriter(w, "settle") /\ lock' = lock
     \/ RetireWriter(w)
  /\ UNCHANGED <<slot, incarnation, sealer, effect, entered, wrote, issued>>

WriteCompleted(w) ==
  LET i == writer[w].id IN
  /\ WriterAt(w, "settle")
  /\ IF Absent(i, "completed")
     THEN \E state \in {"whole", "torn"} : Put(i, "completed", state)
     ELSE UNCHANGED <<slot, wrote>>
  /\ RetireWriter(w)
  /\ UNCHANGED <<incarnation, sealer, effect, entered, issued>>

(* A cancelled request, an early return, a panic, a killed process. *)
KillWriter(w) ==
  /\ ~WriterAt(w, "idle")
  /\ RetireWriter(w)
  /\ UNCHANGED <<slot, incarnation, sealer, effect, entered, wrote, issued>>

Publish(w) ==
  \/ \E i \in Ids : Arrive(w, i)
  \/ MakeSlot(w) \/ LockSlot(w) \/ WriteStarted(w) \/ Prepare(w) \/ Arm(w) \/ Enter(w)
  \/ CancelArmed(w) \/ RetainCertificate(w) \/ PublishReturns(w) \/ WriteCompleted(w)
  \/ KillWriter(w)

-----------------------------------------------------------------------------
(* sealUninvoked. *)

SealLock(s, i) ==
  /\ SealerAt(s, "idle")
  /\ slot[i].dir
  /\ LockFree(i)
  /\ lock' = [lock EXCEPT ![i] = s]
  /\ sealer' = [sealer EXCEPT ![s] = [pc |-> "check", id |-> i]]
  /\ UNCHANGED <<slot, incarnation, writer, effect, entered, wrote, issued>>

(* With an intent only the original certificate counts; without one, and   *)
(* without a seal, the seal is written now.                                *)
SealCheck(s) ==
  LET i == sealer[s].id IN
  /\ SealerAt(s, "check")
  /\ IF Readable(i, "started") /\ SameIncarnation(i) /\ Absent(i, "completed")
     THEN \/ /\ Absent(i, "invoked") /\ Absent(i, "not-invoked")
             /\ GoSealer(s, "seal") /\ lock' = lock
          \/ /\ Absent(i, "invoked") \/ Readable(i, "invoked")
             /\ ~Absent(i, "not-invoked")
             /\ GoSealer(s, "read") /\ lock' = lock
          \/ /\ ~Absent(i, "invoked")
             /\ ~Readable(i, "invoked") \/ Absent(i, "not-invoked")
             /\ RetireSealer(s)
     ELSE RetireSealer(s)
  /\ UNCHANGED <<slot, incarnation, writer, effect, entered, wrote, issued>>

SealWrite(s) ==
  LET i == sealer[s].id IN
  /\ SealerAt(s, "seal")
  /\ \/ Put(i, "not-invoked", "whole") /\ GoSealer(s, "read") /\ lock' = lock
     \/ Put(i, "not-invoked", "torn") /\ RetireSealer(s)
     \/ ~Absent(i, "not-invoked") /\ RetireSealer(s) /\ UNCHANGED <<slot, wrote>>
  /\ UNCHANGED <<incarnation, writer, effect, entered, issued>>

(* The evidence is version 2 exactly when there is an intent, and then the *)
(* certificate must be the one written after arming.                       *)
SealRead(s) ==
  LET i == sealer[s].id IN
  /\ SealerAt(s, "read")
  /\ issued' = [issued EXCEPT ![i] =
       @ \/ /\ Readable(i, "not-invoked")
            /\ slot[i].afterArm = Readable(i, "invoked")]
  /\ RetireSealer(s)
  /\ UNCHANGED <<slot, incarnation, writer, effect, entered, wrote>>

KillSealer(s) ==
  /\ ~SealerAt(s, "idle")
  /\ RetireSealer(s)
  /\ UNCHANGED <<slot, incarnation, writer, effect, entered, wrote, issued>>

Seal(s) ==
  \/ \E i \in Ids : SealLock(s, i)
  \/ SealCheck(s) \/ SealWrite(s) \/ SealRead(s) \/ KillSealer(s)

-----------------------------------------------------------------------------
(* The machine. *)

(* The boot id is part of every incarnation.  The processes are killed one *)
(* by one before.                                                          *)
Reboot ==
  /\ \A w \in Writers : WriterAt(w, "idle")
  /\ \A s \in Sealers : SealerAt(s, "idle")
  /\ \A i \in Ids : incarnation[i] < MaxIncarnation
  /\ incarnation' = [i \in Ids |-> incarnation[i] + 1]
  /\ UNCHANGED <<slot, lock, writer, sealer, effect, entered, wrote, issued>>

(* A copy of the slot, taken at any time after STARTED, is put in its      *)
(* place while nobody works on it: another inode, and files may be missing.*)
Restore(i, missing) ==
  /\ incarnation[i] < MaxIncarnation
  /\ Readable(i, "started")
  /\ \A w \in Writers : writer[w].id # i
  /\ \A s \in Sealers : sealer[s].id # i
  /\ incarnation' = [incarnation EXCEPT ![i] = @ + 1]
  /\ slot' = [slot EXCEPT ![i].file =
       [f \in Files |-> IF f \in missing THEN "absent" ELSE slot[i].file[f]]]
  /\ UNCHANGED <<lock, writer, sealer, effect, entered, wrote, issued>>

Init ==
  /\ slot = [i \in Ids |-> NoSlot]
  /\ incarnation = [i \in Ids |-> 0]
  /\ lock = [i \in Ids |-> None]
  /\ writer = [w \in Writers |-> Retired]
  /\ sealer = [s \in Sealers |-> Retired]
  /\ effect = [i \in Ids |-> FALSE]
  /\ entered = [i \in Ids |-> FALSE]
  /\ wrote = [i \in Ids |-> {}]
  /\ issued = [i \in Ids |-> FALSE]

Next ==
  \/ \E w \in Writers : Publish(w)
  \/ \E s \in Sealers : Seal(s)
  \/ \E i \in Ids : Apply(i) \/ \E missing \in SUBSET (Files \ {"started"}) : Restore(i, missing)
  \/ Reboot

Spec == Init /\ [][Next]_vars

-----------------------------------------------------------------------------
(* Properties. *)

(* Every variable has its shape: a lock is held by a process or by nobody. *)
TypeOK ==
  /\ slot \in [Ids -> Slot]
  /\ incarnation \in [Ids -> 0..MaxIncarnation]
  /\ lock \in [Ids -> Writers \cup Sealers \cup {None}]
  /\ writer \in [Writers -> [pc : WriterPCs, id : Ids \cup {None}]]
  /\ sealer \in [Sealers -> [pc : SealerPCs, id : Ids \cup {None}]]
  /\ effect \in [Ids -> BOOLEAN] /\ entered \in [Ids -> BOOLEAN]
  /\ wrote \in [Ids -> SUBSET Files] /\ issued \in [Ids -> BOOLEAN]

(* journal.completed: what it takes to answer with a completion. *)
CompletionReadable(i) ==
  /\ Readable(i, "started") /\ Readable(i, "completed") /\ Readable(i, "invoked")
  /\ Absent(i, "not-invoked")

(* The two answers the journal can give never lie and never contradict     *)
(* each other: a certificate of non-invocation is only given out when      *)
(* Publish was not entered and cannot be any more, and a completion only   *)
(* when the effect is there.                                               *)
EvidenceIsTruthful ==
  \A i \in Ids :
    /\ issued[i] => /\ ~entered[i] /\ ~effect[i]
                    /\ \A w \in Writers : writer[w].id = i => writer[w].pc = "mkdir"
    /\ CompletionReadable(i) => effect[i] /\ ~issued[i]


(* The witness of PublicationWitness: what was ever written whole, since a *)
(* restored slot may have lost it.                                         *)
Witness(i) ==
  IF "not-invoked" \in wrote[i] THEN "sealed"
  ELSE IF "completed" \in wrote[i] THEN "completed"
  ELSE IF entered[i] THEN "entered"
  ELSE IF "invoked" \in wrote[i] THEN "armed"
  ELSE IF "started" \in wrote[i] THEN "started"
  ELSE IF \E w \in Writers : writer[w].id = i THEN "requested"
  ELSE "none"

Publication(i) ==
  [witness |-> Witness(i),
   held |-> Witness(i) \in {"started", "armed", "entered"} /\ lock[i] \in Writers,
   effect |-> effect[i]]

Abstract == INSTANCE PublicationWitness WITH pub <- [i \in Ids |-> Publication(i)]

(* The journal keeps the promise the action ledger relies on. *)
KeepsPublicationPromise == Abstract!PubSpec
=============================================================================
