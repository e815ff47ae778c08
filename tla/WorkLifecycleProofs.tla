------------------------ MODULE WorkLifecycleProofs ------------------------
(***************************************************************************)
(* The safety of the work lifecycle, for any works, tasks, runs, people    *)
(* and handlers.  What a handler holds is a snapshot: HeldInv says that it *)
(* is the stored row as long as the version is the one that was read, and  *)
(* everything else follows from the commits that compare versions.         *)
(***************************************************************************)
EXTENDS MemoryStore, TLAPS

(* A run that was started has a frozen task, and its session row agrees    *)
(* with it on the epoch and the owner.                                     *)
RunInv ==
  \A r \in Runs : run[r].state # "ABSENT" =>
    /\ run[r].task \in frozen
    /\ run[r].epoch = session[r].epoch /\ run[r].owner = session[r].owner

(* The held copies of a work, of a run and of its session. *)
SameWork(w, seen) ==
  /\ work[w].state # "ABSENT"
  /\ seen.version <= work[w].version
  /\ seen.version = work[w].version => work[w] = seen

SameRun(r, row, s) ==
  /\ run[r].state # "ABSENT"
  /\ row.version <= run[r].version
  /\ row.version = run[r].version => run[r] = row /\ session[r] = s
  /\ ~Terminal(row) /\ row.task \in frozen

(* What a handler read, and that it decided on what it read. *)
Held(h) ==
  LET q == handler[h] IN
  /\ q.op = "freeze" => SameWork(q.task.work, q.work)
  /\ q.op = "start" => q.task \in frozen /\ SameWork(q.task.work, q.work)
  /\ q.op \in Controls \cup {"completing", "complete"} => SameRun(q.run, q.row, q.session)
  /\ q.op = "complete" =>
       /\ SameWork(q.row.task.work, q.work)
       /\ q.work.state = "EXECUTING" /\ q.work.task = q.row.task /\ q.work.run = q.run
  /\ q.op = "review" =>
       /\ delivery[q.delivery] # None
       /\ SameWork(delivery[q.delivery].task.work, q.work)
  /\ q.op = "close" =>
       /\ Verified(q.delivery, q.report)
       /\ SameWork(delivery[q.delivery].task.work, q.work)
       /\ q.work.task = delivery[q.delivery].task /\ q.work.run = delivery[q.delivery].run

HeldInv == \A h \in Handlers : Held(h)

(* A delivery is of a completed run. *)
DeliveryInv ==
  \A d \in Deliveries : delivery[d] # None =>
    /\ run[delivery[d].run].state = "COMPLETED"
    /\ run[delivery[d].run].task = delivery[d].task

(* A review is of a verified delivery and by an independent person. *)
ReviewStands(n) ==
  LET d == review[n].delivery
      v == review[n].report
  IN  /\ Verified(d, v)
      /\ review[n].task = delivery[d].task
      /\ work[delivery[d].task.work].state # "ABSENT"
      /\ Reviewer(review[n].reviewer, d, v)

ReviewInv ==
  /\ \A v \in Reports : report[v] # None => delivery[report[v].delivery] # None
  /\ \A n \in Reviews : review[n] # None => ReviewStands(n)

(* The rows a closure names exist. *)
ClosedInv ==
  \A c \in Closures : closure[c] # None =>
    /\ delivery[closure[c].delivery] # None
    /\ report[closure[c].report] # None
    /\ review[closure[c].review] # None

IInv ==
  /\ TypeOK /\ RunInv /\ HeldInv /\ LiveRunIsActive
  /\ DeliveryInv /\ PassIsEarned /\ ReviewInv /\ ClosureStandsOnChain /\ ClosedInv

-----------------------------------------------------------------------------
(* Type correctness. *)

LEMMA TaskFields ==
  ASSUME NEW t \in Tasks
  PROVE  t.work \in Works /\ t.id \in Nat /\ t.revision \in Nat /\ t # None
BY TasksAssumption, NoneAssumption DEF TaskContract

(* What a handler holds, by the operation. *)
LEMMA HeldTypes ==
  ASSUME TypeOK, NEW h \in Handlers
  PROVE  LET q == handler[h] IN
         /\ q.op = "freeze" => q.task \in Tasks /\ q.work \in WorkRow
         /\ q.op = "start" => q.run \in Runs /\ q.task \in Tasks /\ q.work \in WorkRow
         /\ q.op \in Controls \cup {"completing", "complete"} =>
              q.run \in Runs /\ q.row \in RunRow /\ q.session \in SessionRecord
         /\ q.op = "complete" => q.work \in WorkRow
         /\ q.op = "checkpoint" => q.run \in Runs /\ q.epoch \in Nat
         /\ q.op = "review" =>
              /\ q.id \in Reviews /\ q.delivery \in Deliveries /\ q.report \in Reports
              /\ q.reviewer \in People /\ q.result \in {"PASS", "FAIL"} /\ q.work \in WorkRow
         /\ q.op = "close" =>
              /\ q.id \in Closures /\ q.delivery \in Deliveries /\ q.report \in Reports
              /\ q.review \in Reviews /\ q.work \in WorkRow
BY DEF TypeOK, Request, Controls, Idle

(* The handlers after one of them takes up or lays down a request. *)
LEMMA HoldType ==
  ASSUME TypeOK, NEW h \in Handlers, NEW q \in Request, Hold(h, q)
  PROVE  /\ handler' \in [Handlers -> Request]
         /\ handler'[h] = q
         /\ \A x \in Handlers : x # h => handler'[x] = handler[x]
BY DEF TypeOK, Hold

LEMMA FinishType ==
  ASSUME TypeOK, NEW h \in Handlers, Finish(h)
  PROVE  /\ handler' \in [Handlers -> Request]
         /\ handler'[h] = Idle
         /\ \A x \in Handlers : x # h => handler'[x] = handler[x]
<1>1. Idle \in Request BY DEF Request
<1> QED BY <1>1, HoldType DEF Finish

LEMMA WrittenType ==
  ASSUME NEW row \in WorkRow, NEW state \in WorkStates, NEW t \in Tasks \cup {None},
         NEW r \in Runs \cup {None}
  PROVE  /\ Written(row, state, t, r) \in WorkRow
         /\ Written(row, state, t, r).state = state
         /\ Written(row, state, t, r).task = t
         /\ Written(row, state, t, r).run = r
         /\ Written(row, state, t, r).owner = row.owner
         /\ Written(row, state, t, r).version = row.version + 1
BY DEF Written, WorkRow

(* Three columns of a run, written one after the other. *)
LEMMA RunUpdated ==
  ASSUME NEW row \in RunRow, NEW e \in Nat, NEW state \in RunStates, NEW o \in Owners
  PROVE  [row EXCEPT !.epoch = e, !.state = state, !.owner = o] \in RunRow
<1> DEFINE a == [row EXCEPT !.epoch = e]
           b == [a EXCEPT !.state = state]
           c == [b EXCEPT !.owner = o]
<1>1. a \in RunRow BY DEF RunRow
<1> HIDE DEF a
<1>2. b \in RunRow BY <1>1 DEF RunRow
<1> HIDE DEF b
<1>3. c \in RunRow BY <1>2 DEF RunRow
<1> QED BY <1>3 DEF a, b, c, RunRow

LEMMA AttemptType ==
  ASSUME NEW row \in RunRow
  PROVE  LET new == StartAttempt(row) IN
         /\ new \in RunRow /\ new.state = "RUNNING" /\ new.owner = "RUNTIME"
         /\ new.epoch = row.epoch + 1 /\ new.version = row.version /\ new.task = row.task
<1>1. row.epoch + 1 \in Nat BY DEF RunRow
<1>2. StartAttempt(row) \in RunRow BY <1>1, RunUpdated DEF StartAttempt, RunStates, Owners
<1> QED BY <1>2 DEF StartAttempt, RunRow

LEMMA StartedRunType ==
  ASSUME NEW t \in Tasks
  PROVE  /\ StartedRun(t) \in RunRow
         /\ StartedRun(t).state = "RUNNING" /\ StartedRun(t).task = t
         /\ StartedRun(t).version = 1 /\ StartedRun(t).epoch = 1
         /\ StartedRun(t).owner = "RUNTIME"
<1> DEFINE new == [state |-> "CREATED", epoch |-> 0, owner |-> "RUNTIME", version |-> 1, task |-> t]
<1>1. new \in RunRow BY DEF RunRow, RunStates, Owners
<1>2. StartedRun(t) = StartAttempt(new) BY DEF StartedRun
<1>3. new.epoch = 0 /\ new.version = 1 /\ new.task = t OBVIOUS
<1> HIDE DEF new
<1> QED BY <1>1, <1>2, <1>3, AttemptType

LEMMA NewSessionType ==
  ASSUME NEW e \in Nat
  PROVE  /\ NewSession(e) \in SessionRecord /\ NewSession(e).epoch = e
         /\ NewSession(e).owner = "RUNTIME" /\ NewSession(e).paused = FALSE
BY DEF NewSession, SessionRecord, Owners

(* An UPDATE that compared the version raises it. *)
LEMMA VersionedType ==
  ASSUME NEW row \in RunRow
  PROVE  LET new == [row EXCEPT !.version = @ + 1] IN
         /\ new \in RunRow /\ new.version = row.version + 1
         /\ new.state = row.state /\ new.epoch = row.epoch
         /\ new.owner = row.owner /\ new.task = row.task
BY DEF RunRow

(* What pause, resume and takeover make of a run and of its session. *)
LEMMA ControlledType ==
  ASSUME NEW kind \in Controls, NEW row \in RunRow, NEW s \in SessionRecord
  PROVE  LET new == ControlledRun(kind, row)
             t == ControlledSession(kind, s)
         IN /\ new \in RunRow /\ t \in SessionRecord
            /\ new.task = row.task /\ new.version = row.version
            /\ new.state \in {"PAUSED", "RUNNING", "HUMAN_CONTROLLED"}
            /\ new.epoch >= row.epoch
            /\ row.owner = "HUMAN" => new.owner = "HUMAN"
            /\ row.epoch = s.epoch /\ row.owner = s.owner =>
                 new.epoch = t.epoch /\ new.owner = t.owner
<1>1. CASE kind = "pause"
  <2>1. PauseRun(row) \in RunRow /\ PauseSession(s) \in SessionRecord
    BY DEF PauseRun, PauseSession, RunRow, RunStates, SessionRecord
  <2> QED BY <1>1, <2>1 DEF ControlledRun, ControlledSession, PauseRun, PauseSession,
                            RunRow, SessionRecord
<1>2. CASE kind = "resume"
  <2>1. ResumeRun(row) \in RunRow /\ ResumeSession(s) \in SessionRecord
    BY DEF ResumeRun, ResumeSession, RunRow, RunStates, SessionRecord
  <2> QED BY <1>2, <2>1 DEF ControlledRun, ControlledSession, ResumeRun, ResumeSession,
                            RunRow, SessionRecord
<1>3. CASE kind = "takeover"
  <2>1. TakeoverRun(row) \in RunRow
    <3>1. row.epoch + 1 \in Nat BY DEF RunRow
    <3> QED BY <3>1, RunUpdated DEF TakeoverRun, RunStates, Owners
  <2>2. TakeoverSession(s) \in SessionRecord
    <3> DEFINE a == [s EXCEPT !.epoch = s.epoch + 1]
               b == [a EXCEPT !.owner = "HUMAN"]
    <3>1. a \in SessionRecord BY DEF SessionRecord
    <3> HIDE DEF a
    <3>2. b \in SessionRecord BY <3>1 DEF SessionRecord, Owners
    <3> QED BY <3>2 DEF a, b, TakeoverSession, SessionRecord
  <2>3. /\ TakeoverRun(row).task = row.task /\ TakeoverRun(row).version = row.version
        /\ TakeoverRun(row).epoch = row.epoch + 1 /\ TakeoverRun(row).owner = "HUMAN"
        /\ TakeoverRun(row).state = "HUMAN_CONTROLLED"
    BY DEF TakeoverRun, RunRow
  <2>4. TakeoverSession(s).epoch = s.epoch + 1 /\ TakeoverSession(s).owner = "HUMAN"
    BY DEF TakeoverSession, SessionRecord
  <2>5. ControlledRun(kind, row) = TakeoverRun(row)
        /\ ControlledSession(kind, s) = TakeoverSession(s)
    BY <1>3 DEF ControlledRun, ControlledSession
  <2>6. row.epoch \in Nat BY DEF RunRow
  <2> QED BY <2>1, <2>2, <2>3, <2>4, <2>5, <2>6
<1> QED BY <1>1, <1>2, <1>3 DEF Controls

(* A completed run, and one superseded by its continuation. *)
LEMMA CompletedType ==
  ASSUME NEW row \in RunRow
  PROVE  LET new == CompleteRun(row) IN
         /\ new \in RunRow /\ new.state = "COMPLETED" /\ new.version = row.version
         /\ new.epoch = row.epoch /\ new.owner = row.owner /\ new.task = row.task
BY DEF CompleteRun, RunRow, RunStates

LEMMA SupersededType ==
  ASSUME NEW row \in RunRow, NEW s \in SessionRecord
  PROVE  LET new == SupersedeRun(row)
             t == SupersedeSession(s)
         IN /\ new \in RunRow /\ t \in SessionRecord
            /\ new.state = "ABORTED" /\ new.version = row.version /\ new.task = row.task
            /\ new.epoch = row.epoch + 1 /\ new.owner = row.owner
            /\ t.epoch = s.epoch + 1 /\ t.owner = s.owner
<1>1. /\ SupersedeRun(row).state = "ABORTED" /\ SupersedeRun(row).version = row.version
      /\ SupersedeRun(row).task = row.task /\ SupersedeRun(row).epoch = row.epoch + 1
      /\ SupersedeRun(row).owner = row.owner
  BY DEF SupersedeRun, RunRow
<1>2. SupersedeSession(s).epoch = s.epoch + 1 /\ SupersedeSession(s).owner = s.owner
  BY DEF SupersedeSession, SessionRecord
<1>3. SupersedeSession(s) \in SessionRecord
  <2> DEFINE a == [s EXCEPT !.epoch = s.epoch + 1]
             b == [a EXCEPT !.paused = TRUE]
  <2>1. a \in SessionRecord BY DEF SessionRecord
  <2> HIDE DEF a
  <2>2. b \in SessionRecord BY <2>1 DEF SessionRecord
  <2> QED BY <2>2 DEF a, b, SupersedeSession, SessionRecord
<1>4. SupersedeRun(row) \in RunRow
  <2> DEFINE a == [row EXCEPT !.state = "ABORTED"]
             b == [a EXCEPT !.epoch = a.epoch + 1]
  <2>1. a \in RunRow BY DEF RunRow, RunStates
  <2> HIDE DEF a
  <2>2. b \in RunRow BY <2>1 DEF RunRow
  <2> QED BY <2>2 DEF a, b, SupersedeRun, RunRow
<1> QED BY <1>1, <1>2, <1>3, <1>4

-----------------------------------------------------------------------------
(* What every step leaves standing.  A work and a run change one version   *)
(* at a time, a finished run never, and what was inserted stays.           *)

WorkGrows(w) ==
  work[w].state # "ABSENT" =>
    /\ work'[w].state # "ABSENT"
    /\ work'[w].owner = work[w].owner
    /\ work'[w] # work[w] =>
         /\ work'[w].version = work[w].version + 1
         /\ Advance(work[w].state, work'[w].state)
         /\ work[w].state \notin {"DRAFT", "READY"} => work'[w].task = work[w].task
         /\ work'[w].run # work[w].run => work[w].state \in {"READY", "EXECUTING"}

RunGrows(r) ==
  run[r].state # "ABSENT" =>
    /\ run'[r].state # "ABSENT" /\ run'[r].task = run[r].task
    /\ run'[r].epoch >= run[r].epoch
    /\ run[r].owner = "HUMAN" => run'[r].owner = "HUMAN"
    /\ \/ run'[r] = run[r] /\ session'[r] = session[r]
       \/ ~Terminal(run[r]) /\ run'[r].version = run[r].version + 1

RowsGrow ==
  /\ frozen \subseteq frozen'
  /\ \A w \in Works : WorkGrows(w)
  /\ \A r \in Runs : RunGrows(r)

ProofsGrow ==
  /\ evidence \subseteq evidence'
  /\ \A d \in Deliveries : delivery[d] # None => delivery'[d] = delivery[d]
  /\ \A v \in Reports : report[v] # None => report'[v] = report[v]
  /\ \A n \in Reviews : review[n] # None => review'[n] = review[n]
  /\ \A c \in Closures : closure[c] # None => closure'[c] = closure[c]

Grows == RowsGrow /\ ProofsGrow

(* A held snapshot of a work, of a run, stays one. *)
LEMMA SameWorkKept ==
  ASSUME TypeOK, TypeOK', Grows, NEW w \in Works, NEW seen \in WorkRow, SameWork(w, seen)
  PROVE  SameWork(w, seen)'
<1>1. work[w].version \in Nat /\ seen.version \in Nat /\ work'[w].version \in Nat
  BY DEF TypeOK, WorkRow
<1>2. WorkGrows(w) BY DEF Grows, RowsGrow
<1> QED BY <1>1, <1>2 DEF WorkGrows, SameWork

LEMMA SameRunKept ==
  ASSUME TypeOK, TypeOK', Grows, NEW r \in Runs, NEW row \in RunRow,
         NEW s \in SessionRecord, SameRun(r, row, s)
  PROVE  SameRun(r, row, s)'
<1>1. run[r].version \in Nat /\ row.version \in Nat /\ run'[r].version \in Nat
  BY DEF TypeOK, RunRow
<1>2. RunGrows(r) /\ frozen \subseteq frozen' BY DEF Grows, RowsGrow
<1> QED BY <1>1, <1>2 DEF RunGrows, SameRun, Terminal

LEMMA VerifiedKept ==
  ASSUME Grows, NEW d \in Deliveries, NEW v \in Reports, Verified(d, v)
  PROVE  Verified(d, v)' /\ delivery'[d] = delivery[d] /\ report'[v] = report[v]
BY DEF Grows, ProofsGrow, Verified

LEMMA DeliveryFields ==
  ASSUME TypeOK, NEW d \in Deliveries, delivery[d] # None
  PROVE  /\ delivery[d].run \in Runs /\ delivery[d].task \in Tasks
         /\ delivery[d].task.work \in Works /\ delivery[d] \in Delivery
<1>1. delivery[d] \in Delivery BY DEF TypeOK
<1>2. delivery[d].run \in Runs /\ delivery[d].task \in Tasks BY <1>1 DEF Delivery
<1> QED BY <1>1, <1>2, TaskFields

(* A handler that does not move keeps what it holds. *)
LEMMA HeldKept ==
  ASSUME TypeOK, HeldInv, TypeOK', Grows, NEW h \in Handlers, handler'[h] = handler[h]
  PROVE  Held(h)'
<1> DEFINE q == handler[h]
<1>0. Held(h) BY DEF HeldInv
<1>1. q.op = "freeze" => SameWork(q.task.work, q.work)'
  <2> SUFFICES ASSUME q.op = "freeze" PROVE SameWork(q.task.work, q.work)' OBVIOUS
  <2>1. q.task.work \in Works /\ q.work \in WorkRow BY HeldTypes, TaskFields
  <2> QED BY <1>0, <2>1, SameWorkKept DEF Held
<1>2. q.op = "start" => q.task \in frozen' /\ SameWork(q.task.work, q.work)'
  <2> SUFFICES ASSUME q.op = "start" PROVE q.task \in frozen' /\ SameWork(q.task.work, q.work)'
    OBVIOUS
  <2>1. q.task.work \in Works /\ q.work \in WorkRow BY HeldTypes, TaskFields
  <2>2. q.task \in frozen' BY <1>0 DEF Held, Grows, RowsGrow
  <2> QED BY <1>0, <2>1, <2>2, SameWorkKept DEF Held
<1>3. q.op \in Controls \cup {"completing", "complete"} => SameRun(q.run, q.row, q.session)'
  BY <1>0, HeldTypes, SameRunKept DEF Held
<1>4. q.op = "complete" => SameWork(q.row.task.work, q.work)'
  <2> SUFFICES ASSUME q.op = "complete" PROVE SameWork(q.row.task.work, q.work)' OBVIOUS
  <2>1. q.row.task \in frozen /\ SameWork(q.row.task.work, q.work)
    BY <1>0 DEF Held, SameRun
  <2>2. q.row.task.work \in Works BY <2>1, TaskFields DEF TypeOK
  <2>3. q.work \in WorkRow BY HeldTypes
  <2> QED BY <2>1, <2>2, <2>3, SameWorkKept
<1>5. q.op = "review" =>
        /\ delivery[q.delivery] # None /\ delivery'[q.delivery] = delivery[q.delivery]
        /\ SameWork(delivery[q.delivery].task.work, q.work)'
  <2> SUFFICES ASSUME q.op = "review"
               PROVE  /\ delivery[q.delivery] # None
                      /\ delivery'[q.delivery] = delivery[q.delivery]
                      /\ SameWork(delivery[q.delivery].task.work, q.work)'
    OBVIOUS
  <2>1. delivery[q.delivery] # None /\ SameWork(delivery[q.delivery].task.work, q.work)
    BY <1>0 DEF Held
  <2>2. q.delivery \in Deliveries /\ q.work \in WorkRow BY HeldTypes
  <2>3. delivery[q.delivery].task.work \in Works BY <2>1, <2>2, DeliveryFields
  <2>4. delivery'[q.delivery] = delivery[q.delivery]
    BY <2>1, <2>2 DEF Grows, ProofsGrow
  <2>5. SameWork(delivery[q.delivery].task.work, q.work)'
    BY <2>1, <2>2, <2>3, <2>4, SameWorkKept, SMTT(30) DEF SameWork
  <2> QED BY <2>1, <2>4, <2>5
<1>6. q.op = "close" =>
        /\ Verified(q.delivery, q.report)'
        /\ SameWork(delivery[q.delivery].task.work, q.work)'
        /\ delivery'[q.delivery] = delivery[q.delivery]
  <2> SUFFICES ASSUME q.op = "close"
               PROVE  /\ Verified(q.delivery, q.report)'
                      /\ SameWork(delivery[q.delivery].task.work, q.work)'
                      /\ delivery'[q.delivery] = delivery[q.delivery]
    OBVIOUS
  <2>1. /\ Verified(q.delivery, q.report)
        /\ SameWork(delivery[q.delivery].task.work, q.work)
    BY <1>0 DEF Held
  <2>2. q.delivery \in Deliveries /\ q.report \in Reports /\ q.work \in WorkRow
    BY HeldTypes
  <2>3. delivery[q.delivery].task.work \in Works
    BY <2>1, <2>2, DeliveryFields DEF Verified
  <2>4. Verified(q.delivery, q.report)' /\ delivery'[q.delivery] = delivery[q.delivery]
    BY <2>1, <2>2, VerifiedKept
  <2>5. SameWork(delivery[q.delivery].task.work, q.work)'
    BY <2>1, <2>2, <2>3, <2>4, SameWorkKept, ZenonT(40) DEF SameWork
  <2> QED BY <2>4, <2>5
<1> QED BY <1>0, <1>1, <1>2, <1>3, <1>4, <1>5, <1>6 DEF Held

(* Insert-only rows, and the finished runs and owned works they speak of. *)
LEMMA DeliveryKept ==
  ASSUME TypeOK, TypeOK', Grows, DeliveryInv, delivery' = delivery
  PROVE  DeliveryInv'
<1>1. ASSUME NEW d \in Deliveries, delivery[d] # None
      PROVE  /\ run'[delivery[d].run].state = "COMPLETED"
             /\ run'[delivery[d].run].task = delivery[d].task
  <2>1. delivery[d].run \in Runs BY <1>1, DeliveryFields
  <2>2. RunGrows(delivery[d].run) BY <2>1 DEF Grows, RowsGrow
  <2> QED BY <1>1, <2>2 DEF DeliveryInv, RunGrows, Terminal
<1> QED BY <1>1 DEF DeliveryInv

LEMMA EarnedKept ==
  ASSUME TypeOK, Grows, PassIsEarned, ReviewInv, NEW v \in Reports, report[v] # None,
         report[v].result = "PASS", NEW q \in Requirements
  PROVE  \E e \in evidence' : /\ delivery'[e.delivery] = delivery'[report[v].delivery]
                              /\ e.requirement = q /\ e.result = "PASS"
<1>1. PICK e \in evidence : /\ delivery[e.delivery] = delivery[report[v].delivery]
                            /\ e.requirement = q /\ e.result = "PASS"
  BY DEF PassIsEarned, Subject
<1>2. e.delivery \in Deliveries /\ report[v].delivery \in Deliveries
  BY <1>1 DEF TypeOK, Evidence, Report
<1>3. delivery[report[v].delivery] # None BY DEF ReviewInv
<1> QED BY <1>1, <1>2, <1>3 DEF Grows, ProofsGrow

LEMMA PassKept ==
  ASSUME TypeOK, Grows, PassIsEarned, ReviewInv, report' = report
  PROVE  PassIsEarned'
BY EarnedKept DEF PassIsEarned, Subject

LEMMA ReviewKept ==
  ASSUME TypeOK, TypeOK', Grows, ReviewInv, NEW n \in Reviews, review[n] # None
  PROVE  review'[n] = review[n] /\ ReviewStands(n)'
<1> DEFINE d == review[n].delivery
           v == review[n].report
           w == delivery[d].task.work
<1>1. review'[n] = review[n] BY DEF Grows, ProofsGrow
<1>2. d \in Deliveries /\ v \in Reports BY DEF TypeOK, Review
<1>3. ReviewStands(n) BY DEF ReviewInv, ReviewStands
<1>4. Verified(d, v) BY <1>3 DEF ReviewStands
<1>5. delivery'[d] = delivery[d] /\ report'[v] = report[v]
  BY <1>2, <1>4 DEF Verified, Grows, ProofsGrow
<1>6. w \in Works BY <1>2, <1>4, DeliveryFields DEF Verified
<1>7. work'[w].state # "ABSENT" /\ work'[w].owner = work[w].owner
  BY <1>3, <1>6 DEF Grows, RowsGrow, WorkGrows, ReviewStands
<1> QED BY <1>1, <1>3, <1>5, <1>7 DEF ReviewStands, Reviewer, Verified

LEMMA ReviewsKept ==
  ASSUME TypeOK, TypeOK', Grows, ReviewInv, review' = review,
         \A v \in Reports : report'[v] # None => delivery'[report'[v].delivery] # None
  PROVE  ReviewInv'
BY ReviewKept DEF ReviewInv, ReviewStands

LEMMA ReportsKept ==
  ASSUME TypeOK, Grows, ReviewInv, report' = report
  PROVE  \A v \in Reports : report'[v] # None => delivery'[report'[v].delivery] # None
<1> TAKE v \in Reports
<1> HAVE report'[v] # None
<1>1. report[v].delivery \in Deliveries BY DEF TypeOK, Report
<1> QED BY <1>1 DEF ReviewInv, Grows, ProofsGrow

(* One closure, but for being the only one of its work. *)
ChainStands(c) ==
  LET q == closure[c]
      w == work[q.work]
  IN
  /\ w.state = "CLOSED" /\ w.task = q.task /\ w.run = q.run
  /\ q.task \in frozen /\ q.task.work = q.work
  /\ run[q.run].state = "COMPLETED" /\ run[q.run].task = q.task
  /\ delivery[q.delivery].run = q.run /\ delivery[q.delivery].task = q.task
  /\ report[q.report].delivery = q.delivery /\ report[q.report].result = "PASS"
  /\ review[q.review].report = q.report /\ review[q.review].delivery = q.delivery
  /\ review[q.review].result = "PASS"
  /\ review[q.review].reviewer \notin {report[q.report].verifier, w.owner}

LEMMA ChainKept ==
  ASSUME TypeOK, TypeOK', Grows, ClosureStandsOnChain, ClosedInv,
         NEW c \in Closures, closure[c] # None
  PROVE  closure'[c] = closure[c] /\ ChainStands(c)'
<1> DEFINE q == closure[c]
<1>1. closure'[c] = q BY DEF Grows, ProofsGrow
<1>2. /\ q.work \in Works /\ q.run \in Runs /\ q.delivery \in Deliveries
      /\ q.report \in Reports /\ q.review \in Reviews
  BY DEF TypeOK, Closure
<1>3. ChainStands(c) BY DEF ClosureStandsOnChain, ChainStands
<1>4. /\ delivery'[q.delivery] = delivery[q.delivery] /\ report'[q.report] = report[q.report]
      /\ review'[q.review] = review[q.review]
  BY <1>2 DEF Grows, ProofsGrow, ClosedInv
<1>5. run'[q.run] = run[q.run]
  BY <1>2, <1>3 DEF Grows, RowsGrow, RunGrows, ChainStands, Terminal
<1>6. /\ work'[q.work].state = "CLOSED" /\ work'[q.work].task = q.task
      /\ work'[q.work].run = q.run /\ work'[q.work].owner = work[q.work].owner
  <2>1. WorkGrows(q.work) /\ work[q.work].state = "CLOSED"
    BY <1>2, <1>3 DEF Grows, RowsGrow, ChainStands
  <2>2. work'[q.work].state = "CLOSED"
    <3>1. CASE work'[q.work] = work[q.work] BY <2>1, <3>1
    <3>2. CASE Advance("CLOSED", work'[q.work].state) BY <3>2 DEF Advance
    <3> QED BY <2>1, <3>1, <3>2 DEF WorkGrows
  <2> QED BY <1>3, <2>1, <2>2 DEF WorkGrows, ChainStands
<1>7. q.task \in frozen' BY <1>3 DEF ChainStands, Grows, RowsGrow
<1> QED BY <1>1, <1>3, <1>4, <1>5, <1>6, <1>7 DEF ChainStands

LEMMA ClosuresKept ==
  ASSUME TypeOK, TypeOK', Grows, ClosureStandsOnChain, ClosedInv, closure' = closure
  PROVE  ClosureStandsOnChain' /\ ClosedInv'
<1>1. ClosureStandsOnChain'
  BY ChainKept DEF ClosureStandsOnChain, ChainStands
<1>2. ClosedInv'
  <2> SUFFICES ASSUME NEW c \in Closures, closure[c] # None
               PROVE  /\ delivery'[closure[c].delivery] # None
                      /\ report'[closure[c].report] # None
                      /\ review'[closure[c].review] # None
    BY DEF ClosedInv
  <2>1. /\ closure[c].delivery \in Deliveries /\ closure[c].report \in Reports
        /\ closure[c].review \in Reviews
    BY DEF TypeOK, Closure
  <2> QED BY <2>1 DEF ClosedInv, Grows, ProofsGrow
<1> QED BY <1>1, <1>2

-----------------------------------------------------------------------------
(* One lemma per action: it keeps the invariant and only lets rows grow. *)

(* A request is taken up or given up: no row changes. *)
LEMMA HandlerStep ==
  ASSUME IInv, NEW h \in Handlers, NEW q \in Request, Hold(h, q),
         UNCHANGED <<intakeVars, runVars, proofVars>>, Held(h)'
  PROVE  IInv' /\ Grows
<1> USE DEF intakeVars, runVars, proofVars
<1>0. /\ TypeOK /\ RunInv /\ HeldInv /\ LiveRunIsActive /\ DeliveryInv /\ PassIsEarned
      /\ ReviewInv /\ ClosureStandsOnChain /\ ClosedInv
  BY DEF IInv
<1>1. TypeOK' BY <1>0, HoldType DEF TypeOK
<1>2. Grows
  <2>1. \A w \in Works : WorkGrows(w) BY DEF WorkGrows
  <2>2. \A r \in Runs : RunGrows(r) BY <1>0 DEF RunGrows, TypeOK, RunRow
  <2> QED BY <2>1, <2>2 DEF Grows, RowsGrow, ProofsGrow
<1>3. RunInv' BY <1>0 DEF RunInv
<1>4. LiveRunIsActive' BY <1>0 DEF LiveRunIsActive, Live, Executing
<1>5. HeldInv'
  <2> SUFFICES ASSUME NEW x \in Handlers PROVE Held(x)' BY DEF HeldInv
  <2>1. CASE x = h BY <2>1
  <2>2. CASE x # h BY <1>0, <1>1, <1>2, <2>2, HoldType, HeldKept
  <2> QED BY <2>1, <2>2
<1>6. DeliveryInv' BY <1>0, <1>1, <1>2, DeliveryKept
<1>7. PassIsEarned' BY <1>0, <1>2, PassKept
<1>8. ReviewInv' BY <1>0, <1>1, <1>2, ReviewsKept, ReportsKept
<1>9. ClosureStandsOnChain' /\ ClosedInv' BY <1>0, <1>1, <1>2, ClosuresKept
<1> QED BY <1>1, <1>2, <1>3, <1>4, <1>5, <1>6, <1>7, <1>8, <1>9 DEF IInv

LEMMA GiveUpStep ==
  ASSUME IInv, NEW h \in Handlers, Finish(h), UNCHANGED <<intakeVars, runVars, proofVars>>
  PROVE  IInv' /\ Grows
<1>1. Idle \in Request BY DEF Request
<1>2. handler'[h] = Idle BY FinishType DEF IInv
<1>3. Held(h)' BY <1>2 DEF Held, Idle, Controls
<1> QED BY <1>1, <1>3, HandlerStep DEF Finish

LEMMA StutterStep ==
  ASSUME IInv, UNCHANGED vars
  PROVE  IInv' /\ Grows
<1> USE DEF vars, intakeVars, runVars, proofVars
<1>0. /\ TypeOK /\ RunInv /\ HeldInv /\ LiveRunIsActive /\ DeliveryInv /\ PassIsEarned
      /\ ReviewInv /\ ClosureStandsOnChain /\ ClosedInv
  BY DEF IInv
<1>1. TypeOK' BY <1>0 DEF TypeOK
<1>2. Grows
  <2>1. \A w \in Works : WorkGrows(w) BY DEF WorkGrows
  <2>2. \A r \in Runs : RunGrows(r) BY <1>0 DEF RunGrows, TypeOK, RunRow
  <2> QED BY <2>1, <2>2 DEF Grows, RowsGrow, ProofsGrow
<1>3. RunInv' BY <1>0 DEF RunInv
<1>4. LiveRunIsActive' BY <1>0 DEF LiveRunIsActive, Live, Executing
<1>5. HeldInv' BY <1>0, <1>1, <1>2, HeldKept DEF HeldInv
<1>6. DeliveryInv' BY <1>0, <1>1, <1>2, DeliveryKept
<1>7. PassIsEarned' BY <1>0, <1>2, PassKept
<1>8. ReviewInv' BY <1>0, <1>1, <1>2, ReviewsKept, ReportsKept
<1>9. ClosureStandsOnChain' /\ ClosedInv' BY <1>0, <1>1, <1>2, ClosuresKept
<1> QED BY <1>1, <1>2, <1>3, <1>4, <1>5, <1>6, <1>7, <1>8, <1>9 DEF IInv

(* The reads. *)
LEMMA ReadFreezeStep ==
  ASSUME IInv, NEW h \in Handlers, NEW t \in Tasks, ReadFreeze(h, t)
  PROVE  IInv' /\ Grows
<1> DEFINE q == [op |-> "freeze", task |-> t, work |-> work[t.work]]
<1>1. t.work \in Works BY TaskFields
<1>2. work[t.work] \in WorkRow BY <1>1 DEF IInv, TypeOK
<1>3. q \in Request BY <1>2 DEF Request
<1>4. handler'[h] = q BY <1>3, HoldType DEF IInv, ReadFreeze
<1>5. Held(h)' BY <1>2, <1>4 DEF Held, SameWork, ReadFreeze, intakeVars, Controls, WorkRow
<1> QED BY <1>3, <1>5, HandlerStep DEF ReadFreeze

LEMMA ReadStartStep ==
  ASSUME IInv, NEW h \in Handlers, NEW r \in Runs, NEW t \in Tasks, ReadStart(h, r, t)
  PROVE  IInv' /\ Grows
<1> DEFINE q == [op |-> "start", run |-> r, task |-> t, work |-> work[t.work]]
<1>1. t.work \in Works BY TaskFields
<1>2. work[t.work] \in WorkRow BY <1>1 DEF IInv, TypeOK
<1>3. q \in Request BY <1>2 DEF Request
<1>4. handler'[h] = q BY <1>3, HoldType DEF IInv, ReadStart
<1>5. Held(h)' BY <1>2, <1>4 DEF Held, SameWork, ReadStart, intakeVars, Controls, WorkRow
<1> QED BY <1>3, <1>5, HandlerStep DEF ReadStart

LEMMA RunRead ==
  ASSUME IInv, NEW r \in Runs, run[r].state # "ABSENT", ~Terminal(run[r])
  PROVE  run[r] \in RunRow /\ session[r] \in SessionRecord /\ SameRun(r, run[r], session[r])
BY DEF IInv, TypeOK, RunInv, SameRun, RunRow

LEMMA ReadControlStep ==
  ASSUME IInv, NEW h \in Handlers, NEW r \in Runs, NEW kind \in Controls,
         ReadControl(h, r, kind)
  PROVE  IInv' /\ Grows
<1> DEFINE q == [op |-> kind, run |-> r, row |-> run[r], session |-> session[r]]
<1>1. run[r] \in RunRow /\ session[r] \in SessionRecord /\ SameRun(r, run[r], session[r])
  BY RunRead DEF ReadControl, CheckEpoch
<1>2. q \in Request BY <1>1 DEF Request
<1>3. handler'[h] = q BY <1>2, HoldType DEF IInv, ReadControl
<1>4. Held(h)'
  BY <1>1, <1>3 DEF Held, SameRun, ReadControl, intakeVars, runVars, Controls
<1> QED BY <1>2, <1>4, HandlerStep DEF ReadControl

LEMMA ReadCheckpointStep ==
  ASSUME IInv, NEW h \in Handlers, NEW r \in Runs, ReadCheckpoint(h, r)
  PROVE  IInv' /\ Grows
<1> DEFINE q == [op |-> "checkpoint", run |-> r, epoch |-> run[r].epoch]
<1>1. run[r].epoch \in Nat BY DEF IInv, TypeOK, RunRow
<1>2. q \in Request BY <1>1 DEF Request
<1>3. handler'[h] = q BY <1>2, HoldType DEF IInv, ReadCheckpoint
<1>4. Held(h)' BY <1>3 DEF Held, Controls
<1> QED BY <1>2, <1>4, HandlerStep DEF ReadCheckpoint

LEMMA ReadCompleteStep ==
  ASSUME IInv, NEW h \in Handlers, NEW r \in Runs, ReadComplete(h, r)
  PROVE  IInv' /\ Grows
<1> DEFINE q == [op |-> "completing", run |-> r, row |-> run[r], session |-> session[r]]
<1>1. run[r] \in RunRow /\ session[r] \in SessionRecord /\ SameRun(r, run[r], session[r])
  BY RunRead DEF ReadComplete, CheckEpoch
<1>2. q \in Request BY <1>1 DEF Request
<1>3. handler'[h] = q BY <1>2, HoldType DEF IInv, ReadComplete
<1>4. Held(h)'
  BY <1>1, <1>3 DEF Held, SameRun, ReadComplete, intakeVars, runVars, Controls
<1> QED BY <1>2, <1>4, HandlerStep DEF ReadComplete

LEMMA ReadCompleteWorkStep ==
  ASSUME IInv, NEW h \in Handlers, ReadCompleteWork(h)
  PROVE  IInv' /\ Grows
<1> DEFINE p == handler[h]
           w == p.row.task.work
           q == [op |-> "complete", run |-> p.run, row |-> p.row,
                 session |-> p.session, work |-> work[w]]
<1>1. p.op = "completing" BY DEF ReadCompleteWork, Holds
<1>2. CASE ~Executing(w, p.run, p.row.task)
  BY <1>2, GiveUpStep DEF ReadCompleteWork
<1>3. CASE Executing(w, p.run, p.row.task)
  <2>1. p.run \in Runs /\ p.row \in RunRow /\ p.session \in SessionRecord
    BY <1>1, HeldTypes DEF IInv
  <2>2. SameRun(p.run, p.row, p.session) BY <1>1 DEF IInv, HeldInv, Held
  <2>3. w \in Works BY <2>2, TaskFields DEF SameRun, IInv, TypeOK
  <2>4. work[w] \in WorkRow BY <2>3 DEF IInv, TypeOK
  <2>5. q \in Request BY <2>1, <2>4 DEF Request
  <2>6. Hold(h, q) BY <1>3 DEF ReadCompleteWork
  <2>7. handler'[h] = q BY <2>5, <2>6, HoldType DEF IInv
  <2>8. UNCHANGED <<work, frozen, run, session>>
    BY DEF ReadCompleteWork, intakeVars, runVars
  <2>9. /\ handler'[h].op = "complete" /\ handler'[h].run = p.run /\ handler'[h].row = p.row
        /\ handler'[h].session = p.session /\ handler'[h].work = work[w]
    BY <2>7
  <2>10. SameRun(handler[h].run, handler[h].row, handler[h].session)'
    BY <2>2, <2>8, <2>9 DEF SameRun
  <2>11. SameWork(handler[h].row.task.work, handler[h].work)'
    BY <1>3, <2>4, <2>8, <2>9 DEF SameWork, Executing, WorkRow
  <2>12. Held(h)'
    BY <1>3, <2>9, <2>10, <2>11 DEF Held, Executing, Controls
  <2> QED BY <2>5, <2>6, <2>12, HandlerStep DEF ReadCompleteWork
<1> QED BY <1>2, <1>3

LEMMA ReadReviewStep ==
  ASSUME IInv, NEW h \in Handlers, NEW n \in Reviews, NEW d \in Deliveries,
         NEW v \in Reports, NEW p \in People, NEW result \in {"PASS", "FAIL"},
         ReadReview(h, n, d, v, p, result)
  PROVE  IInv' /\ Grows
<1> DEFINE q == [op |-> "review", id |-> n, delivery |-> d, report |-> v, reviewer |-> p,
                 result |-> result, work |-> work[delivery[d].task.work]]
<1>1. delivery[d] # None BY DEF ReadReview, Verified
<1>2. delivery[d].task.work \in Works BY <1>1, DeliveryFields DEF IInv
<1>3. work[delivery[d].task.work] \in WorkRow BY <1>2 DEF IInv, TypeOK
<1>4. q \in Request BY <1>3 DEF Request
<1>5. handler'[h] = q BY <1>4, HoldType DEF IInv, ReadReview
<1>6. UNCHANGED <<work, delivery>> BY DEF ReadReview, intakeVars, proofVars
<1>7. /\ handler'[h].op = "review" /\ handler'[h].delivery = d
      /\ handler'[h].work = work[delivery[d].task.work]
  BY <1>5
<1>8. SameWork(delivery[handler[h].delivery].task.work, handler[h].work)'
  BY <1>3, <1>6, <1>7 DEF SameWork, InState, ReadReview, WorkRow
<1>9. Held(h)' BY <1>1, <1>6, <1>7, <1>8 DEF Held, Controls
<1> QED BY <1>4, <1>9, HandlerStep DEF ReadReview

LEMMA ReadClosureStep ==
  ASSUME IInv, NEW h \in Handlers, NEW c \in Closures, NEW d \in Deliveries,
         NEW v \in Reports, NEW n \in Reviews, ReadClosure(h, c, d, v, n)
  PROVE  IInv' /\ Grows
<1> DEFINE w == delivery[d].task.work
           q == [op |-> "close", id |-> c, delivery |-> d, report |-> v, review |-> n,
                 work |-> work[delivery[d].task.work]]
<1>1. Verified(d, v) /\ InState(d, "REVIEWING") BY DEF ReadClosure
<1>2. w \in Works BY <1>1, DeliveryFields DEF IInv, Verified
<1>3. work[w] \in WorkRow BY <1>2 DEF IInv, TypeOK
<1>4. q \in Request BY <1>3 DEF Request
<1>5. handler'[h] = q BY <1>4, HoldType DEF IInv, ReadClosure
<1>6. UNCHANGED <<work, delivery, report>> BY DEF ReadClosure, intakeVars, proofVars
<1>7. /\ handler'[h].op = "close" /\ handler'[h].delivery = d /\ handler'[h].report = v
      /\ handler'[h].work = work[w]
  BY <1>5
<1>8. Verified(handler[h].delivery, handler[h].report)' BY <1>1, <1>6, <1>7 DEF Verified
<1>9. SameWork(delivery[handler[h].delivery].task.work, handler[h].work)'
  BY <1>1, <1>3, <1>6, <1>7 DEF SameWork, InState, WorkRow
<1>10. Held(h)'
  BY <1>1, <1>6, <1>7, <1>8, <1>9 DEF Held, InState, Controls
<1> QED BY <1>4, <1>10, HandlerStep DEF ReadClosure

LEMMA DropStep ==
  ASSUME IInv, NEW h \in Handlers, Drop(h)
  PROVE  IInv' /\ Grows
BY GiveUpStep DEF Drop

(* The commits on works and runs: the proof rows stay as they are. *)
LEMMA RowStep ==
  ASSUME IInv, TypeOK', RowsGrow, RunInv', LiveRunIsActive', UNCHANGED proofVars,
         \A x \in Handlers : handler'[x] = handler[x] \/ handler'[x] = Idle
  PROVE  IInv' /\ Grows
<1> USE DEF proofVars
<1>0. /\ TypeOK /\ RunInv /\ HeldInv /\ LiveRunIsActive /\ DeliveryInv /\ PassIsEarned
      /\ ReviewInv /\ ClosureStandsOnChain /\ ClosedInv
  BY DEF IInv
<1>1. Grows BY DEF Grows, ProofsGrow
<1>2. HeldInv'
  <2> SUFFICES ASSUME NEW x \in Handlers PROVE Held(x)' BY DEF HeldInv
  <2>1. CASE handler'[x] = Idle BY <2>1 DEF Held, Idle, Controls
  <2>2. CASE handler'[x] = handler[x] BY <1>0, <1>1, <2>2, HeldKept
  <2> QED BY <2>1, <2>2
<1>3. DeliveryInv' BY <1>0, <1>1, DeliveryKept
<1>4. PassIsEarned' BY <1>0, <1>1, PassKept
<1>5. ReviewInv' BY <1>0, <1>1, ReviewsKept, ReportsKept
<1>6. ClosureStandsOnChain' /\ ClosedInv' BY <1>0, <1>1, ClosuresKept
<1> QED BY <1>1, <1>2, <1>3, <1>4, <1>5, <1>6 DEF IInv

LEMMA WorkUpdated ==
  ASSUME TypeOK, NEW w \in Works, NEW new \in WorkRow, work' = [work EXCEPT ![w] = new]
  PROVE  /\ work' \in [Works -> WorkRow] /\ work'[w] = new
         /\ \A x \in Works : x # w => work'[x] = work[x]
BY DEF TypeOK

LEMMA RunUnchanged ==
  ASSUME TypeOK, NEW r \in Runs, run'[r] = run[r], session'[r] = session[r]
  PROVE  RunGrows(r)
BY DEF TypeOK, RunGrows, RunRow

LEMMA CreateWorkStep ==
  ASSUME IInv, NEW w \in Works, NEW p \in People, NEW c \in Creations, CreateWork(w, p, c)
  PROVE  IInv' /\ Grows
<1> DEFINE new == [state |-> c.state, version |-> 1, owner |-> p, task |-> c.task, run |-> c.run]
<1> USE DEF runVars, proofVars
<1>0. TypeOK /\ RunInv /\ LiveRunIsActive BY DEF IInv
<1>1. c.state \in WorkStates /\ c.task \in Tasks \cup {None} /\ c.run \in Runs \cup {None}
  BY CreationsAssumption
<1>2. new \in WorkRow /\ new.state # "ABSENT" BY <1>1 DEF WorkRow, WorkStates
<1>3. /\ work' \in [Works -> WorkRow] /\ work'[w] = new
      /\ \A x \in Works : x # w => work'[x] = work[x]
  BY <1>0, <1>2, WorkUpdated DEF CreateWork
<1>4. TypeOK' BY <1>0, <1>3 DEF CreateWork, TypeOK
<1>5. work[w].state = "ABSENT" BY DEF CreateWork, WorkIsNew
<1>6. RowsGrow
  <2>1. \A x \in Works : WorkGrows(x) BY <1>3, <1>5 DEF WorkGrows
  <2>2. \A r \in Runs : RunGrows(r) BY <1>0, RunUnchanged DEF CreateWork
  <2> QED BY <2>1, <2>2 DEF RowsGrow, CreateWork
<1>7. RunInv' BY <1>0 DEF RunInv, CreateWork
<1>8. LiveRunIsActive'
  <2> SUFFICES ASSUME NEW r \in Runs, Live(r)'
               PROVE  Executing(run[r].task.work, r, run[r].task)' /\ (run[r].task \in frozen)'
    BY DEF LiveRunIsActive
  <2>1. run' = run /\ frozen' = frozen BY DEF CreateWork
  <2>2. Live(r) BY <2>1 DEF Live
  <2>3. Executing(run[r].task.work, r, run[r].task) /\ run[r].task \in frozen
    BY <1>0, <2>2 DEF LiveRunIsActive
  <2>4. run[r].task.work \in Works BY <1>0, <2>3, TaskFields DEF TypeOK
  <2>5. run[r].task.work # w BY <1>5, <2>3 DEF Executing
  <2> QED BY <1>3, <2>1, <2>3, <2>4, <2>5 DEF Executing
<1> QED BY <1>4, <1>6, <1>7, <1>8, RowStep DEF CreateWork

(* A work that is not executing may change: no live run depends on it. *)
LEMMA LiveKept ==
  ASSUME TypeOK, LiveRunIsActive, NEW w \in Works, work[w].state # "EXECUTING",
         \A x \in Works : x # w => work'[x] = work[x],
         run' = run, frozen \subseteq frozen'
  PROVE  LiveRunIsActive'
<1> SUFFICES ASSUME NEW r \in Runs, Live(r)'
             PROVE  Executing(run[r].task.work, r, run[r].task)' /\ (run[r].task \in frozen)'
  BY DEF LiveRunIsActive
<1>1. Live(r) BY DEF Live
<1>2. Executing(run[r].task.work, r, run[r].task) /\ run[r].task \in frozen
  BY <1>1 DEF LiveRunIsActive
<1>3. run[r].task.work \in Works BY <1>2, TaskFields DEF TypeOK
<1>4. run[r].task.work # w BY <1>2 DEF Executing
<1> QED BY <1>2, <1>3, <1>4 DEF Executing

LEMMA CommitFreezeStep ==
  ASSUME IInv, NEW h \in Handlers, CommitFreeze(h)
  PROVE  IInv' /\ Grows
<1> DEFINE q == handler[h]
           w == q.task.work
           new == Written(work[w], "READY", q.task, None)
<1>0. TypeOK /\ RunInv /\ LiveRunIsActive /\ q.op = "freeze"
  BY DEF IInv, CommitFreeze, Holds
<1>1. CASE ~CanFreeze(q) BY <1>1, GiveUpStep DEF CommitFreeze, intakeVars
<1>2. CASE CanFreeze(q)
  <2>1. q.task \in Tasks /\ w \in Works BY <1>0, HeldTypes, TaskFields
  <2>2. /\ frozen' = frozen \cup {q.task} /\ work' = [work EXCEPT ![w] = new]
        /\ Finish(h) /\ UNCHANGED <<runVars, proofVars>>
    BY <1>2 DEF CommitFreeze
  <2>3. work[w] \in WorkRow BY <1>0, <2>1 DEF TypeOK
  <2>4. /\ new \in WorkRow /\ new.state = "READY" /\ new.run = None
        /\ new.owner = work[w].owner /\ new.version = work[w].version + 1
    BY <2>1, <2>3, WrittenType DEF WorkStates
  <2> HIDE DEF new
  <2>5. /\ work' \in [Works -> WorkRow] /\ work'[w] = new
        /\ \A x \in Works : x # w => work'[x] = work[x]
    BY <1>0, <2>1, <2>2, <2>4, WorkUpdated
  <2>6. work[w].state \in {"DRAFT", "READY"} /\ work[w].run = None BY <1>2 DEF CanFreeze
  <2>7. TypeOK' BY <1>0, <2>1, <2>2, <2>5, FinishType DEF TypeOK, runVars, proofVars
  <2>8. RowsGrow
    <3>1. WorkGrows(w) BY <2>4, <2>5, <2>6 DEF WorkGrows, Advance
    <3>2. \A x \in Works : WorkGrows(x) BY <2>5, <3>1 DEF WorkGrows
    <3>3. \A r \in Runs : RunGrows(r) BY <1>0, <2>2, RunUnchanged DEF runVars
    <3> QED BY <2>2, <3>2, <3>3 DEF RowsGrow
  <2>9. RunInv' BY <1>0, <2>2 DEF RunInv, runVars
  <2>10. LiveRunIsActive' BY <1>0, <2>1, <2>2, <2>5, <2>6, LiveKept DEF runVars
  <2> QED BY <1>0, <2>2, <2>7, <2>8, <2>9, <2>10, RowStep, FinishType
<1> QED BY <1>1, <1>2

LEMMA CommitCheckpointStep ==
  ASSUME IInv, NEW h \in Handlers, CommitCheckpoint(h)
  PROVE  IInv' /\ Grows
<1> DEFINE q == handler[h]
<1> USE DEF intakeVars, proofVars
<1>0. TypeOK /\ RunInv /\ LiveRunIsActive /\ q.op = "checkpoint"
  BY DEF IInv, CommitCheckpoint, Holds
<1>1. q.run \in Runs /\ q.epoch \in Nat BY <1>0, HeldTypes
<1>2. run[q.run].epoch \in Nat BY <1>0, <1>1 DEF TypeOK, RunRow
<1>3. checkpoint' \subseteq [run : Runs, epoch : Nat, at : Nat]
  BY <1>0, <1>1, <1>2 DEF CommitCheckpoint, TypeOK
<1>4. TypeOK' BY <1>0, <1>3, FinishType DEF CommitCheckpoint, TypeOK
<1>5. RowsGrow
  <2>1. \A x \in Works : WorkGrows(x) BY DEF WorkGrows, CommitCheckpoint
  <2>2. \A r \in Runs : RunGrows(r) BY <1>0, RunUnchanged DEF CommitCheckpoint
  <2> QED BY <2>1, <2>2 DEF RowsGrow, CommitCheckpoint
<1>6. RunInv' BY <1>0 DEF RunInv, CommitCheckpoint
<1>7. LiveRunIsActive' BY <1>0 DEF LiveRunIsActive, Live, Executing, CommitCheckpoint
<1> QED BY <1>0, <1>4, <1>5, <1>6, <1>7, RowStep, FinishType DEF CommitCheckpoint

LEMMA RunReplaced ==
  ASSUME TypeOK, NEW r \in Runs, NEW row \in RunRow, NEW s \in SessionRecord,
         run' = [run EXCEPT ![r] = row], session' = [session EXCEPT ![r] = s]
  PROVE  /\ run' \in [Runs -> RunRow] /\ session' \in [Runs -> SessionRecord]
         /\ run'[r] = row /\ session'[r] = s
         /\ \A x \in Runs : x # r => run'[x] = run[x] /\ session'[x] = session[x]
BY DEF TypeOK

LEMMA CommitStartStep ==
  ASSUME IInv, NEW h \in Handlers, CommitStart(h)
  PROVE  IInv' /\ Grows
<1> DEFINE q == handler[h]
           t == q.task
           w == t.work
           new == Written(work[w], "EXECUTING", t, q.run)
           row == StartedRun(t)
<1>0. TypeOK /\ RunInv /\ LiveRunIsActive /\ HeldInv /\ q.op = "start"
  BY DEF IInv, CommitStart, Holds
<1>1. CASE ~CanStart(q) BY <1>1, GiveUpStep DEF CommitStart, intakeVars, runVars
<1>2. CASE CanStart(q)
  <2>1. t \in Tasks /\ w \in Works /\ q.run \in Runs BY <1>0, HeldTypes, TaskFields
  <2>2. t \in frozen BY <1>0 DEF HeldInv, Held
  <2>3. /\ run' = [run EXCEPT ![q.run] = row]
        /\ session' = [session EXCEPT ![q.run] = NewSession(run'[q.run].epoch)]
        /\ work' = [work EXCEPT ![w] = new]
        /\ Finish(h) /\ UNCHANGED <<frozen, checkpoint, proofVars>>
    BY <1>2 DEF CommitStart
  <2>4. /\ row \in RunRow /\ row.state = "RUNNING" /\ row.task = t /\ row.epoch = 1
        /\ row.owner = "RUNTIME"
    BY <2>1, StartedRunType
  <2>5. work[w] \in WorkRow BY <1>0, <2>1 DEF TypeOK
  <2>6. /\ new \in WorkRow /\ new.state = "EXECUTING" /\ new.run = q.run /\ new.task = t
        /\ new.owner = work[w].owner /\ new.version = work[w].version + 1
    <3>1. /\ "EXECUTING" \in WorkStates /\ t \in Tasks \cup {None}
          /\ q.run \in Runs \cup {None}
      BY <2>1 DEF WorkStates
    <3> QED BY <2>5, <3>1, WrittenType, SMTT(30)
  <2> HIDE DEF new, row
  <2>7. /\ work' \in [Works -> WorkRow] /\ work'[w] = new
        /\ \A x \in Works : x # w => work'[x] = work[x]
    BY <1>0, <2>1, <2>3, <2>6, WorkUpdated
  <2>8. run'[q.run] = row BY <1>0, <2>1, <2>3 DEF TypeOK
  <2>9. session' = [session EXCEPT ![q.run] = NewSession(1)] BY <2>3, <2>4, <2>8
  <2>10. /\ NewSession(1) \in SessionRecord /\ NewSession(1).epoch = 1
         /\ NewSession(1).owner = "RUNTIME"
    BY NewSessionType
  <2>11. /\ run' \in [Runs -> RunRow] /\ session' \in [Runs -> SessionRecord]
         /\ session'[q.run] = NewSession(1)
         /\ \A x \in Runs : x # q.run => run'[x] = run[x] /\ session'[x] = session[x]
    BY <1>0, <2>1, <2>3, <2>4, <2>9, <2>10, RunReplaced
  <2>12. work[w].state = "READY" /\ work[w].task = t /\ run[q.run].state = "ABSENT"
    BY <1>2 DEF CanStart
  <2>13. TypeOK' BY <1>0, <2>3, <2>7, <2>11, FinishType DEF TypeOK, proofVars
  <2>14. RowsGrow
    <3>1. WorkGrows(w) BY <2>6, <2>7, <2>12 DEF WorkGrows, Advance
    <3>2. \A x \in Works : WorkGrows(x) BY <2>7, <3>1 DEF WorkGrows
    <3>3. RunGrows(q.run) BY <2>12 DEF RunGrows
    <3>4. \A r \in Runs : RunGrows(r) BY <1>0, <2>11, <3>3, RunUnchanged
    <3> QED BY <2>3, <3>2, <3>4 DEF RowsGrow
  <2>15. RunInv'
    BY <1>0, <2>2, <2>3, <2>4, <2>8, <2>10, <2>11 DEF RunInv
  <2>16. LiveRunIsActive'
    <3> SUFFICES ASSUME NEW r \in Runs, Live(r)'
                 PROVE  Executing(run[r].task.work, r, run[r].task)' /\ (run[r].task \in frozen)'
      BY DEF LiveRunIsActive
    <3>1. CASE r = q.run BY <2>2, <2>3, <2>4, <2>6, <2>7, <2>8, <3>1 DEF Executing
    <3>2. CASE r # q.run
      <4>1. run'[r] = run[r] BY <2>11, <3>2
      <4>2. Live(r) BY <4>1 DEF Live
      <4>3. Executing(run[r].task.work, r, run[r].task) /\ run[r].task \in frozen
        BY <1>0, <4>2 DEF LiveRunIsActive
      <4>4. run[r].task.work \in Works BY <1>0, <4>3, TaskFields DEF TypeOK
      <4>5. run[r].task.work # w BY <2>12, <4>3 DEF Executing
      <4> QED BY <2>3, <2>7, <4>1, <4>3, <4>4, <4>5 DEF Executing
    <3> QED BY <3>1, <3>2
  <2> QED BY <1>0, <2>3, <2>13, <2>14, <2>15, <2>16, RowStep, FinishType
<1> QED BY <1>1, <1>2

LEMMA CommitControlStep ==
  ASSUME IInv, NEW h \in Handlers, CommitControl(h)
  PROVE  IInv' /\ Grows
<1> DEFINE q == handler[h]
           made == ControlledRun(q.op, q.row)
           row == [made EXCEPT !.version = @ + 1]
           s == ControlledSession(q.op, q.session)
<1>0. TypeOK /\ RunInv /\ LiveRunIsActive /\ HeldInv /\ q.op \in Controls
  BY DEF IInv, CommitControl
<1>1. CASE ~CanControl(q) BY <1>1, GiveUpStep DEF CommitControl, runVars
<1>2. CASE CanControl(q)
  <2>1. q.run \in Runs /\ q.row \in RunRow /\ q.session \in SessionRecord
    BY <1>0, HeldTypes
  <2>2. SameRun(q.run, q.row, q.session) BY <1>0 DEF HeldInv, Held
  <2>3. /\ run[q.run] = q.row /\ session[q.run] = q.session /\ q.row.state # "ABSENT"
        /\ ~Terminal(q.row)
    BY <1>2, <2>2 DEF CanControl, RunAt, SameRun
  <2>4. /\ run' = [run EXCEPT ![q.run] = row] /\ session' = [session EXCEPT ![q.run] = s]
        /\ Finish(h) /\ UNCHANGED <<intakeVars, checkpoint, proofVars>>
    BY <1>2 DEF CommitControl
  <2>5. q.row.epoch = q.session.epoch /\ q.row.owner = q.session.owner
        /\ q.row.task \in frozen
    BY <1>0, <2>1, <2>3 DEF RunInv
  <2>6. /\ made \in RunRow /\ s \in SessionRecord
        /\ made.task = q.row.task /\ made.version = q.row.version
        /\ made.state \in {"PAUSED", "RUNNING", "HUMAN_CONTROLLED"}
        /\ made.epoch >= q.row.epoch
        /\ q.row.owner = "HUMAN" => made.owner = "HUMAN"
        /\ made.epoch = s.epoch /\ made.owner = s.owner
    BY <1>0, <2>1, <2>5, ControlledType, SMTT(30)
  <2> HIDE DEF made, s
  <2>7. /\ row \in RunRow /\ row.version = q.row.version + 1 /\ row.state = made.state
        /\ row.epoch = made.epoch /\ row.owner = made.owner /\ row.task = made.task
    BY <2>6, VersionedType
  <2> HIDE DEF row
  <2>8. /\ run' \in [Runs -> RunRow] /\ session' \in [Runs -> SessionRecord]
        /\ run'[q.run] = row /\ session'[q.run] = s
        /\ \A x \in Runs : x # q.run => run'[x] = run[x] /\ session'[x] = session[x]
    BY <1>0, <2>1, <2>4, <2>6, <2>7, RunReplaced
  <2>9. TypeOK' BY <1>0, <2>4, <2>8, FinishType DEF TypeOK, intakeVars, proofVars
  <2>10. RowsGrow
    <3>1. \A x \in Works : WorkGrows(x) BY <2>4 DEF WorkGrows, intakeVars
    <3>2. RunGrows(q.run) BY <2>3, <2>6, <2>7, <2>8 DEF RunGrows
    <3>3. \A r \in Runs : RunGrows(r) BY <1>0, <2>8, <3>2, RunUnchanged
    <3> QED BY <2>4, <3>1, <3>3 DEF RowsGrow, intakeVars
  <2>11. RunInv' BY <1>0, <2>4, <2>5, <2>6, <2>7, <2>8 DEF RunInv, intakeVars
  <2>12. LiveRunIsActive'
    <3> SUFFICES ASSUME NEW r \in Runs, Live(r)'
                 PROVE  Executing(run[r].task.work, r, run[r].task)' /\ (run[r].task \in frozen)'
      BY DEF LiveRunIsActive
    <3>1. Live(r) /\ run'[r].task = run[r].task BY <2>3, <2>6, <2>7, <2>8 DEF Live
    <3> QED BY <1>0, <2>4, <3>1 DEF LiveRunIsActive, Executing, intakeVars
  <2> QED BY <1>0, <2>4, <2>9, <2>10, <2>11, <2>12, RowStep, FinishType
<1> QED BY <1>1, <1>2

LEMMA CommitCompleteStep ==
  ASSUME IInv, NEW h \in Handlers, CommitComplete(h)
  PROVE  IInv' /\ Grows
<1> DEFINE q == handler[h]
           w == q.row.task.work
           new == Written(work[w], "VERIFYING", q.work.task, q.work.run)
           made == CompleteRun(q.row)
           row == [made EXCEPT !.version = @ + 1]
<1>0. TypeOK /\ RunInv /\ LiveRunIsActive /\ HeldInv /\ q.op = "complete"
  BY DEF IInv, CommitComplete, Holds
<1>1. CASE ~CanComplete(q) BY <1>1, GiveUpStep DEF CommitComplete, runVars, intakeVars
<1>2. CASE CanComplete(q)
  <2>1. q.run \in Runs /\ q.row \in RunRow /\ q.session \in SessionRecord /\ q.work \in WorkRow
    BY <1>0, HeldTypes
  <2>2. /\ SameRun(q.run, q.row, q.session) /\ SameWork(w, q.work)
        /\ q.work.state = "EXECUTING" /\ q.work.task = q.row.task /\ q.work.run = q.run
    BY <1>0 DEF HeldInv, Held
  <2>3. /\ run[q.run] = q.row /\ session[q.run] = q.session /\ q.row.state # "ABSENT"
        /\ ~Terminal(q.row) /\ work[w] = q.work
    BY <1>2, <2>2 DEF CanComplete, RunAt, WorkAt, SameRun, SameWork
  <2>4. /\ run' = [run EXCEPT ![q.run] = row] /\ session' = [session EXCEPT ![q.run] = q.session]
        /\ work' = [work EXCEPT ![w] = new]
        /\ Finish(h) /\ UNCHANGED <<frozen, checkpoint, proofVars>>
    BY <1>2 DEF CommitComplete
  <2>5. /\ q.row.epoch = q.session.epoch /\ q.row.owner = q.session.owner
        /\ q.row.task \in frozen
    BY <1>0, <2>1, <2>3 DEF RunInv
  <2>6. q.row.task \in Tasks /\ w \in Works BY <1>0, <2>5, TaskFields DEF TypeOK
  <2>7. /\ made \in RunRow /\ made.state = "COMPLETED" /\ made.version = q.row.version
        /\ made.epoch = q.row.epoch /\ made.owner = q.row.owner /\ made.task = q.row.task
    BY <2>1, CompletedType
  <2> HIDE DEF made
  <2>8. /\ row \in RunRow /\ row.version = q.row.version + 1 /\ row.state = made.state
        /\ row.epoch = made.epoch /\ row.owner = made.owner /\ row.task = made.task
    BY <2>7, VersionedType
  <2>9. /\ new \in WorkRow /\ new.state = "VERIFYING" /\ new.run = q.run
        /\ new.task = q.row.task
        /\ new.owner = work[w].owner /\ new.version = work[w].version + 1
    <3>1. /\ "VERIFYING" \in WorkStates /\ q.work.task \in Tasks \cup {None}
          /\ q.work.run \in Runs \cup {None} /\ work[w] \in WorkRow
      BY <2>1, <2>2, <2>3, <2>6 DEF WorkStates
    <3>2. /\ new \in WorkRow /\ new.state = "VERIFYING" /\ new.run = q.work.run
          /\ new.task = q.work.task
          /\ new.owner = work[w].owner /\ new.version = work[w].version + 1
      BY <3>1, WrittenType
    <3> HIDE DEF new
    <3> QED BY <2>2, <3>2
  <2> HIDE DEF row, new
  <2>10. /\ run' \in [Runs -> RunRow] /\ session' \in [Runs -> SessionRecord]
         /\ run'[q.run] = row /\ session'[q.run] = q.session
         /\ \A x \in Runs : x # q.run => run'[x] = run[x] /\ session'[x] = session[x]
    BY <1>0, <2>1, <2>4, <2>8, RunReplaced
  <2>11. /\ work' \in [Works -> WorkRow] /\ work'[w] = new
         /\ \A x \in Works : x # w => work'[x] = work[x]
    BY <1>0, <2>4, <2>6, <2>9, WorkUpdated
  <2>12. TypeOK' BY <1>0, <2>4, <2>10, <2>11, FinishType DEF TypeOK, proofVars
  <2>13. RowsGrow
    <3>1. WorkGrows(w) BY <2>2, <2>3, <2>9, <2>11 DEF WorkGrows, Advance
    <3>2. \A x \in Works : WorkGrows(x) BY <2>11, <3>1 DEF WorkGrows
    <3>3. RunGrows(q.run)
      <4>1. q.row.epoch \in Nat BY <2>1 DEF RunRow
      <4> QED BY <2>3, <2>7, <2>8, <2>10, <4>1 DEF RunGrows
    <3>4. \A r \in Runs : RunGrows(r) BY <1>0, <2>10, <3>3, RunUnchanged
    <3> QED BY <2>4, <3>2, <3>4 DEF RowsGrow
  <2>14. RunInv' BY <1>0, <2>4, <2>5, <2>7, <2>8, <2>10 DEF RunInv
  <2>15. LiveRunIsActive'
    <3> SUFFICES ASSUME NEW r \in Runs, Live(r)'
                 PROVE  Executing(run[r].task.work, r, run[r].task)' /\ (run[r].task \in frozen)'
      BY DEF LiveRunIsActive
    <3>1. r # q.run BY <2>7, <2>8, <2>10 DEF Live, Terminal
    <3>2. run'[r] = run[r] BY <2>10, <3>1
    <3>3. Executing(run[r].task.work, r, run[r].task) /\ run[r].task \in frozen
      BY <1>0, <3>2 DEF LiveRunIsActive, Live
    <3>4. run[r].task.work \in Works BY <1>0, <3>3, TaskFields DEF TypeOK
    <3>5. run[r].task.work # w BY <2>2, <2>3, <3>1, <3>3 DEF Executing
    <3> QED BY <2>4, <2>11, <3>2, <3>3, <3>4, <3>5 DEF Executing
  <2> QED BY <1>0, <2>4, <2>12, <2>13, <2>14, <2>15, RowStep, FinishType
<1> QED BY <1>1, <1>2

LEMMA ContinueStep ==
  ASSUME IInv, NEW r \in Runs, NEW s \in Runs, Continue(r, s)
  PROVE  IInv' /\ Grows
<1> DEFINE t == run[r].task
           w == t.work
           new == Written(work[w], work[w].state, work[w].task, s)
           old == SupersedeRun(run[r])
           row == [old EXCEPT !.version = @ + 1]
           next == StartedRun(t)
           ended == SupersedeSession(session[r])
<1>0. TypeOK /\ RunInv /\ LiveRunIsActive BY DEF IInv
<1>1. run[r].state = "RUNNING" /\ Executing(w, r, t) /\ run[s].state = "ABSENT"
  BY DEF Continue
<1>2. r # s BY <1>1
<1>3. t \in frozen /\ run[r].epoch = session[r].epoch /\ run[r].owner = session[r].owner
  BY <1>0, <1>1 DEF RunInv
<1>4. t \in Tasks /\ w \in Works BY <1>0, <1>3, TaskFields DEF TypeOK
<1>5. run[r] \in RunRow /\ session[r] \in SessionRecord /\ work[w] \in WorkRow
  BY <1>0, <1>4 DEF TypeOK
<1>6. /\ run' = [run EXCEPT ![r] = row, ![s] = next]
      /\ session' = [session EXCEPT ![r] = ended, ![s] = NewSession(1)]
      /\ work' = [work EXCEPT ![w] = new]
      /\ UNCHANGED <<frozen, checkpoint, proofVars, handler>>
  <2>1. run' = [run EXCEPT ![r] = row, ![s] = next] BY Zenon DEF Continue
  <2>2. session' = [session EXCEPT ![r] = ended, ![s] = NewSession(1)] BY Zenon DEF Continue
  <2>3. work' = [work EXCEPT ![w] = new] BY Zenon DEF Continue
  <2>4. UNCHANGED <<frozen, checkpoint, proofVars, handler>> BY DEF Continue
  <2> QED BY <2>1, <2>2, <2>3, <2>4
<1>7. /\ old \in RunRow /\ ended \in SessionRecord
      /\ old.state = "ABORTED" /\ old.version = run[r].version /\ old.task = t
      /\ old.epoch = run[r].epoch + 1 /\ old.owner = run[r].owner
      /\ ended.epoch = session[r].epoch + 1 /\ ended.owner = session[r].owner
  BY <1>5, SupersededType
<1>8. /\ next \in RunRow /\ next.state = "RUNNING" /\ next.task = t /\ next.epoch = 1
      /\ next.owner = "RUNTIME"
  BY <1>4, StartedRunType
<1>9. /\ NewSession(1) \in SessionRecord /\ NewSession(1).epoch = 1
      /\ NewSession(1).owner = "RUNTIME"
  BY NewSessionType
<1>10. /\ new \in WorkRow /\ new.state = work[w].state /\ new.run = s
       /\ new.task = work[w].task
       /\ new.owner = work[w].owner /\ new.version = work[w].version + 1
  <2>1. /\ work[w].state \in WorkStates /\ work[w].task \in Tasks \cup {None}
        /\ s \in Runs \cup {None}
    BY <1>1, <1>5 DEF WorkRow, Executing, WorkStates
  <2> QED BY <1>5, <2>1, WrittenType
<1> HIDE DEF old, ended, next, new
<1>11. /\ row \in RunRow /\ row.version = old.version + 1 /\ row.state = old.state
       /\ row.epoch = old.epoch /\ row.owner = old.owner /\ row.task = old.task
  BY <1>7, VersionedType
<1> HIDE DEF row
<1>12. /\ run' \in [Runs -> RunRow] /\ session' \in [Runs -> SessionRecord]
       /\ run'[r] = row /\ session'[r] = ended /\ run'[s] = next /\ session'[s] = NewSession(1)
       /\ \A x \in Runs \ {r, s} : run'[x] = run[x] /\ session'[x] = session[x]
  BY <1>0, <1>2, <1>6, <1>7, <1>8, <1>9, <1>11 DEF TypeOK
<1>13. /\ work' \in [Works -> WorkRow] /\ work'[w] = new
       /\ \A x \in Works : x # w => work'[x] = work[x]
  BY <1>0, <1>4, <1>6, <1>10, WorkUpdated
<1>14. TypeOK' BY <1>0, <1>6, <1>12, <1>13 DEF TypeOK, proofVars
<1>15. RowsGrow
  <2>1. WorkGrows(w) BY <1>1, <1>10, <1>13 DEF WorkGrows, Advance, Executing
  <2>2. \A x \in Works : WorkGrows(x) BY <1>13, <2>1 DEF WorkGrows
  <2>3. RunGrows(r)
    <3>1. run[r].epoch \in Nat BY <1>5 DEF RunRow
    <3>2. row.epoch >= run[r].epoch BY <1>7, <1>11, <3>1
    <3> QED BY <1>1, <1>7, <1>11, <1>12, <3>2 DEF RunGrows, Terminal
  <2>4. RunGrows(s) BY <1>1 DEF RunGrows
  <2>5. \A x \in Runs : RunGrows(x) BY <1>0, <1>12, <2>3, <2>4, RunUnchanged
  <2> QED BY <1>6, <2>2, <2>5 DEF RowsGrow
<1>16. RunInv'
  <2> SUFFICES ASSUME NEW x \in Runs, run'[x].state # "ABSENT"
               PROVE  /\ run'[x].task \in frozen'
                      /\ run'[x].epoch = session'[x].epoch /\ run'[x].owner = session'[x].owner
    BY DEF RunInv
  <2>1. CASE x = r BY <1>3, <1>6, <1>7, <1>11, <1>12, <2>1
  <2>2. CASE x = s BY <1>3, <1>6, <1>8, <1>9, <1>12, <2>2
  <2>3. CASE x \notin {r, s} BY <1>0, <1>6, <1>12, <2>3 DEF RunInv
  <2> QED BY <2>1, <2>2, <2>3
<1>17. LiveRunIsActive'
  <2> SUFFICES ASSUME NEW x \in Runs, Live(x)'
               PROVE  Executing(run[x].task.work, x, run[x].task)' /\ (run[x].task \in frozen)'
    BY DEF LiveRunIsActive
  <2>1. x # r BY <1>7, <1>11, <1>12 DEF Live, Terminal
  <2>2. CASE x = s
    <3>1. run'[x].task = t BY <1>8, <1>12, <2>2
    <3>2. work'[w].state = "EXECUTING" /\ work'[w].task = t /\ work'[w].run = x
      BY <1>1, <1>10, <1>13, <2>2 DEF Executing
    <3> HIDE DEF t, w
    <3> QED BY <1>3, <1>6, <3>1, <3>2 DEF Executing, w
  <2>3. CASE x # s
    <3>1. run'[x] = run[x] BY <1>12, <2>1, <2>3
    <3>2. Executing(run[x].task.work, x, run[x].task) /\ run[x].task \in frozen
      BY <1>0, <3>1 DEF LiveRunIsActive, Live
    <3>3. run[x].task.work \in Works BY <1>0, <3>2, TaskFields DEF TypeOK
    <3>4. run[x].task.work # w BY <1>1, <2>1, <3>2 DEF Executing
    <3> QED BY <1>6, <1>13, <3>1, <3>2, <3>3, <3>4 DEF Executing
  <2> QED BY <2>2, <2>3
<1> QED BY <1>6, <1>14, <1>15, <1>16, <1>17, RowStep

(* The inserts of deliveries, evidence and reports touch no other row. *)
LEMMA RowsSame ==
  ASSUME IInv, UNCHANGED <<intakeVars, runVars>>
  PROVE  RowsGrow /\ RunInv' /\ LiveRunIsActive'
<1> USE DEF intakeVars, runVars
<1>0. TypeOK /\ RunInv /\ LiveRunIsActive BY DEF IInv
<1>1. \A w \in Works : WorkGrows(w) BY DEF WorkGrows
<1>2. \A r \in Runs : RunGrows(r) BY <1>0, RunUnchanged
<1>3. RunInv' BY <1>0 DEF RunInv
<1>4. LiveRunIsActive' BY <1>0 DEF LiveRunIsActive, Live, Executing
<1> QED BY <1>1, <1>2, <1>3, <1>4 DEF RowsGrow

(* On either store: without the check that the subject is new. *)
LEMMA DeliveryStep ==
  ASSUME IInv, NEW d \in Deliveries, NEW r \in Runs, NEW content \in Contents,
         MemoryDelivery(d, r, content)
  PROVE  IInv' /\ Grows
<1> DEFINE item == [run |-> r, task |-> run[r].task, content |-> content]
<1>0. /\ TypeOK /\ RunInv /\ HeldInv /\ LiveRunIsActive /\ DeliveryInv /\ PassIsEarned
      /\ ReviewInv /\ ClosureStandsOnChain /\ ClosedInv
  BY DEF IInv
<1>1. /\ run[r].state = "COMPLETED" /\ delivery[d] = None
      /\ delivery' = [delivery EXCEPT ![d] = item]
      /\ UNCHANGED <<intakeVars, runVars, evidence, report, review, closure, handler>>
  BY DEF MemoryDelivery
<1>2. run[r].task \in Tasks BY <1>0, <1>1 DEF RunInv, TypeOK
<1>3. item \in Delivery BY <1>2 DEF Delivery
<1>4. item.run = r /\ item.task = run[r].task OBVIOUS
<1> HIDE DEF item
<1>5. /\ delivery' \in [Deliveries -> Delivery \cup {None}] /\ delivery'[d] = item
      /\ \A x \in Deliveries : x # d => delivery'[x] = delivery[x]
  BY <1>0, <1>1, <1>3 DEF TypeOK
<1>6. TypeOK' BY <1>0, <1>1, <1>5 DEF TypeOK, intakeVars, runVars
<1>7. Grows BY <1>1, <1>5, RowsSame DEF Grows, ProofsGrow
<1>8. RunInv' /\ LiveRunIsActive' BY <1>1, RowsSame
<1>9. HeldInv' BY <1>0, <1>1, <1>6, <1>7, HeldKept DEF HeldInv
<1>10. DeliveryInv' BY <1>0, <1>1, <1>4, <1>5 DEF DeliveryInv, runVars
<1>11. PassIsEarned' BY <1>0, <1>1, <1>7, PassKept
<1>12. ReviewInv' BY <1>0, <1>1, <1>6, <1>7, ReviewsKept, ReportsKept
<1>13. ClosureStandsOnChain' /\ ClosedInv' BY <1>0, <1>1, <1>6, <1>7, ClosuresKept
<1> QED BY <1>6, <1>7, <1>8, <1>9, <1>10, <1>11, <1>12, <1>13 DEF IInv

LEMMA CreateDeliveryStep ==
  ASSUME IInv, NEW d \in Deliveries, NEW r \in Runs, NEW content \in Contents,
         CreateDelivery(d, r, content)
  PROVE  IInv' /\ Grows
BY DeliveryStep DEF CreateDelivery, DeliveryIsNew, MemoryDelivery

LEMMA CreateEvidenceStep ==
  ASSUME IInv, NEW item \in Evidence, CreateEvidence(item)
  PROVE  IInv' /\ Grows
<1>0. /\ TypeOK /\ RunInv /\ HeldInv /\ LiveRunIsActive /\ DeliveryInv /\ PassIsEarned
      /\ ReviewInv /\ ClosureStandsOnChain /\ ClosedInv
  BY DEF IInv
<1>1. /\ evidence' = evidence \cup {item}
      /\ UNCHANGED <<intakeVars, runVars, delivery, report, review, closure, handler>>
  BY DEF CreateEvidence
<1>2. TypeOK' BY <1>0, <1>1 DEF TypeOK, intakeVars, runVars
<1>3. Grows BY <1>1, RowsSame DEF Grows, ProofsGrow
<1>4. RunInv' /\ LiveRunIsActive' BY <1>1, RowsSame
<1>5. HeldInv' BY <1>0, <1>1, <1>2, <1>3, HeldKept DEF HeldInv
<1>6. DeliveryInv' BY <1>0, <1>1, <1>2, <1>3, DeliveryKept
<1>7. PassIsEarned' BY <1>0, <1>1, <1>3, PassKept
<1>8. ReviewInv' BY <1>0, <1>1, <1>2, <1>3, ReviewsKept, ReportsKept
<1>9. ClosureStandsOnChain' /\ ClosedInv' BY <1>0, <1>1, <1>2, <1>3, ClosuresKept
<1> QED BY <1>2, <1>3, <1>4, <1>5, <1>6, <1>7, <1>8, <1>9 DEF IInv

(* What a PASS is computed from. *)
LEMMA EvaluatedOnSubject ==
  ASSUME NEW d, NEW cited \in SUBSET evidence, Evaluate(d, cited) = "PASS",
         NEW q \in Requirements
  PROVE  \E e \in evidence : /\ delivery[e.delivery] = delivery[d]
                             /\ e.requirement = q /\ e.result = "PASS"
<1>1. Satisfied(q, d, cited) BY DEF Evaluate
<1> QED BY <1>1 DEF Satisfied, Subject

LEMMA CreateVerificationStep ==
  ASSUME IInv, NEW v \in Reports, NEW d \in Deliveries, NEW p \in People,
         NEW cited \in SUBSET evidence, CreateVerification(v, d, p, cited)
  PROVE  IInv' /\ Grows
<1> DEFINE item == [delivery |-> d, verifier |-> p, result |-> Evaluate(d, cited)]
<1>0. /\ TypeOK /\ RunInv /\ HeldInv /\ LiveRunIsActive /\ DeliveryInv /\ PassIsEarned
      /\ ReviewInv /\ ClosureStandsOnChain /\ ClosedInv
  BY DEF IInv
<1>1. /\ report[v] = None /\ delivery[d] # None
      /\ report' = [report EXCEPT ![v] = item]
      /\ UNCHANGED <<intakeVars, runVars, delivery, evidence, review, closure, handler>>
  BY DEF CreateVerification, ReportIsNew
<1>2. Evaluate(d, cited) \in {"PASS", "FAIL"} BY DEF Evaluate
<1>3. item \in Report BY <1>2 DEF Report
<1>4. item.delivery = d /\ item.result = Evaluate(d, cited) OBVIOUS
<1> HIDE DEF item
<1>5. /\ report' \in [Reports -> Report \cup {None}] /\ report'[v] = item
      /\ \A x \in Reports : x # v => report'[x] = report[x]
  BY <1>0, <1>1, <1>3 DEF TypeOK
<1>6. TypeOK' BY <1>0, <1>1, <1>5 DEF TypeOK, intakeVars, runVars
<1>7. Grows BY <1>1, <1>5, RowsSame DEF Grows, ProofsGrow
<1>8. RunInv' /\ LiveRunIsActive' BY <1>1, RowsSame
<1>9. HeldInv' BY <1>0, <1>1, <1>6, <1>7, HeldKept DEF HeldInv
<1>10. DeliveryInv' BY <1>0, <1>1, <1>6, <1>7, DeliveryKept
<1>11. PassIsEarned'
  <2> SUFFICES ASSUME NEW x \in Reports, report'[x] # None, report'[x].result = "PASS",
                      NEW q \in Requirements
               PROVE  \E e \in evidence : /\ delivery[e.delivery] = delivery[report'[x].delivery]
                                           /\ e.requirement = q /\ e.result = "PASS"
    BY <1>1 DEF PassIsEarned, Subject
  <2>1. CASE x = v BY <1>1, <1>4, <1>5, <2>1, EvaluatedOnSubject
  <2>2. CASE x # v BY <1>0, <1>5, <2>2 DEF PassIsEarned, Subject
  <2> QED BY <2>1, <2>2
<1>12. \A x \in Reports : report'[x] # None => delivery'[report'[x].delivery] # None
  BY <1>0, <1>1, <1>4, <1>5 DEF ReviewInv
<1>13. ReviewInv' BY <1>0, <1>1, <1>6, <1>7, <1>12, ReviewsKept
<1>14. ClosureStandsOnChain' /\ ClosedInv' BY <1>0, <1>1, <1>6, <1>7, ClosuresKept
<1> QED BY <1>6, <1>7, <1>8, <1>9, <1>10, <1>11, <1>13, <1>14 DEF IInv

LEMMA CommitReviewStep ==
  ASSUME IInv, NEW h \in Handlers, CommitReview(h)
  PROVE  IInv' /\ Grows
<1> DEFINE q == handler[h]
           d == q.delivery
           v == q.report
           w == delivery[d].task.work
           item == [delivery |-> d, report |-> v, task |-> delivery[d].task,
                    reviewer |-> q.reviewer, result |-> q.result]
           to == IF q.result = "PASS" THEN "REVIEWING" ELSE work[w].state
           new == Written(work[w], to, work[w].task, work[w].run)
<1>0. /\ TypeOK /\ RunInv /\ HeldInv /\ LiveRunIsActive /\ DeliveryInv /\ PassIsEarned
      /\ ReviewInv /\ ClosureStandsOnChain /\ ClosedInv /\ q.op = "review"
  BY DEF IInv, CommitReview, Holds
<1>1. CASE ~CanReview(q)
  BY <1>1, GiveUpStep DEF CommitReview, intakeVars, proofVars
<1>2. CASE CanReview(q)
  <2>1. /\ q.id \in Reviews /\ d \in Deliveries /\ v \in Reports
        /\ q.reviewer \in People /\ q.result \in {"PASS", "FAIL"}
    BY <1>0, HeldTypes
  <2>2. /\ Verified(d, v) /\ InState(d, "VERIFYING") /\ Reviewer(q.reviewer, d, v)
        /\ review[q.id] = None
    BY <1>2 DEF CanReview
  <2>3. delivery[d].task \in Tasks /\ w \in Works
    BY <1>0, <2>1, <2>2, DeliveryFields DEF Verified
  <2>4. work[w] \in WorkRow /\ work[w].state = "VERIFYING"
    BY <1>0, <2>2, <2>3 DEF TypeOK, InState
  <2>5. /\ review' = [review EXCEPT ![q.id] = item] /\ work' = [work EXCEPT ![w] = new]
        /\ Finish(h) /\ UNCHANGED <<frozen, runVars, delivery, evidence, report, closure>>
    BY <1>2 DEF CommitReview
  <2>6. item \in Review BY <2>1, <2>3 DEF Review
  <2>7. /\ item.delivery = d /\ item.report = v /\ item.task = delivery[d].task
        /\ item.reviewer = q.reviewer
    OBVIOUS
  <2>8. /\ to \in WorkStates /\ to \in {"VERIFYING", "REVIEWING"}
        /\ work[w].task \in Tasks \cup {None} /\ work[w].run \in Runs \cup {None}
    BY <2>4 DEF WorkStates, WorkRow
  <2> HIDE DEF item, to
  <2>9. /\ new \in WorkRow /\ new.state = to /\ new.run = work[w].run
        /\ new.task = work[w].task
        /\ new.owner = work[w].owner /\ new.version = work[w].version + 1
    <3> HIDE DEF w
    <3> QED BY <2>4, <2>8, WrittenType
  <2> HIDE DEF new
  <2>10. /\ work' \in [Works -> WorkRow] /\ work'[w] = new
         /\ \A x \in Works : x # w => work'[x] = work[x]
    BY <1>0, <2>3, <2>5, <2>9, WorkUpdated
  <2>11. /\ review' \in [Reviews -> Review \cup {None}] /\ review'[q.id] = item
         /\ \A x \in Reviews : x # q.id => review'[x] = review[x]
    BY <1>0, <2>1, <2>5, <2>6 DEF TypeOK
  <2>12. TypeOK' BY <1>0, <2>5, <2>10, <2>11, FinishType DEF TypeOK, runVars
  <2>13. RowsGrow
    <3>1. WorkGrows(w) BY <2>4, <2>8, <2>9, <2>10 DEF WorkGrows, Advance
    <3>2. \A x \in Works : WorkGrows(x) BY <2>10, <3>1 DEF WorkGrows
    <3>3. \A r \in Runs : RunGrows(r) BY <1>0, <2>5, RunUnchanged DEF runVars
    <3> QED BY <2>5, <3>2, <3>3 DEF RowsGrow
  <2>14. Grows BY <2>2, <2>5, <2>11, <2>13 DEF Grows, ProofsGrow
  <2>15. RunInv' BY <1>0, <2>5 DEF RunInv, runVars
  <2>16. LiveRunIsActive' BY <1>0, <2>3, <2>4, <2>5, <2>10, LiveKept DEF runVars
  <2>17. HeldInv'
    <3> SUFFICES ASSUME NEW x \in Handlers PROVE Held(x)' BY DEF HeldInv
    <3>1. CASE x = h BY <1>0, <2>5, <3>1, FinishType DEF Held, Idle, Controls
    <3>2. CASE x # h BY <1>0, <2>5, <2>12, <2>14, <3>2, FinishType, HeldKept
    <3> QED BY <3>1, <3>2
  <2>18. DeliveryInv' BY <1>0, <2>5, <2>12, <2>14, DeliveryKept
  <2>19. PassIsEarned' BY <1>0, <2>5, <2>14, PassKept
  <2>20. ReviewInv'
    <3>1. ASSUME NEW n \in Reviews, review'[n] # None PROVE ReviewStands(n)'
      <4>1. CASE n = q.id
        <5>1. work'[w].state # "ABSENT" /\ work'[w].owner = work[w].owner
          BY <2>8, <2>9, <2>10
        <5>2. /\ review'[n].delivery = d /\ review'[n].report = v
              /\ review'[n].task = delivery[d].task /\ review'[n].reviewer = q.reviewer
          BY <2>7, <2>11, <4>1
        <5> HIDE DEF q, d, v
        <5> QED BY <2>2, <2>5, <5>1, <5>2 DEF ReviewStands, Reviewer, Verified
      <4>2. CASE n # q.id BY <1>0, <2>11, <2>12, <2>14, <3>1, <4>2, ReviewKept
      <4> QED BY <4>1, <4>2
    <3>2. \A x \in Reports : report'[x] # None => delivery'[report'[x].delivery] # None
      BY <1>0, <2>5, <2>14, ReportsKept
    <3> QED BY <3>1, <3>2 DEF ReviewInv
  <2>21. ClosureStandsOnChain' /\ ClosedInv' BY <1>0, <2>5, <2>12, <2>14, ClosuresKept
  <2> QED BY <2>12, <2>14, <2>15, <2>16, <2>17, <2>18, <2>19, <2>20, <2>21 DEF IInv
<1> QED BY <1>1, <1>2

LEMMA CommitClosureStep ==
  ASSUME IInv, NEW h \in Handlers, CommitClosure(h)
  PROVE  IInv' /\ Grows
<1> DEFINE q == handler[h]
           d == q.delivery
           w == delivery[d].task.work
           item == [work |-> w, task |-> delivery[d].task, run |-> delivery[d].run,
                    delivery |-> d, report |-> q.report, review |-> q.review]
           new == Written(work[w], "CLOSED", q.work.task, q.work.run)
           ok == /\ ReviewOf(q.review, d, q.report) /\ closure[q.id] = None
                 /\ WorkAt(w, q.work.version) /\ InState(d, "REVIEWING")
<1>0. /\ TypeOK /\ RunInv /\ HeldInv /\ LiveRunIsActive /\ DeliveryInv /\ PassIsEarned
      /\ ReviewInv /\ ClosureStandsOnChain /\ ClosedInv /\ q.op = "close"
  BY DEF IInv, CommitClosure, Holds
<1>1. CASE ~ok
  BY <1>1, GiveUpStep DEF CommitClosure, intakeVars, proofVars
<1>2. CASE ok
  <2>1. /\ q.id \in Closures /\ d \in Deliveries /\ q.report \in Reports
        /\ q.review \in Reviews
    BY <1>0, HeldTypes
  <2>2. /\ ReviewOf(q.review, d, q.report) /\ closure[q.id] = None
        /\ InState(d, "REVIEWING")
    BY <1>2
  <2>3. /\ Verified(d, q.report) /\ q.work.task = delivery[d].task
        /\ q.work.run = delivery[d].run
    BY <1>0 DEF HeldInv, Held
  <2>4. delivery[d].task \in Tasks /\ w \in Works /\ delivery[d].run \in Runs
    BY <1>0, <2>1, <2>3, DeliveryFields DEF Verified
  <2>5. work[w] \in WorkRow /\ work[w].state = "REVIEWING" /\ work[w].task = delivery[d].task
        /\ work[w].run = delivery[d].run
    BY <1>0, <2>2, <2>4 DEF TypeOK, InState
  <2>6. /\ closure' = [closure EXCEPT ![q.id] = item] /\ work' = [work EXCEPT ![w] = new]
        /\ Finish(h) /\ UNCHANGED <<frozen, runVars, delivery, evidence, report, review>>
    BY <1>2 DEF CommitClosure
  <2>7. item \in Closure BY <2>1, <2>4 DEF Closure
  <2>8. /\ item.work = w /\ item.task = delivery[d].task /\ item.run = delivery[d].run
        /\ item.delivery = d /\ item.report = q.report /\ item.review = q.review
    OBVIOUS
  <2>9. /\ new \in WorkRow /\ new.state = "CLOSED" /\ new.run = delivery[d].run
        /\ new.task = delivery[d].task
        /\ new.owner = work[w].owner /\ new.version = work[w].version + 1
    <3>1. /\ "CLOSED" \in WorkStates /\ q.work.task \in Tasks \cup {None}
          /\ q.work.run \in Runs \cup {None}
      BY <2>3, <2>4 DEF WorkStates
    <3>2. PICK old \in WorkRow, t \in Tasks \cup {None}, r \in Runs \cup {None} :
            old = work[w] /\ t = q.work.task /\ r = q.work.run
      BY <2>5, <3>1
    <3>3. /\ Written(old, "CLOSED", t, r) \in WorkRow
          /\ Written(old, "CLOSED", t, r).state = "CLOSED"
          /\ Written(old, "CLOSED", t, r).run = r /\ Written(old, "CLOSED", t, r).task = t
          /\ Written(old, "CLOSED", t, r).owner = old.owner
          /\ Written(old, "CLOSED", t, r).version = old.version + 1
      BY <3>1, WrittenType
    <3>4. new = Written(old, "CLOSED", t, r) BY <3>2
    <3> HIDE DEF new
    <3> QED BY <2>3, <3>2, <3>3, <3>4
  <2> HIDE DEF item, new
  <2>10. /\ work' \in [Works -> WorkRow] /\ work'[w] = new
         /\ \A x \in Works : x # w => work'[x] = work[x]
    BY <1>0, <2>4, <2>6, <2>9, WorkUpdated
  <2>11. /\ closure' \in [Closures -> Closure \cup {None}] /\ closure'[q.id] = item
         /\ \A x \in Closures : x # q.id => closure'[x] = closure[x]
    BY <1>0, <2>1, <2>6, <2>7 DEF TypeOK
  <2>12. TypeOK' BY <1>0, <2>6, <2>10, <2>11, FinishType DEF TypeOK, runVars
  <2>13. RowsGrow
    <3>1. WorkGrows(w) BY <2>5, <2>9, <2>10 DEF WorkGrows, Advance
    <3>2. \A x \in Works : WorkGrows(x) BY <2>10, <3>1 DEF WorkGrows
    <3>3. \A r \in Runs : RunGrows(r) BY <1>0, <2>6, RunUnchanged DEF runVars
    <3> QED BY <2>6, <3>2, <3>3 DEF RowsGrow
  <2>14. Grows BY <2>2, <2>6, <2>11, <2>13 DEF Grows, ProofsGrow
  <2>15. RunInv' BY <1>0, <2>6 DEF RunInv, runVars
  <2>16. LiveRunIsActive' BY <1>0, <2>4, <2>5, <2>6, <2>10, LiveKept DEF runVars
  <2>17. HeldInv'
    <3> SUFFICES ASSUME NEW x \in Handlers PROVE Held(x)' BY DEF HeldInv
    <3>1. CASE x = h BY <1>0, <2>6, <3>1, FinishType DEF Held, Idle, Controls
    <3>2. CASE x # h BY <1>0, <2>6, <2>12, <2>14, <3>2, FinishType, HeldKept
    <3> QED BY <3>1, <3>2
  <2>18. DeliveryInv' BY <1>0, <2>6, <2>12, <2>14, DeliveryKept
  <2>19. PassIsEarned' BY <1>0, <2>6, <2>14, PassKept
  <2>20. ReviewInv' BY <1>0, <2>6, <2>12, <2>14, ReviewsKept, ReportsKept
  (* The new chain, from what the review and the delivery stand on. *)
  <2>21. ReviewStands(q.review) BY <1>0, <2>1, <2>2 DEF ReviewInv, ReviewOf
  <2>22. ASSUME NEW c \in Closures, c = q.id PROVE ChainStands(c)'
    <3>1. /\ run[delivery[d].run].state = "COMPLETED"
          /\ run[delivery[d].run].task = delivery[d].task
      BY <1>0, <2>1, <2>3 DEF DeliveryInv, Verified
    <3>2. delivery[d].task \in frozen
      BY <1>0, <2>4, <3>1 DEF RunInv
    <3>3. review[q.review].reviewer \notin {report[q.report].verifier, work[w].owner}
      BY <2>2, <2>21 DEF ReviewStands, Reviewer, ReviewOf
    <3>4. /\ review[q.review].result = "PASS" /\ review[q.review].delivery = d
          /\ review[q.review].report = q.report
          /\ report[q.report].delivery = d /\ report[q.report].result = "PASS"
      BY <2>2, <2>3 DEF ReviewOf, Verified
    <3>5. work'[w] = new BY <2>10
    <3>6. /\ closure'[c].work = w /\ closure'[c].task = delivery[d].task
          /\ closure'[c].run = delivery[d].run /\ closure'[c].delivery = d
          /\ closure'[c].report = q.report /\ closure'[c].review = q.review
      BY <2>8, <2>11, <2>22
    <3>7. UNCHANGED <<frozen, run, delivery, report, review>> BY <2>6 DEF runVars
    <3>8. /\ work'[w].state = "CLOSED" /\ work'[w].task = delivery[d].task
          /\ work'[w].run = delivery[d].run /\ work'[w].owner = work[w].owner
      BY <2>9, <3>5
    <3> HIDE DEF q, d
    <3> QED BY <3>1, <3>2, <3>3, <3>4, <3>6, <3>7, <3>8 DEF ChainStands
  <2>23. \A c \in Closures : closure[c] # None => closure[c].work # w
    BY <1>0, <2>5 DEF ClosureStandsOnChain
  <2>24. ClosureStandsOnChain'
    <3> SUFFICES ASSUME NEW c \in Closures, closure'[c] # None
                 PROVE  /\ ChainStands(c)'
                        /\ \A x \in Closures :
                             closure'[x] # None /\ closure'[x].work = closure'[c].work => x = c
      BY DEF ClosureStandsOnChain, ChainStands
    <3>1. ChainStands(c)'
      BY <1>0, <2>11, <2>12, <2>14, <2>22, ChainKept
    <3>2. ASSUME NEW x \in Closures, closure'[x] # None, closure'[x].work = closure'[c].work
          PROVE  x = c
      <4>1. CASE x # q.id /\ c # q.id
        BY <1>0, <2>11, <3>2, <4>1 DEF ClosureStandsOnChain
      <4>2. CASE x = q.id \/ c = q.id
        BY <2>8, <2>11, <2>23, <3>2, <4>2
      <4> QED BY <4>1, <4>2
    <3> QED BY <3>1, <3>2
  <2>25. ClosedInv'
    <3> SUFFICES ASSUME NEW c \in Closures, closure'[c] # None
                 PROVE  /\ delivery'[closure'[c].delivery] # None
                        /\ report'[closure'[c].report] # None
                        /\ review'[closure'[c].review] # None
      BY DEF ClosedInv
    <3>1. CASE c = q.id
      BY <2>2, <2>3, <2>6, <2>8, <2>11, <3>1 DEF Verified, ReviewOf
    <3>2. CASE c # q.id
      BY <1>0, <2>6, <2>11, <3>2 DEF ClosedInv
    <3> QED BY <3>1, <3>2
  <2> QED BY <2>12, <2>14, <2>15, <2>16, <2>17, <2>18, <2>19, <2>20, <2>24, <2>25 DEF IInv
<1> QED BY <1>1, <1>2

-----------------------------------------------------------------------------
(* The theorems. *)

LEMMA InitIInv == Init => IInv
<1> SUFFICES ASSUME Init PROVE IInv OBVIOUS
<1> USE DEF Init
<1>1. AbsentWork \in WorkRow BY DEF AbsentWork, WorkRow
<1>2. AbsentRun \in RunRow BY DEF AbsentRun, RunRow, Owners
<1>3. NewSession(0) \in SessionRecord BY NewSessionType
<1>4. Idle \in Request BY DEF Request
<1>5. TypeOK BY <1>1, <1>2, <1>3, <1>4 DEF TypeOK
<1>6. \A r \in Runs : run[r].state = "ABSENT" BY DEF AbsentRun
<1>7. RunInv BY <1>6 DEF RunInv
<1>8. HeldInv BY DEF HeldInv, Held, Idle, Controls
<1>9. LiveRunIsActive BY <1>6 DEF LiveRunIsActive, Live
<1>10. DeliveryInv BY DEF DeliveryInv
<1>11. PassIsEarned BY DEF PassIsEarned
<1>12. ReviewInv BY DEF ReviewInv
<1>13. ClosureStandsOnChain BY DEF ClosureStandsOnChain
<1>14. ClosedInv BY DEF ClosedInv
<1> QED BY <1>5, <1>7, <1>8, <1>9, <1>10, <1>11, <1>12, <1>13, <1>14 DEF IInv

LEMMA NextStep ==
  ASSUME IInv, [Next]_vars
  PROVE  IInv' /\ Grows
<1>1. CASE Intake
  BY <1>1, CreateWorkStep, ReadFreezeStep, CommitFreezeStep DEF Intake
<1>2. CASE Execution
  BY <1>2, ReadStartStep, ReadControlStep, ReadCheckpointStep, ReadCompleteStep,
     CommitStartStep, CommitControlStep, CommitCheckpointStep, ReadCompleteWorkStep,
     CommitCompleteStep, ContinueStep
  DEF Execution
<1>3. CASE Qualification
  BY <1>3, CreateDeliveryStep, CreateVerificationStep, CreateEvidenceStep, ReadReviewStep,
     ReadClosureStep, CommitReviewStep, CommitClosureStep
  DEF Qualification
<1>4. CASE \E h \in Handlers : Drop(h) BY <1>4, DropStep
<1>5. CASE UNCHANGED vars BY <1>5, StutterStep
<1> QED BY <1>1, <1>2, <1>3, <1>4, <1>5 DEF Next

(* The inductive invariant of the lifecycle: types, the agreement of run   *)
(* and session rows, what every handler still may rely on of what it read, *)
(* and the chains of deliveries, reviews and closures.                     *)
THEOREM LifecycleInductive == Spec => []IInv
<1>1. Init => IInv BY InitIInv
<1>2. IInv /\ [Next]_vars => IInv' BY NextStep
<1> QED BY <1>1, <1>2, PTL DEF Spec

(* Every row keeps the shape the schema gives it. *)
THEOREM LifecycleTyped == Spec => []TypeOK
<1>1. IInv => TypeOK BY DEF IInv
<1> QED BY <1>1, LifecycleInductive, PTL

(* However createRun, completeRun, the controls and ContinueCodex          *)
(* interleave, a live run is the active run of the executing work its task *)
(* belongs to.                                                             *)
THEOREM OneRunAtATime == Spec => []LiveRunIsActive
<1>1. IInv => LiveRunIsActive BY DEF IInv
<1> QED BY <1>1, LifecycleInductive, PTL

(* No PASS verification without PASS evidence on its own subject for every *)
(* requirement (verification.Evaluate and its store).                      *)
THEOREM PassesAreEarned == Spec => []PassIsEarned
<1>1. IInv => PassIsEarned BY DEF IInv
<1> QED BY <1>1, LifecycleInductive, PTL

(* A closure receipt stands on one unbroken chain of task, run, delivery,  *)
(* verification and independent review, and is the only one of its work.   *)
THEOREM ClosuresStand == Spec => []ClosureStandsOnChain
<1>1. IInv => ClosureStandsOnChain BY DEF IInv
<1> QED BY <1>1, LifecycleInductive, PTL

(* A handler that read a run before a takeover, a continuation or its      *)
(* completion cannot undo it.                                              *)
THEOREM EpochsAreFenced == Spec => EpochsFence
<1>1. ASSUME IInv, IInv', [Next]_vars, NEW r \in Runs, run[r].state # "ABSENT"
      PROVE  /\ run'[r].epoch >= run[r].epoch
             /\ run[r].owner = "HUMAN" => run'[r].owner = "HUMAN"
             /\ Terminal(run[r]) => run'[r] = run[r] /\ session'[r] = session[r]
             /\ run'[r].epoch = session'[r].epoch /\ run'[r].owner = session'[r].owner
  <2>1. RunGrows(r) BY <1>1, NextStep DEF Grows, RowsGrow
  <2>2. RunInv' BY <1>1 DEF IInv
  <2> QED BY <1>1, <2>1, <2>2 DEF RunGrows, RunInv
<1>2. IInv /\ IInv' /\ [Next]_vars =>
        [\A r \in Runs : run[r].state # "ABSENT" =>
           /\ run'[r].epoch >= run[r].epoch
           /\ run[r].owner = "HUMAN" => run'[r].owner = "HUMAN"
           /\ Terminal(run[r]) => run'[r] = run[r] /\ session'[r] = session[r]
           /\ run'[r].epoch = session'[r].epoch /\ run'[r].owner = session'[r].owner]_vars
  BY <1>1
<1> QED BY <1>2, LifecycleInductive, PTL DEF Spec, EpochsFence

(* No update of a work item is lost and none moves it backwards. *)
THEOREM WorksMoveForward == Spec => WorkMovesForward
<1>1. ASSUME IInv, [Next]_vars, NEW w \in Works, work[w].state # "ABSENT", work'[w] # work[w]
      PROVE  /\ work'[w].version = work[w].version + 1
             /\ Advance(work[w].state, work'[w].state)
             /\ work'[w].owner = work[w].owner
             /\ work[w].state \notin {"DRAFT", "READY"} => work'[w].task = work[w].task
             /\ work'[w].run # work[w].run => work[w].state \in {"READY", "EXECUTING"}
  <2>1. WorkGrows(w) BY <1>1, NextStep DEF Grows, RowsGrow
  <2> QED BY <1>1, <2>1 DEF WorkGrows
<1>2. IInv /\ [Next]_vars =>
        [\A w \in Works : work[w].state # "ABSENT" /\ work'[w] # work[w] =>
           /\ work'[w].version = work[w].version + 1
           /\ Advance(work[w].state, work'[w].state)
           /\ work'[w].owner = work[w].owner
           /\ work[w].state \notin {"DRAFT", "READY"} => work'[w].task = work[w].task
           /\ work'[w].run # work[w].run =>
                work[w].state \in {"READY", "EXECUTING"}]_vars
  BY <1>1
<1> QED BY <1>2, LifecycleInductive, PTL DEF Spec, WorkMovesForward

(* On PostgreSQL the unique subject_digest makes the evidence of a PASS    *)
(* evidence on the very delivery the report names.                         *)
THEOREM SubjectsAreUnique == Spec => []SubjectDeliveredOnce
<1>1. Init => SubjectDeliveredOnce BY DEF Init, SubjectDeliveredOnce
<1>2. ASSUME IInv, SubjectDeliveredOnce, [Next]_vars
      PROVE  SubjectDeliveredOnce'
  <2>1. CASE delivery' = delivery BY <1>2, <2>1 DEF SubjectDeliveredOnce
  <2>2. ASSUME NEW d \in Deliveries, NEW r \in Runs, NEW content \in Contents,
               CreateDelivery(d, r, content)
        PROVE  SubjectDeliveredOnce'
    <3> DEFINE item == [run |-> r, task |-> run[r].task, content |-> content]
    <3>1. /\ \A x \in Deliveries : delivery[x] # item
          /\ delivery' = [delivery EXCEPT ![d] = item]
      BY <2>2 DEF CreateDelivery, DeliveryIsNew
    <3> HIDE DEF item
    <3>2. \A x \in Deliveries : delivery'[x] = IF x = d THEN item ELSE delivery[x]
      BY <1>2, <3>1 DEF IInv, TypeOK
    <3> QED BY <1>2, <3>1, <3>2 DEF SubjectDeliveredOnce
  <2>3. \/ delivery' = delivery
        \/ \E d \in Deliveries, r \in Runs, content \in Contents : CreateDelivery(d, r, content)
    <3> USE DEF intakeVars, runVars, proofVars
    <3>1. CASE Intake BY <3>1 DEF Intake, CreateWork, ReadFreeze, CommitFreeze
    <3>2. CASE Execution
      BY <3>2 DEF Execution, ReadStart, ReadControl, ReadCheckpoint, ReadComplete, CommitStart,
                  CommitControl, CommitCheckpoint, ReadCompleteWork, CommitComplete, Continue
    <3>3. CASE Qualification
      <4>1. ASSUME NEW h \in Handlers, CommitReview(h) \/ CommitClosure(h)
            PROVE  delivery' = delivery
        BY <4>1 DEF CommitReview, CommitClosure
      <4>2. ASSUME NEW h, NEW n, NEW d, NEW v,
                   \/ \E p \in People, result \in {"PASS", "FAIL"} : ReadReview(h, n, d, v, p, result)
                   \/ \E c \in Closures : ReadClosure(h, c, d, v, n)
            PROVE  delivery' = delivery
        BY <4>2 DEF ReadReview, ReadClosure
      <4>3. ASSUME NEW v, NEW d, NEW p, NEW cited, CreateVerification(v, d, p, cited)
            PROVE  delivery' = delivery
        BY <4>3 DEF CreateVerification
      <4>4. ASSUME NEW e, CreateEvidence(e) PROVE delivery' = delivery
        BY <4>4 DEF CreateEvidence
      <4> QED BY <3>3, <4>1, <4>2, <4>3, <4>4 DEF Qualification
    <3>4. CASE \E h \in Handlers : Drop(h) BY <3>4 DEF Drop
    <3>5. CASE UNCHANGED vars BY <3>5 DEF vars
    <3> QED BY <1>2, <3>1, <3>2, <3>3, <3>4, <3>5 DEF Next
  <2> QED BY <2>1, <2>2, <2>3
<1> QED BY <1>1, <1>2, LifecycleInductive, PTL DEF Spec

-----------------------------------------------------------------------------
(* The in-memory store.  Its commits write the record the handler held;    *)
(* the invariant says that this is the stored one, so that each of them is *)
(* a commit of the PostgreSQL store, or refuses and gives the request up.  *)

LEMMA MemoryFreezeIsCommit ==
  ASSUME IInv, NEW h \in Handlers, MemoryFreeze(h)
  PROVE  CommitFreeze(h) \/ Drop(h)
<1> DEFINE q == handler[h]
           w == q.task.work
           ok == /\ Current(w, q.work) /\ work[w].state \in {"DRAFT", "READY"}
                 /\ work[w].run = None /\ NextRevision(q.task)
<1>1. q.op = "freeze" BY DEF MemoryFreeze, Holds
<1>2. CASE ~ok BY <1>1, <1>2 DEF MemoryFreeze, Drop, Free, intakeVars
<1>3. CASE ok
  <2>1. SameWork(w, q.work) BY <1>1 DEF IInv, HeldInv, Held
  <2>2. work[w] = q.work BY <1>3, <2>1 DEF SameWork, Current
  <2>3. q.task.revision = LatestRevision(q.task.id) + 1
    <3>1. CASE \E x \in frozen : x.id = q.task.id BY <1>3, <3>1 DEF NextRevision
    <3>2. CASE ~\E x \in frozen : x.id = q.task.id
      <4>1. {t.revision : t \in {x \in frozen : x.id = q.task.id}} = {} BY <3>2
      <4>2. LatestRevision(q.task.id) = 0 BY <4>1 DEF LatestRevision
      <4> QED BY <1>3, <3>2, <4>2 DEF NextRevision
    <3> QED BY <3>1, <3>2
  <2>4. CanFreeze(q) BY <1>3, <2>3 DEF CanFreeze, Current, WorkAt
  <2>5. /\ frozen' = frozen \cup {q.task}
        /\ work' = [work EXCEPT ![w] = Written(work[w], "READY", q.task, None)]
        /\ Finish(h) /\ UNCHANGED <<runVars, proofVars>>
    BY <1>3, <2>2 DEF MemoryFreeze, StoreWork
  <2> QED BY <1>1, <2>4, <2>5 DEF CommitFreeze, Holds
<1> QED BY <1>2, <1>3

LEMMA MemoryStartIsCommit ==
  ASSUME IInv, NEW h \in Handlers, MemoryStart(h)
  PROVE  CommitStart(h) \/ Drop(h)
<1> DEFINE q == handler[h]
           w == q.task.work
           ok == /\ Current(w, q.work) /\ work[w].state = "READY" /\ work[w].task = q.task
                 /\ work[w].run = None /\ q.task \in frozen /\ run[q.run].state = "ABSENT"
<1>1. q.op = "start" BY DEF MemoryStart, Holds
<1>2. CASE ~ok BY <1>1, <1>2 DEF MemoryStart, Drop, Free, intakeVars, runVars
<1>3. CASE ok
  <2>1. SameWork(w, q.work) BY <1>1 DEF IInv, HeldInv, Held
  <2>2. work[w] = q.work BY <1>3, <2>1 DEF SameWork, Current
  <2>3. CanStart(q) BY <1>3 DEF CanStart, Current, WorkAt
  <2>4. /\ run' = [run EXCEPT ![q.run] = StartedRun(q.task)]
        /\ session' = [session EXCEPT ![q.run] = NewSession(run'[q.run].epoch)]
        /\ work' = [work EXCEPT ![w] = Written(work[w], "EXECUTING", q.task, q.run)]
        /\ Finish(h) /\ UNCHANGED <<frozen, checkpoint, proofVars>>
    BY <1>3, <2>2 DEF MemoryStart, StoreWork
  <2> QED BY <1>1, <2>3, <2>4 DEF CommitStart, Holds
<1> QED BY <1>2, <1>3

LEMMA MemoryControlIsCommit ==
  ASSUME IInv, NEW h \in Handlers, MemoryControl(h)
  PROVE  CommitControl(h) \/ Drop(h)
<1> DEFINE q == handler[h]
<1>1. q.op \in Controls BY DEF MemoryControl
<1>2. CASE ~CurrentRun(q.run, q.row)
  BY <1>1, <1>2 DEF MemoryControl, Drop, Free, Controls, runVars
<1>3. CASE CurrentRun(q.run, q.row)
  <2>1. CanControl(q) BY <1>3 DEF CurrentRun, CanControl, RunAt
  <2> QED BY <1>1, <1>3, <2>1 DEF MemoryControl, StoreRun, CommitControl
<1> QED BY <1>2, <1>3

LEMMA MemoryCompleteIsCommit ==
  ASSUME IInv, NEW h \in Handlers, MemoryComplete(h)
  PROVE  CommitComplete(h) \/ Drop(h)
<1> DEFINE q == handler[h]
           w == q.row.task.work
           ok == /\ CurrentRun(q.run, q.row) /\ Current(w, q.work)
                 /\ \A x \in {work[w], q.work} : x.task = q.row.task /\ x.run = q.run
<1>1. q.op = "complete" BY DEF MemoryComplete, Holds
<1>2. CASE ~ok BY <1>1, <1>2 DEF MemoryComplete, Drop, Free, intakeVars, runVars
<1>3. CASE ok
  <2>1. SameWork(w, q.work) BY <1>1 DEF IInv, HeldInv, Held
  <2>2. work[w] = q.work BY <1>3, <2>1 DEF SameWork, Current
  <2>3. CanComplete(q) BY <1>3 DEF CanComplete, Current, CurrentRun, WorkAt, RunAt
  <2>4. /\ run' = [run EXCEPT ![q.run] = [CompleteRun(q.row) EXCEPT !.version = @ + 1]]
        /\ session' = [session EXCEPT ![q.run] = q.session]
        /\ work' = [work EXCEPT ![w] = Written(work[w], "VERIFYING", q.work.task, q.work.run)]
        /\ Finish(h) /\ UNCHANGED <<frozen, checkpoint, proofVars>>
    BY <1>3, <2>2 DEF MemoryComplete, StoreWork, StoreRun
  <2> QED BY <1>1, <2>3, <2>4 DEF CommitComplete, Holds
<1> QED BY <1>2, <1>3

LEMMA MemoryReviewIsCommit ==
  ASSUME IInv, NEW h \in Handlers, MemoryReview(h)
  PROVE  CommitReview(h) \/ Drop(h)
<1> DEFINE q == handler[h]
           d == q.delivery
           w == delivery[d].task.work
           to == IF q.result = "PASS" THEN "REVIEWING" ELSE "VERIFYING"
           ok == /\ review[q.id] = None /\ ~Reviewed(q.report) /\ Verified(d, q.report)
                 /\ Current(w, q.work) /\ InState(d, "VERIFYING")
                 /\ Reviewer(q.reviewer, d, q.report)
<1>1. q.op = "review" BY DEF MemoryReview, Holds
<1>2. CASE ~ok BY <1>1, <1>2 DEF MemoryReview, Drop, Free, intakeVars, proofVars
<1>3. CASE ok
  <2>1. SameWork(w, q.work) BY <1>1 DEF IInv, HeldInv, Held
  <2>2. work[w] = q.work BY <1>3, <2>1 DEF SameWork, Current
  <2>3. work[w].state = "VERIFYING" BY <1>3 DEF InState
  <2>4. CanReview(q) BY <1>3 DEF CanReview, Current, Reviewed, WorkAt
  <2>5. /\ review' = [review EXCEPT ![q.id] =
                        [delivery |-> d, report |-> q.report, task |-> delivery[d].task,
                         reviewer |-> q.reviewer, result |-> q.result]]
        /\ work' = [work EXCEPT ![w] = Written(work[w], to, work[w].task, work[w].run)]
        /\ Finish(h) /\ UNCHANGED <<frozen, runVars, delivery, evidence, report, closure>>
    BY <1>3, <2>2 DEF MemoryReview, StoreWork
  <2>6. to = IF q.result = "PASS" THEN "REVIEWING" ELSE work[w].state BY <2>3
  <2> HIDE DEF to
  <2> QED BY <1>1, <2>4, <2>5, <2>6 DEF CommitReview, Holds
<1> QED BY <1>2, <1>3

LEMMA MemoryClosureIsCommit ==
  ASSUME IInv, NEW h \in Handlers, MemoryClosure(h)
  PROVE  CommitClosure(h) \/ Drop(h)
<1> DEFINE q == handler[h]
           d == q.delivery
           w == delivery[d].task.work
           ok == /\ closure[q.id] = None /\ ReviewOf(q.review, d, q.report)
                 /\ Current(w, q.work) /\ InState(d, "REVIEWING")
<1>1. q.op = "close" BY DEF MemoryClosure, Holds
<1>2. CASE ~ok BY <1>1, <1>2 DEF MemoryClosure, Drop, Free, intakeVars, proofVars
<1>3. CASE ok
  <2>1. SameWork(w, q.work) BY <1>1 DEF IInv, HeldInv, Held
  <2>2. work[w] = q.work BY <1>3, <2>1 DEF SameWork, Current
  <2>3. /\ ReviewOf(q.review, d, q.report) /\ closure[q.id] = None
        /\ WorkAt(w, q.work.version) /\ InState(d, "REVIEWING")
    BY <1>3 DEF Current, WorkAt
  <2>4. /\ closure' = [closure EXCEPT ![q.id] =
                        [work |-> w, task |-> delivery[d].task, run |-> delivery[d].run,
                         delivery |-> d, report |-> q.report, review |-> q.review]]
        /\ work' = [work EXCEPT ![w] = Written(work[w], "CLOSED", q.work.task, q.work.run)]
        /\ Finish(h) /\ UNCHANGED <<frozen, runVars, delivery, evidence, report, review>>
    BY <1>3, <2>2 DEF MemoryClosure, StoreWork
  <2> QED BY <1>1, <2>3, <2>4 DEF CommitClosure, Holds
<1> QED BY <1>2, <1>3

(* Every step of the in-memory store is one of the PostgreSQL store, but   *)
(* for the delivery of a subject that was delivered before.                *)
THEOREM MemoryStepIsStep ==
  ASSUME IInv, MemoryNext
  PROVE  \/ Next
         \/ \E d \in Deliveries, r \in Runs, content \in Contents : MemoryDelivery(d, r, content)
<1>1. CASE MemoryIntake
  <2>1. ASSUME NEW w \in Works, NEW p \in People, NEW c \in Creations, MemoryCreateWork(w, p, c)
        PROVE  CreateWork(w, p, c)
    BY <2>1 DEF MemoryCreateWork, CreateWork, WorkIsNew
  <2>2. Intake \/ \E h \in Handlers : Drop(h)
    BY <1>1, <2>1, MemoryFreezeIsCommit DEF MemoryIntake, Intake
  <2> QED BY <2>2 DEF Next
<1>2. CASE MemoryExecution
  <2>1. ASSUME NEW h \in Handlers, MemoryCheckpoint(h) PROVE CommitCheckpoint(h)
    BY <2>1 DEF MemoryCheckpoint, CommitCheckpoint
  <2>2. Execution \/ \E h \in Handlers : Drop(h)
    BY <1>2, <2>1, MemoryStartIsCommit, MemoryControlIsCommit, MemoryCompleteIsCommit
    DEF MemoryExecution, Execution
  <2> QED BY <2>2 DEF Next
<1>3. CASE MemoryQualification
  <2>1. ASSUME NEW v \in Reports, NEW d \in Deliveries, NEW p \in People,
               NEW cited \in SUBSET evidence, MemoryVerification(v, d, p, cited)
        PROVE  CreateVerification(v, d, p, cited)
    BY <2>1 DEF MemoryVerification, CreateVerification, ReportIsNew
  <2>2. ASSUME NEW item \in Evidence, MemoryEvidence(item) PROVE CreateEvidence(item)
    BY <2>2 DEF MemoryEvidence, CreateEvidence, EvidenceFits
  <2>3. \/ Qualification \/ \E h \in Handlers : Drop(h)
        \/ \E d \in Deliveries, r \in Runs, content \in Contents : MemoryDelivery(d, r, content)
    BY <1>3, <2>1, <2>2, MemoryReviewIsCommit, MemoryClosureIsCommit
    DEF MemoryQualification, Qualification
  <2> QED BY <2>3 DEF Next
<1>4. CASE \E h \in Handlers : Drop(h) BY <1>4 DEF Next
<1> QED BY <1>1, <1>2, <1>3, <1>4 DEF MemoryNext

(* The in-memory store keeps the same invariant, with its properties: one  *)
(* live run per work, earned verifications, closures on one chain.         *)
THEOREM MemoryStoreSafe ==
  MemorySpec => [](LiveRunIsActive /\ PassIsEarned /\ ClosureStandsOnChain)
<1>1. Init => IInv BY InitIInv
<1>2. IInv /\ [MemoryNext]_vars => IInv'
  BY MemoryStepIsStep, DeliveryStep, NextStep, StutterStep
<1>3. IInv => LiveRunIsActive /\ PassIsEarned /\ ClosureStandsOnChain BY DEF IInv
<1> QED BY <1>1, <1>2, <1>3, PTL DEF MemorySpec

=============================================================================
