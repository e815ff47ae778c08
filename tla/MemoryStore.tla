---------------------------- MODULE MemoryStore ----------------------------
(***************************************************************************)
(* The work lifecycle on the in-memory store (internal/store/memory.go),   *)
(* which the control plane uses in development mode and the handlers' own  *)
(* tests use throughout.  The handlers and what they read are those of     *)
(* WorkLifecycle; every write is one critical section of the store's       *)
(* mutex, which stores the records it is given under maps of its own.      *)
(*                                                                         *)
(* It has no worker lane and no continuation.  A handler whose context     *)
(* ends before it has the mutex is Drop.                                   *)
(***************************************************************************)
EXTENDS WorkLifecycle

(* The stored work is there and has the version the handler read. *)
Current(w, seen) == work[w].state # "ABSENT" /\ work[w].version = seen.version

(* The record of the handler replaces the stored one, one version later. *)
StoreWork(w, seen, state, task, r) == work' = [work EXCEPT ![w] = Written(seen, state, task, r)]

MemoryCreateWork(w, p, c) ==
  /\ work[w].state = "ABSENT"
  /\ work' = [work EXCEPT ![w] = [state |-> c.state, version |-> 1, owner |-> p,
                                  task |-> c.task, run |-> c.run]]
  /\ UNCHANGED <<frozen, runVars, proofVars, handler>>

(* tasks and latestTaskRev: a contract begins with revision 1 and grows by *)
(* one.                                                                    *)
NextRevision(t) ==
  /\ t \notin frozen
  /\ IF \E x \in frozen : x.id = t.id
     THEN t.revision = LatestRevision(t.id) + 1
     ELSE t.revision = 1

MemoryFreeze(h) ==
  LET q == handler[h]
      w == q.task.work
  IN
  /\ Holds(h, "freeze")
  /\ IF /\ Current(w, q.work)
        /\ work[w].state \in {"DRAFT", "READY"} /\ work[w].run = None
        /\ NextRevision(q.task)
     THEN /\ frozen' = frozen \cup {q.task}
          /\ StoreWork(w, q.work, "READY", q.task, None)
     ELSE UNCHANGED intakeVars
  /\ Finish(h)
  /\ UNCHANGED <<runVars, proofVars>>

MemoryStart(h) ==
  LET q == handler[h]
      w == q.task.work
  IN
  /\ Holds(h, "start")
  /\ IF /\ Current(w, q.work)
        /\ work[w].state = "READY" /\ work[w].task = q.task /\ work[w].run = None
        /\ q.task \in frozen
        /\ run[q.run].state = "ABSENT"
     THEN /\ run' = [run EXCEPT ![q.run] = StartedRun(q.task)]
          /\ session' = [session EXCEPT ![q.run] = NewSession(run'[q.run].epoch)]
          /\ StoreWork(w, q.work, "EXECUTING", q.task, q.run)
     ELSE UNCHANGED <<run, session, work>>
  /\ Finish(h)
  /\ UNCHANGED <<frozen, checkpoint, proofVars>>

(* The stored run is there, has the version that was read and the task of  *)
(* the new record.                                                         *)
CurrentRun(r, row) ==
  run[r].state # "ABSENT" /\ run[r].version = row.version /\ run[r].task = row.task

StoreRun(r, row, s) ==
  /\ run' = [run EXCEPT ![r] = [row EXCEPT !.version = @ + 1]]
  /\ session' = [session EXCEPT ![r] = s]

MemoryControl(h) ==
  LET q == handler[h] IN
  /\ q.op \in Controls
  /\ IF CurrentRun(q.run, q.row)
     THEN StoreRun(q.run, ControlledRun(q.op, q.row), ControlledSession(q.op, q.session))
     ELSE UNCHANGED <<run, session>>
  /\ Finish(h)
  /\ UNCHANGED <<intakeVars, checkpoint, proofVars>>

MemoryCheckpoint(h) ==
  LET q == handler[h] IN
  /\ Holds(h, "checkpoint")
  /\ checkpoint' = checkpoint \cup {[run |-> q.run, epoch |-> q.epoch, at |-> run[q.run].epoch]}
  /\ Finish(h)
  /\ UNCHANGED <<intakeVars, run, session, proofVars>>

MemoryComplete(h) ==
  LET q == handler[h]
      w == q.row.task.work
  IN
  /\ Holds(h, "complete")
  /\ IF /\ CurrentRun(q.run, q.row) /\ Current(w, q.work)
        /\ \A x \in {work[w], q.work} : x.task = q.row.task /\ x.run = q.run
     THEN /\ StoreRun(q.run, CompleteRun(q.row), q.session)
          /\ StoreWork(w, q.work, "VERIFYING", q.work.task, q.work.run)
     ELSE UNCHANGED <<run, session, work>>
  /\ Finish(h)
  /\ UNCHANGED <<frozen, checkpoint, proofVars>>

-----------------------------------------------------------------------------
(* Only the id of a delivery is unique: a subject may be delivered twice. *)
MemoryDelivery(d, r, content) ==
  /\ run[r].state = "COMPLETED"
  /\ delivery[d] = None
  /\ delivery' = [delivery EXCEPT ![d] = [run |-> r, task |-> run[r].task, content |-> content]]
  /\ UNCHANGED <<intakeVars, runVars, evidence, report, review, closure, handler>>

MemoryEvidence(item) ==
  /\ delivery[item.delivery] # None
  /\ delivery[item.delivery].task \in frozen
  /\ item.requirement \in Requirements
  /\ evidence' = evidence \cup {item}
  /\ UNCHANGED <<intakeVars, runVars, delivery, report, review, closure, handler>>

MemoryVerification(v, d, p, cited) ==
  /\ report[v] = None
  /\ delivery[d] # None
  /\ report' = [report EXCEPT ![v] = [delivery |-> d, verifier |-> p, result |-> Evaluate(d, cited)]]
  /\ UNCHANGED <<intakeVars, runVars, delivery, evidence, review, closure, handler>>

(* reviewByVerification. *)
Reviewed(v) == \E n \in Reviews : review[n] # None /\ review[n].report = v

MemoryReview(h) ==
  LET q == handler[h]
      d == q.delivery
      w == delivery[d].task.work
  IN
  /\ Holds(h, "review")
  /\ IF /\ review[q.id] = None /\ ~Reviewed(q.report)
        /\ Verified(d, q.report)
        /\ Current(w, q.work) /\ InState(d, "VERIFYING")
        /\ Reviewer(q.reviewer, d, q.report)
     THEN /\ review' = [review EXCEPT ![q.id] =
                          [delivery |-> d, report |-> q.report, task |-> delivery[d].task,
                           reviewer |-> q.reviewer, result |-> q.result]]
          /\ StoreWork(w, q.work, IF q.result = "PASS" THEN "REVIEWING" ELSE "VERIFYING",
                       q.work.task, q.work.run)
     ELSE UNCHANGED <<review, work>>
  /\ Finish(h)
  /\ UNCHANGED <<frozen, runVars, delivery, evidence, report, closure>>

MemoryClosure(h) ==
  LET q == handler[h]
      d == q.delivery
      w == delivery[d].task.work
  IN
  /\ Holds(h, "close")
  /\ IF /\ closure[q.id] = None
        /\ ReviewOf(q.review, d, q.report)
        /\ Current(w, q.work) /\ InState(d, "REVIEWING")
     THEN /\ closure' = [closure EXCEPT ![q.id] =
                           [work |-> w, task |-> delivery[d].task, run |-> delivery[d].run,
                            delivery |-> d, report |-> q.report, review |-> q.review]]
          /\ StoreWork(w, q.work, "CLOSED", q.work.task, q.work.run)
     ELSE UNCHANGED <<closure, work>>
  /\ Finish(h)
  /\ UNCHANGED <<frozen, runVars, delivery, evidence, report, review>>

-----------------------------------------------------------------------------

MemoryIntake ==
  \/ \E w \in Works, p \in People, c \in Creations : MemoryCreateWork(w, p, c)
  \/ \E h \in Handlers : (\E t \in Tasks : ReadFreeze(h, t)) \/ MemoryFreeze(h)

MemoryExecution ==
  \/ \E h \in Handlers, r \in Runs :
       \/ \E t \in Tasks : ReadStart(h, r, t)
       \/ \E kind \in Controls : ReadControl(h, r, kind)
       \/ ReadCheckpoint(h, r)
       \/ ReadComplete(h, r)
  \/ \E h \in Handlers :
       \/ MemoryStart(h) \/ MemoryControl(h) \/ MemoryCheckpoint(h)
       \/ ReadCompleteWork(h) \/ MemoryComplete(h)

MemoryQualification ==
  \/ \E d \in Deliveries :
       \/ \E r \in Runs, content \in Contents : MemoryDelivery(d, r, content)
       \/ \E v \in Reports, p \in People, cited \in SUBSET evidence : MemoryVerification(v, d, p, cited)
  \/ \E item \in Evidence : MemoryEvidence(item)
  \/ \E h \in Handlers, d \in Deliveries, v \in Reports, n \in Reviews :
       \/ \E p \in People, result \in {"PASS", "FAIL"} : ReadReview(h, n, d, v, p, result)
       \/ \E c \in Closures : ReadClosure(h, c, d, v, n)
  \/ \E h \in Handlers : MemoryReview(h) \/ MemoryClosure(h)

MemoryNext ==
  \/ MemoryIntake \/ MemoryExecution \/ MemoryQualification
  \/ \E h \in Handlers : Drop(h)

MemorySpec == Init /\ [][MemoryNext]_vars
=============================================================================
