--------------------------- MODULE WorkLifecycle ---------------------------
(***************************************************************************)
(* The engineering lifecycle of Work items: from intake over a frozen Task *)
(* contract, a Run, its Delivery, Evidence, Verification and independent   *)
(* Review to Closure (the handlers of internal/api on the PostgreSQL       *)
(* store).                                                                 *)
(*                                                                         *)
(* A handler that decides on rows that can change reads them first and     *)
(* commits later, in another transaction: it holds the snapshot in between *)
(* and the commit compares versions.  Those handlers are two actions (or   *)
(* three, when two rows are read one after the other).  Deliveries,        *)
(* evidence, reports and reviews are insert-only, so a handler that reads  *)
(* nothing else is a single action.                                        *)
(*                                                                         *)
(* A handler lost between its read and its commit is Drop.                 *)
(***************************************************************************)
EXTENDS Naturals, FiniteSets, RunModel

CONSTANTS
  Works,          \* work item ids
  Tasks,          \* frozen task contracts: a content digest determines all of them
  Runs,           \* run ids
  CodexRuns,      \* the runs whose tool profile is codex/sha256:...
  Deliveries, Reports, Reviews, Closures,   \* ids a client may choose
  Contents,       \* what a delivery may contain: result commit and artifacts
  Requirements,   \* evidence requirements of the frozen verification plans
  People,         \* authenticated subjects
  Creations,      \* state, active task and active run a client may create a work with
  Handlers,       \* concurrent two-phase requests
  None,
  MaxRunVersion   \* bound on run control requests per run

TaskContract == [id : Nat, revision : Nat, work : Works]
WorkStates   == {"DRAFT", "READY", "EXECUTING", "VERIFYING", "REVIEWING",
                 "CLOSED", "CANCELLED"}

ASSUME TasksAssumption == Tasks \subseteq TaskContract
ASSUME CodexRunsAssumption == CodexRuns \subseteq Runs
ASSUME NoneAssumption ==
  /\ None \notin Tasks /\ None \notin Runs /\ None \notin People
  /\ None \notin Deliveries /\ None \notin Reports
ASSUME CreationsAssumption ==
  Creations \subseteq [state : WorkStates, task : Tasks \cup {None}, run : Runs \cup {None}]
ASSUME MaxRunVersionAssumption == MaxRunVersion \in Nat

VARIABLES
  work,         \* work_items
  frozen,       \* task_contracts: the digests frozen so far
  run, session, \* runs and sessions
  checkpoint,   \* checkpoints, each with the run's epoch when it was inserted (history)
  delivery,     \* delivery_receipts
  evidence,     \* evidence, of the deliveries
  report,       \* verification_reports
  review,       \* review_reports
  closure,      \* closure_receipts
  handler       \* the two-phase requests and what they hold

intakeVars == <<work, frozen>>
runVars    == <<run, session, checkpoint>>
proofVars  == <<delivery, evidence, report, review, closure>>
vars == <<intakeVars, runVars, proofVars, handler>>

-----------------------------------------------------------------------------
(* Rows. *)

WorkRow == [state : WorkStates \cup {"ABSENT"}, version : Nat, owner : People \cup {None},
            task : Tasks \cup {None}, run : Runs \cup {None}]
AbsentWork == [state |-> "ABSENT", version |-> 0, owner |-> None, task |-> None, run |-> None]

RunRow == [state : RunStates \cup {"ABSENT"}, epoch : Nat, owner : Owners,
           version : Nat, task : Tasks \cup {None}]
AbsentRun == [state |-> "ABSENT", epoch |-> 0, owner |-> "RUNTIME", version |-> 0, task |-> None]

(* What run.New and StartAttempt give createRun to insert. *)
StartedRun(t) == StartAttempt([state |-> "CREATED", epoch |-> 0, owner |-> "RUNTIME",
                               version |-> 1, task |-> t])

Live(r) == run[r].state # "ABSENT" /\ ~Terminal(run[r])

(* The subject digest of a delivery covers the task, the run and the content. *)
Delivery == [run : Runs, task : Tasks, content : Contents]
Subject(d) == delivery[d]

Evidence == [delivery : Deliveries, requirement : Requirements, result : {"PASS", "FAIL"}]

Report == [delivery : Deliveries, verifier : People, result : {"PASS", "FAIL"}]

Review == [delivery : Deliveries, report : Reports, task : Tasks,
           reviewer : People, result : {"PASS", "FAIL"}]

Closure == [work : Works, task : Tasks, run : Runs,
            delivery : Deliveries, report : Reports, review : Reviews]

(* WorkItem.Transition, as far as the handlers ask for it. *)
Advance(from, to) ==
  \/ from = to
  \/ <<from, to>> \in {<<"DRAFT", "READY">>, <<"READY", "EXECUTING">>,
                       <<"EXECUTING", "VERIFYING">>, <<"VERIFYING", "REVIEWING">>,
                       <<"REVIEWING", "CLOSED">>}
  \/ to = "CANCELLED" /\ from \notin {"CLOSED", "CANCELLED"}

(* The compare-and-set of work_items and of runs. *)
WorkAt(w, v) == work[w].version = v
RunAt(r, v)  == run[r].version = v

(* The row written over the one that was read: an UPDATE of these columns  *)
(* and of the version.                                                     *)
Written(row, state, task, theRun) ==
  [state |-> state, version |-> row.version + 1, owner |-> row.owner,
   task |-> task, run |-> theRun]

-----------------------------------------------------------------------------
(* Handlers between their read and their commit. *)

Idle == [op |-> "idle"]
Controls == {"pause", "resume", "takeover"}

Request ==
  {Idle}
  \cup [op : {"freeze"}, task : Tasks, work : WorkRow]
  \cup [op : {"start"}, run : Runs, task : Tasks, work : WorkRow]
  \cup [op : Controls \cup {"completing"}, run : Runs, row : RunRow, session : SessionRecord]
  \cup [op : {"complete"}, run : Runs, row : RunRow, session : SessionRecord, work : WorkRow]
  \cup [op : {"checkpoint"}, run : Runs, epoch : Nat]
  \cup [op : {"review"}, id : Reviews, delivery : Deliveries, report : Reports,
        reviewer : People, result : {"PASS", "FAIL"}, work : WorkRow]
  \cup [op : {"close"}, id : Closures, delivery : Deliveries, report : Reports,
        review : Reviews, work : WorkRow]

Free(h) == handler[h].op = "idle"
Holds(h, op) == handler[h].op = op
Hold(h, q) == handler' = [handler EXCEPT ![h] = q]
Finish(h) == Hold(h, Idle)

Drop(h) ==
  /\ ~Free(h)
  /\ Finish(h)
  /\ UNCHANGED <<intakeVars, runVars, proofVars>>

-----------------------------------------------------------------------------
(* Intake. *)

(* The store inserts a row under a new primary key. *)
WorkIsNew(w) == work[w].state = "ABSENT"

(* The state, the active task and the active run are the client's. *)
CreateWork(w, p, c) ==
  /\ WorkIsNew(w)
  /\ work' = [work EXCEPT ![w] = [state |-> c.state, version |-> 1, owner |-> p,
                                  task |-> c.task, run |-> c.run]]
  /\ UNCHANGED <<frozen, runVars, proofVars, handler>>

ReadFreeze(h, t) ==
  /\ Free(h)
  /\ work[t.work].state \in {"DRAFT", "READY"}
  /\ Hold(h, [op |-> "freeze", task |-> t, work |-> work[t.work]])
  /\ UNCHANGED <<intakeVars, runVars, proofVars>>

LatestRevision(id) ==
  LET revisions == {t.revision : t \in {x \in frozen : x.id = id}}
  IN  IF revisions = {} THEN 0 ELSE CHOOSE n \in revisions : \A m \in revisions : m <= n

(* Mutant of CanFreeze: the work row is trusted as it was read. *)
CanFreezeAsRead(q) == q.task.revision = LatestRevision(q.task.id) + 1

CanFreeze(q) ==
  /\ WorkAt(q.task.work, q.work.version)
  /\ work[q.task.work].state \in {"DRAFT", "READY"}
  /\ work[q.task.work].run = None
  /\ q.task.revision = LatestRevision(q.task.id) + 1

CommitFreeze(h) ==
  LET q == handler[h]
      w == q.task.work
  IN
  /\ Holds(h, "freeze")
  /\ IF CanFreeze(q)
     THEN /\ frozen' = frozen \cup {q.task}
          /\ work' = [work EXCEPT ![w] = Written(@, "READY", q.task, None)]
     ELSE UNCHANGED intakeVars
  /\ Finish(h)
  /\ UNCHANGED <<runVars, proofVars>>

-----------------------------------------------------------------------------
(* Runs. *)

ReadStart(h, r, t) ==
  /\ Free(h)
  /\ t \in frozen
  /\ work[t.work].state = "READY" /\ work[t.work].task = t
  /\ Hold(h, [op |-> "start", run |-> r, task |-> t, work |-> work[t.work]])
  /\ UNCHANGED <<intakeVars, runVars, proofVars>>

(* Mutant of CanStart: the work row is trusted as it was read. *)
CanStartAsRead(q) == run[q.run].state = "ABSENT"

CanStart(q) ==
  /\ WorkAt(q.task.work, q.work.version)
  /\ work[q.task.work].state = "READY"
  /\ work[q.task.work].task = q.task
  /\ work[q.task.work].run = None
  /\ run[q.run].state = "ABSENT"

CommitStart(h) ==
  LET q == handler[h] IN
  /\ Holds(h, "start")
  /\ IF CanStart(q)
     THEN /\ run' = [run EXCEPT ![q.run] = StartedRun(q.task)]
          /\ session' = [session EXCEPT ![q.run] = NewSession(run'[q.run].epoch)]
          /\ work' = [work EXCEPT ![q.task.work] = Written(@, "EXECUTING", q.task, q.run)]
     ELSE UNCHANGED <<run, session, work>>
  /\ Finish(h)
  /\ UNCHANGED <<frozen, checkpoint, proofVars>>

(* pause, resume and takeover are not for codex runs; the client names the *)
(* epoch and both methods refuse any other.                                *)
ReadControl(h, r, kind) ==
  /\ Free(h)
  /\ r \notin CodexRuns
  /\ run[r].state # "ABSENT" /\ run[r].version < MaxRunVersion
  /\ CheckEpoch(run[r], run[r].epoch) /\ SessionEpoch(session[r], run[r].epoch)
  /\ Hold(h, [op |-> kind, run |-> r, row |-> run[r], session |-> session[r]])
  /\ UNCHANGED <<intakeVars, runVars, proofVars>>

ControlledRun(kind, row) ==
  CASE kind = "pause" -> PauseRun(row)
    [] kind = "resume" -> ResumeRun(row)
    [] kind = "takeover" -> TakeoverRun(row)

ControlledSession(kind, s) ==
  CASE kind = "pause" -> PauseSession(s)
    [] kind = "resume" -> ResumeSession(s)
    [] kind = "takeover" -> TakeoverSession(s)

(* Mutant of CanControl: the run's version is not compared. *)
CanControlUnversioned(q) == run[q.run].state # "ABSENT"

CanControl(q) == RunAt(q.run, q.row.version)

CommitControl(h) ==
  LET q == handler[h] IN
  /\ handler[h].op \in Controls
  /\ IF CanControl(q)
     THEN /\ run' = [run EXCEPT ![q.run] =
                       [ControlledRun(q.op, q.row) EXCEPT !.version = @ + 1]]
          /\ session' = [session EXCEPT ![q.run] = ControlledSession(q.op, q.session)]
     ELSE UNCHANGED <<run, session>>
  /\ Finish(h)
  /\ UNCHANGED <<intakeVars, checkpoint, proofVars>>

ReadCheckpoint(h, r) ==
  /\ Free(h)
  /\ run[r].state # "ABSENT"
  /\ CheckEpoch(run[r], run[r].epoch) /\ SessionEpoch(session[r], run[r].epoch)
  /\ Hold(h, [op |-> "checkpoint", run |-> r, epoch |-> run[r].epoch])
  /\ UNCHANGED <<intakeVars, runVars, proofVars>>

(* The INSERT compares nothing with the run. *)
CommitCheckpoint(h) ==
  LET q == handler[h] IN
  /\ Holds(h, "checkpoint")
  /\ checkpoint' = checkpoint \cup {[run |-> q.run, epoch |-> q.epoch, at |-> run[q.run].epoch]}
  /\ Finish(h)
  /\ UNCHANGED <<intakeVars, run, session, proofVars>>

(* completeRun reads the run, then the work, then commits. *)
ReadComplete(h, r) ==
  /\ Free(h)
  /\ run[r].state # "ABSENT"
  /\ CheckEpoch(run[r], run[r].epoch)
  /\ Hold(h, [op |-> "completing", run |-> r, row |-> run[r], session |-> session[r]])
  /\ UNCHANGED <<intakeVars, runVars, proofVars>>

Executing(w, r, t) == work[w].state = "EXECUTING" /\ work[w].task = t /\ work[w].run = r

ReadCompleteWork(h) ==
  LET q == handler[h]
      w == q.row.task.work
  IN
  /\ Holds(h, "completing")
  /\ IF Executing(w, q.run, q.row.task)
     THEN Hold(h, [op |-> "complete", run |-> q.run, row |-> q.row,
                   session |-> q.session, work |-> work[w]])
     ELSE Finish(h)
  /\ UNCHANGED <<intakeVars, runVars, proofVars>>

CanComplete(q) == RunAt(q.run, q.row.version) /\ WorkAt(q.row.task.work, q.work.version)

CommitComplete(h) ==
  LET q == handler[h]
      w == q.row.task.work
  IN
  /\ Holds(h, "complete")
  /\ IF CanComplete(q)
     THEN /\ run' = [run EXCEPT ![q.run] = [CompleteRun(q.row) EXCEPT !.version = @ + 1]]
          /\ session' = [session EXCEPT ![q.run] = q.session]
          /\ work' = [work EXCEPT ![w] = Written(@, "VERIFYING", q.work.task, q.work.run)]
     ELSE UNCHANGED <<run, session, work>>
  /\ Finish(h)
  /\ UNCHANGED <<frozen, checkpoint, proofVars>>

(* ContinueCodex: one transaction.  The source run is aborted and a        *)
(* successor takes its place in the work.                                  *)
Continue(r, s) ==
  LET w == run[r].task.work IN
  /\ r \in CodexRuns /\ s \in CodexRuns
  /\ run[r].state = "RUNNING" /\ run[r].owner = "RUNTIME"
  /\ session[r].epoch = run[r].epoch /\ session[r].owner = "RUNTIME" /\ ~session[r].paused
  /\ Executing(w, r, run[r].task)
  /\ \A d \in Deliveries : delivery[d] # None => delivery[d].run # r
  /\ run[s].state = "ABSENT"
  /\ run' = [run EXCEPT ![r] = [SupersedeRun(run[r]) EXCEPT !.version = @ + 1],
                        ![s] = StartedRun(run[r].task)]
  /\ session' = [session EXCEPT ![r] = SupersedeSession(@), ![s] = NewSession(1)]
  /\ work' = [work EXCEPT ![w] = Written(@, @.state, @.task, s)]
  /\ UNCHANGED <<frozen, checkpoint, proofVars, handler>>

-----------------------------------------------------------------------------
(* Delivery, evidence, verification. *)

(* subject_digest is unique: a subject is delivered once. *)
DeliveryIsNew(d, item) == delivery[d] = None /\ \A x \in Deliveries : delivery[x] # item

CreateDelivery(d, r, content) ==
  LET item == [run |-> r, task |-> run[r].task, content |-> content] IN
  /\ run[r].state = "COMPLETED"
  /\ DeliveryIsNew(d, item)
  /\ delivery' = [delivery EXCEPT ![d] = item]
  /\ UNCHANGED <<intakeVars, runVars, evidence, report, review, closure, handler>>

(* The store reads the delivery and the plan of its task again. *)
EvidenceFits(item) == delivery[item.delivery] # None /\ item.requirement \in Requirements

CreateEvidence(item) ==
  /\ EvidenceFits(item)
  /\ evidence' = evidence \cup {item}
  /\ UNCHANGED <<intakeVars, runVars, delivery, report, review, closure, handler>>

(* Mutant of Satisfied: evidence of any subject counts. *)
SatisfiedByAny(q, d, cited) == \E e \in cited : e.result = "PASS" /\ e.requirement = q

(* requirementSatisfied: a cited PASS on this requirement and this subject. *)
Satisfied(q, d, cited) ==
  \E e \in cited : /\ e.result = "PASS" /\ e.requirement = q
                   /\ Subject(e.delivery) = Subject(d)

Evaluate(d, cited) ==
  IF \A q \in Requirements : Satisfied(q, d, cited) THEN "PASS" ELSE "FAIL"

ReportIsNew(v) == report[v] = None

(* The verifier chooses which evidence to cite. *)
CreateVerification(v, d, p, cited) ==
  /\ ReportIsNew(v)
  /\ delivery[d] # None
  /\ report' = [report EXCEPT ![v] = [delivery |-> d, verifier |-> p,
                                      result |-> Evaluate(d, cited)]]
  /\ UNCHANGED <<intakeVars, runVars, delivery, evidence, review, closure, handler>>

-----------------------------------------------------------------------------
(* Review. *)

(* The subject of a review, as read by the handler and again by the store. *)
Verified(d, v) ==
  /\ delivery[d] # None /\ report[v] # None
  /\ report[v].result = "PASS" /\ report[v].delivery = d

InState(d, state) ==
  LET w == work[delivery[d].task.work] IN
  w.state = state /\ w.task = delivery[d].task /\ w.run = delivery[d].run

Reviewer(p, d, v) ==
  p # report[v].verifier /\ p # work[delivery[d].task.work].owner

ReadReview(h, n, d, v, p, result) ==
  /\ Free(h)
  /\ Verified(d, v)
  /\ InState(d, "VERIFYING")
  /\ Reviewer(p, d, v)
  /\ Hold(h, [op |-> "review", id |-> n, delivery |-> d, report |-> v, reviewer |-> p,
              result |-> result, work |-> work[delivery[d].task.work]])
  /\ UNCHANGED <<intakeVars, runVars, proofVars>>

(* One review per verification report. *)
CanReview(q) ==
  /\ Verified(q.delivery, q.report)
  /\ WorkAt(delivery[q.delivery].task.work, q.work.version)
  /\ InState(q.delivery, "VERIFYING")
  /\ Reviewer(q.reviewer, q.delivery, q.report)
  /\ review[q.id] = None
  /\ \A n \in Reviews : review[n] # None => review[n].report # q.report

CommitReview(h) ==
  LET q == handler[h]
      d == q.delivery
      w == delivery[d].task.work
  IN
  /\ Holds(h, "review")
  /\ IF CanReview(q)
     THEN /\ review' = [review EXCEPT ![q.id] =
                          [delivery |-> d, report |-> q.report, task |-> delivery[d].task,
                           reviewer |-> q.reviewer, result |-> q.result]]
          /\ work' = [work EXCEPT ![w] =
                        Written(@, IF q.result = "PASS" THEN "REVIEWING" ELSE @.state,
                                @.task, @.run)]
     ELSE UNCHANGED <<review, work>>
  /\ Finish(h)
  /\ UNCHANGED <<frozen, runVars, delivery, evidence, report, closure>>

-----------------------------------------------------------------------------
(* Closure. *)

(* Mutant of ReviewOf: any passing review of the delivery will do. *)
ReviewOfDelivery(n, d, v) ==
  /\ review[n] # None /\ review[n].result = "PASS"
  /\ review[n].delivery = d

(* The PASS review of exactly this delivery, report and task. *)
ReviewOf(n, d, v) ==
  /\ review[n] # None /\ review[n].result = "PASS"
  /\ review[n].delivery = d /\ review[n].report = v
  /\ review[n].task = delivery[d].task

ReadClosure(h, c, d, v, n) ==
  /\ Free(h)
  /\ Verified(d, v)
  /\ ReviewOf(n, d, v)
  /\ run[delivery[d].run].state = "COMPLETED" /\ run[delivery[d].run].task = delivery[d].task
  /\ InState(d, "REVIEWING")
  /\ Hold(h, [op |-> "close", id |-> c, delivery |-> d, report |-> v, review |-> n,
              work |-> work[delivery[d].task.work]])
  /\ UNCHANGED <<intakeVars, runVars, proofVars>>

CommitClosure(h) ==
  LET q == handler[h]
      d == q.delivery
      w == delivery[d].task.work
  IN
  /\ Holds(h, "close")
  /\ IF /\ ReviewOf(q.review, d, q.report)
        /\ closure[q.id] = None
        /\ WorkAt(w, q.work.version) /\ InState(d, "REVIEWING")
     THEN /\ closure' = [closure EXCEPT ![q.id] =
                           [work |-> w, task |-> delivery[d].task, run |-> delivery[d].run,
                            delivery |-> d, report |-> q.report, review |-> q.review]]
          /\ work' = [work EXCEPT ![w] = Written(@, "CLOSED", q.work.task, q.work.run)]
     ELSE UNCHANGED <<closure, work>>
  /\ Finish(h)
  /\ UNCHANGED <<frozen, runVars, delivery, evidence, report, review>>

-----------------------------------------------------------------------------

Init ==
  /\ work = [w \in Works |-> AbsentWork]
  /\ frozen = {}
  /\ run = [r \in Runs |-> AbsentRun]
  /\ session = [r \in Runs |-> NewSession(0)]
  /\ checkpoint = {}
  /\ delivery = [d \in Deliveries |-> None]
  /\ evidence = {}
  /\ report = [v \in Reports |-> None]
  /\ review = [n \in Reviews |-> None]
  /\ closure = [c \in Closures |-> None]
  /\ handler = [h \in Handlers |-> Idle]

Intake ==
  \/ \E w \in Works, p \in People, c \in Creations : CreateWork(w, p, c)
  \/ \E h \in Handlers : (\E t \in Tasks : ReadFreeze(h, t)) \/ CommitFreeze(h)

Execution ==
  \/ \E h \in Handlers, r \in Runs :
       \/ \E t \in Tasks : ReadStart(h, r, t)
       \/ \E kind \in Controls : ReadControl(h, r, kind)
       \/ ReadCheckpoint(h, r)
       \/ ReadComplete(h, r)
  \/ \E h \in Handlers :
       \/ CommitStart(h) \/ CommitControl(h) \/ CommitCheckpoint(h)
       \/ ReadCompleteWork(h) \/ CommitComplete(h)
  \/ \E r, s \in Runs : Continue(r, s)

Qualification ==
  \/ \E d \in Deliveries :
       \/ \E r \in Runs, content \in Contents : CreateDelivery(d, r, content)
       \/ \E v \in Reports, p \in People, cited \in SUBSET evidence :
            CreateVerification(v, d, p, cited)
  \/ \E item \in Evidence : CreateEvidence(item)
  \/ \E h \in Handlers, d \in Deliveries, v \in Reports, n \in Reviews :
       \/ \E p \in People, result \in {"PASS", "FAIL"} : ReadReview(h, n, d, v, p, result)
       \/ \E c \in Closures : ReadClosure(h, c, d, v, n)
  \/ \E h \in Handlers : CommitReview(h) \/ CommitClosure(h)

Next ==
  \/ Intake \/ Execution \/ Qualification
  \/ \E h \in Handlers : Drop(h)

Spec == Init /\ [][Next]_vars

-----------------------------------------------------------------------------
(* Properties. *)

(* Every row has the shape the schema gives it, and so has what a handler   *)
(* holds of it.                                                            *)
TypeOK ==
  /\ work \in [Works -> WorkRow]
  /\ frozen \subseteq Tasks
  /\ run \in [Runs -> RunRow] /\ session \in [Runs -> SessionRecord]
  /\ checkpoint \subseteq [run : Runs, epoch : Nat, at : Nat]
  /\ delivery \in [Deliveries -> Delivery \cup {None}]
  /\ evidence \subseteq Evidence
  /\ report \in [Reports -> Report \cup {None}]
  /\ review \in [Reviews -> Review \cup {None}]
  /\ closure \in [Closures -> Closure \cup {None}]
  /\ handler \in [Handlers -> Request]

(* Whatever the interleaving of handlers, a closure receipt stands on one  *)
(* unbroken chain: the completed run of the work's active task, its        *)
(* delivery, a PASS verification of it that plan evidence supports, and a  *)
(* PASS review of that verification by neither the verifier nor the owner. *)
(* The work it closes is closed by it alone.                               *)
ClosureStandsOnChain ==
  \A c \in Closures : closure[c] # None =>
    LET q == closure[c]
        w == work[q.work]
    IN
    /\ w.state = "CLOSED" /\ w.task = q.task /\ w.run = q.run
    /\ q.task \in frozen /\ q.task.work = q.work
    /\ run[q.run].state = "COMPLETED" /\ run[q.run].task = q.task
    /\ delivery[q.delivery].run = q.run /\ delivery[q.delivery].task = q.task
    /\ report[q.report].delivery = q.delivery /\ report[q.report].result = "PASS"
    /\ review[q.review].report = q.report /\ review[q.review].delivery = q.delivery
    /\ review[q.review].result = "PASS"
    /\ review[q.review].reviewer \notin {report[q.report].verifier, w.owner}
    /\ \A x \in Closures : closure[x] # None /\ closure[x].work = q.work => x = c

(* A PASS verification is earned by its own subject: for every requirement *)
(* of the plan there is PASS evidence on a delivery of the same run, task  *)
(* and bytes.  The verifier may cite evidence of other deliveries too.     *)
PassIsEarned ==
  \A v \in Reports : report[v] # None /\ report[v].result = "PASS" =>
    \A q \in Requirements :
      \E e \in evidence :
        /\ Subject(e.delivery) = Subject(report[v].delivery)
        /\ e.requirement = q /\ e.result = "PASS"

(* A subject is delivered once, so that evidence on a subject is evidence  *)
(* on one delivery.                                                        *)
SubjectDeliveredOnce ==
  \A d, x \in Deliveries : delivery[d] # None /\ delivery[d] = delivery[x] => d = x

(* One run at a time: a live run is the active run of the executing work   *)
(* its task belongs to, so a work never has two, although two createRun    *)
(* requests may have read the same READY work, and a continuation may race *)
(* a completion.                                                           *)
LiveRunIsActive ==
  \A r \in Runs : Live(r) =>
    /\ Executing(run[r].task.work, r, run[r].task)
    /\ run[r].task \in frozen

(* Human takeover is not undone: a handler that read the run before a      *)
(* takeover, a continuation or its completion cannot bring back an earlier *)
(* epoch or the runtime's ownership, or revive a finished run.             *)
EpochsFence ==
  [][\A r \in Runs : run[r].state # "ABSENT" =>
       /\ run'[r].epoch >= run[r].epoch
       /\ run[r].owner = "HUMAN" => run'[r].owner = "HUMAN"
       /\ Terminal(run[r]) => run'[r] = run[r] /\ session'[r] = session[r]
       /\ run'[r].epoch = session'[r].epoch /\ run'[r].owner = session'[r].owner]_vars

(* No update of a work item is lost: every change moves the version by one *)
(* and the state along WorkItem.Transition, and the task a run executes is *)
(* never exchanged under it.                                               *)
WorkMovesForward ==
  [][\A w \in Works : work[w].state # "ABSENT" /\ work'[w] # work[w] =>
       /\ work'[w].version = work[w].version + 1
       /\ Advance(work[w].state, work'[w].state)
       /\ work'[w].owner = work[w].owner
       /\ work[w].state \notin {"DRAFT", "READY"} => work'[w].task = work[w].task
       /\ work'[w].run # work[w].run =>
            work[w].state \in {"READY", "EXECUTING"}]_vars

(* What the architecture says of execution epochs: an old one is always    *)
(* refused, so a checkpoint is inserted under the epoch the run then has.  *)
CheckpointsNotStale == \A x \in checkpoint : x.epoch = x.at
=============================================================================
