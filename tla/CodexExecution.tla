--------------------------- MODULE CodexExecution ---------------------------
(***************************************************************************)
(* One worker's Codex executions: the control plane's rows (reservation,   *)
(* runtime, live controls, source checkpoint), the worker agent that holds *)
(* the permit, its control pump, and the Codex process with its turn.      *)
(*                                                                         *)
(* Every transaction of the control plane is serialized by the run's inbox *)
(* row.  A call of the agent to the control plane is one step: it is       *)
(* answered, or it fails for the agent with the transaction applied, not   *)
(* applied, or applied later, after the agent has gone on (Late).          *)
(***************************************************************************)
EXTENDS Naturals, FiniteSets

CONSTANTS
  Runs,               \* runs with a codex tool profile
  FirstRuns,          \* the runs that are started initially
  Prepared,           \* the runs whose inbox row and preparation the worker holds
  None,
  MaxControls,        \* codexexec.MaxControls: controls of one execution
  MaxRecoveryEpoch,   \* bound: BeginRecovery may raise the epoch up to this
  MaxLate             \* bound: calls that are applied after they were given up

ASSUME RunsAssumption == FirstRuns \subseteq Runs /\ Prepared \subseteq Runs /\ None \notin Runs
ASSUME ControlsAssumption == MaxControls \in Nat \ {0}
ASSUME BoundsAssumption == MaxRecoveryEpoch \in Nat /\ MaxLate \in Nat

VARIABLES
  platform,    \* recovery mode and epoch
  run,         \* [Runs -> run row, the run it continues, whether it is delivered]
  execution,   \* [Runs -> worker_codex_executions]
  runtime,     \* [Runs -> worker_codex_runtime]
  control,     \* [Runs -> [1..MaxControls -> steering_commands, by sequence]]
  checkpoint,  \* [Runs -> a source checkpoint is registered]
  late,        \* calls given up by their caller that the server may still apply
  agent,       \* [Runs -> ExecuteCodex, with its turn observer]
  pump,        \* [Runs -> pumpControls]
  codex        \* [Runs -> the app-server process and its turn]

coreVars == <<platform, run, execution, runtime, control, checkpoint>>
hostVars == <<agent, pump, codex>>
vars == <<platform, run, execution, runtime, control, checkpoint, late, agent, pump, codex>>

Controls == 1 .. MaxControls
Kinds == {"STEER", "INTERRUPT"}

RunStates == {"ABSENT", "RUNNING", "COMPLETED", "ABORTED"}
Sources == Runs \cup {None}
RunRow == [state : RunStates, source : Sources, delivered : BOOLEAN]

(* live: the lease has not run out; kept while the execution is open. *)
ExecutionStates == {"ABSENT", "AUTHORIZED", "UNKNOWN", "FINISHED",
                    "STOPPED_NO_DELIVERY", "ABANDONED_RECONCILED"}
Epochs == 0 .. MaxRecoveryEpoch
ExecutionRow == [state : ExecutionStates, epoch : Epochs, live : BOOLEAN]

TurnStatus == {"completed", "interrupted", "failed", "unknown"}

RuntimeStates == {"ABSENT", "ACTIVE", "SEALED"}
RuntimeRow == [state : RuntimeStates, status : TurnStatus, quiescent : BOOLEAN]

DeliveryStates ==
  {"ABSENT", "QUEUED", "DISPATCHING", "STEER_ACCEPTED", "INTERRUPT_ACKNOWLEDGED",
   "TURN_INTERRUPTED", "NOT_APPLIED", "UNKNOWN"}

(* applied counts what the provider did with the control: history. *)
ControlRow == [kind : Kinds, state : DeliveryStates, dispatched : BOOLEAN, applied : Nat]

MainPCs == {"idle", "launch", "turn", "abort", "bind", "observe", "stop", "close", "finalize",
            "renew", "report", "again", "retain", "fail", "failed", "done", "crashed"}
PumpPCs == {"off", "poll", "claimed", "calling", "report", "acked", "ended"}

(* ok: no error so far.  status: what the observer read from turn/completed. *)
(* watching: the observer runs.  stopping: the polling context is cancelled. *)
(* proof: the process scope was reaped.  transcript: Close was answered.     *)
AgentState == [pc : MainPCs, ok : BOOLEAN, status : TurnStatus, watching : BOOLEAN,
               stopping : BOOLEAN, proof : BOOLEAN, transcript : BOOLEAN]
Chosen == Controls \cup {0}
PumpState == [pc : PumpPCs, control : Chosen, outcome : DeliveryStates, ok : BOOLEAN]
Processes == {"none", "running", "gone"}
Turns == {"none", "active", "completed", "interrupted", "failed"}
CodexState == [process : Processes, turn : Turns, requests : SUBSET Controls]

NoRun == [state |-> "ABSENT", source |-> None, delivered |-> FALSE]
NoExecution == [state |-> "ABSENT", epoch |-> 0, live |-> FALSE]
NoRuntime == [state |-> "ABSENT", status |-> "unknown", quiescent |-> FALSE]
NoControl == [kind |-> "STEER", state |-> "ABSENT", dispatched |-> FALSE, applied |-> 0]
NoAgent == [pc |-> "idle", ok |-> TRUE, status |-> "unknown", watching |-> FALSE,
            stopping |-> FALSE, proof |-> FALSE, transcript |-> FALSE]
NoPump == [pc |-> "off", control |-> 0, outcome |-> "UNKNOWN", ok |-> TRUE]
NoCodex == [process |-> "none", turn |-> "none", requests |-> {}]

-----------------------------------------------------------------------------
(* The control plane's rows. *)

Recovering == platform.mode = "RECOVERY_RECONCILIATION"

(* lockCodex(live = true) with workerRunActive; codex runs are never paused. *)
Live(r) ==
  /\ platform.mode = "NORMAL" /\ platform.epoch = execution[r].epoch
  /\ run[r].state = "RUNNING"
  /\ execution[r].state = "AUTHORIZED" /\ execution[r].live

Open(r) == execution[r].state \in {"AUTHORIZED", "UNKNOWN"}

Queued(r) == {i \in Controls : control[r][i].state # "ABSENT"}
In(r, states) == {i \in Controls : control[r][i].state \in states}

(* A dispatch whose end is not known: nothing more is claimed. *)
Uncertain(r) == In(r, {"DISPATCHING", "INTERRUPT_ACKNOWLEDGED", "UNKNOWN"}) # {}

(* Mutant of First: the newest control is claimed first. *)
Newest(i, s) == i \in s /\ \A j \in s : i >= j

First(i, s) == i \in s /\ \A j \in s : i <= j

(* Mutant of AllowsDelivery: unresolved controls do not matter. *)
CompletedQuietly(r) ==
  /\ runtime[r].state = "SEALED"
  /\ runtime[r].status = "completed" /\ runtime[r].quiescent

(* ControlTranscript.AllowsDelivery. *)
AllowsDelivery(r) ==
  /\ runtime[r].state = "SEALED"
  /\ runtime[r].status = "completed" /\ runtime[r].quiescent
  /\ Queued(r) = In(r, {"STEER_ACCEPTED"})

(* ControlTranscript.Continuable. *)
Continuable(r) ==
  /\ runtime[r].state = "SEALED"
  /\ runtime[r].status = "interrupted" /\ runtime[r].quiescent
  /\ In(r, {"TURN_INTERRUPTED"}) # {}
  /\ \A i \in Queued(r) :
       \/ control[r][i].state \in {"STEER_ACCEPTED", "TURN_INTERRUPTED"}
       \/ control[r][i].state = "NOT_APPLIED" /\ ~control[r][i].dispatched

SetControl(r, i, state) == control' = [control EXCEPT ![r][i].state = state]

(* BindCodexControl: the turn of this execution, once. *)
BindCodexControl(r) ==
  /\ Live(r)
  /\ \/ /\ runtime[r].state = "ABSENT"
        /\ runtime' = [runtime EXCEPT ![r].state = "ACTIVE"]
     \/ runtime[r].state = "ACTIVE" /\ UNCHANGED runtime
  /\ UNCHANGED <<platform, run, execution, control, checkpoint>>

(* ClaimCodexControl hands out control i. *)
ClaimCodexControl(r, i) ==
  /\ Live(r)
  /\ runtime[r].state = "ACTIVE"
  /\ ~Uncertain(r)
  /\ First(i, In(r, {"QUEUED"}))
  /\ control' = [control EXCEPT ![r][i].state = "DISPATCHING", ![r][i].dispatched = TRUE]
  /\ UNCHANGED <<platform, run, execution, runtime, checkpoint>>

(* SettleCodexControl: what the agent saw, recorded even after revocation. *)
SettleCodexControl(r, i, outcome) ==
  /\ \/ outcome \in {"NOT_APPLIED", "UNKNOWN"}
     \/ outcome = "STEER_ACCEPTED" /\ control[r][i].kind = "STEER"
     \/ outcome = "INTERRUPT_ACKNOWLEDGED" /\ control[r][i].kind = "INTERRUPT"
  /\ \/ control[r][i].state = outcome /\ UNCHANGED control
     \/ /\ runtime[r].state = "ACTIVE" /\ control[r][i].state = "DISPATCHING"
        /\ SetControl(r, i, outcome)
  /\ UNCHANGED <<platform, run, execution, runtime, checkpoint>>

(* What closing makes of one control. *)
Closed(c, status) ==
  [c EXCEPT !.state =
     CASE @ = "QUEUED" -> "NOT_APPLIED"
       [] @ = "DISPATCHING" -> "UNKNOWN"
       [] @ = "INTERRUPT_ACKNOWLEDGED" /\ status = "interrupted" -> "TURN_INTERRUPTED"
       [] OTHER -> @]

CloseCodexControl(r, status, quiescent) ==
  /\ \/ /\ runtime[r].state = "ACTIVE"
        /\ runtime' = [runtime EXCEPT ![r] = [state |-> "SEALED", status |-> status,
                                              quiescent |-> quiescent]]
        /\ control' = [control EXCEPT ![r] = [i \in Controls |-> Closed(control[r][i], status)]]
     \/ /\ runtime[r] = [state |-> "SEALED", status |-> status, quiescent |-> quiescent]
        /\ UNCHANGED <<runtime, control>>
  /\ UNCHANGED <<platform, run, execution, checkpoint>>

SaveCodexCheckpoint(r) ==
  /\ runtime[r].state = "SEALED" /\ runtime[r].quiescent
  /\ checkpoint' = [checkpoint EXCEPT ![r] = TRUE]
  /\ UNCHANGED <<platform, run, execution, runtime, control>>

(* RenewCodex: the lease stays alive. *)
RenewCodex(r) == Live(r) /\ UNCHANGED coreVars

(* FinishCodex: a result for a deliverable transcript, or its readback. *)
FinishCodex(r) ==
  /\ AllowsDelivery(r)
  /\ \/ execution[r].state = "FINISHED" /\ UNCHANGED execution
     \/ Live(r) /\ execution' = [execution EXCEPT ![r].state = "FINISHED", ![r].live = FALSE]
  /\ UNCHANGED <<platform, run, runtime, control, checkpoint>>

(* Mutant of FailCodex: the row is not looked at. *)
FailAnyway(r) ==
  /\ execution[r].state # "ABSENT"
  /\ execution' = [execution EXCEPT ![r].state = "UNKNOWN"]
  /\ UNCHANGED <<platform, run, runtime, control, checkpoint>>

FailCodex(r) ==
  /\ execution[r].state # "ABSENT"
  /\ execution' = [execution EXCEPT ![r].state = IF @ = "AUTHORIZED" THEN "UNKNOWN" ELSE @]
  /\ UNCHANGED <<platform, run, runtime, control, checkpoint>>

(* QueueCodexControl: an operator's input.  The last place is kept for an  *)
(* interrupt, and nothing follows one.                                     *)
QueueCodexControl(r, kind) ==
  LET count == Cardinality(Queued(r)) IN
  /\ Live(r)
  /\ runtime[r].state = "ACTIVE"
  /\ count < MaxControls
  /\ kind = "STEER" => count < MaxControls - 1
  /\ \A i \in Queued(r) : control[r][i].kind # "INTERRUPT"
  /\ control' = [control EXCEPT ![r][count + 1] = [NoControl EXCEPT !.kind = kind, !.state = "QUEUED"]]
  /\ UNCHANGED <<platform, run, execution, runtime, checkpoint, late, hostVars>>

(* The lease runs out. *)
ExpireLease(r) ==
  /\ execution[r].live /\ Open(r)
  /\ execution' = [execution EXCEPT ![r].live = FALSE]
  /\ UNCHANGED <<platform, run, runtime, control, checkpoint, late, hostVars>>

(* handleCompleteRun and handleCreateDelivery: neither looks at executions. *)
CompleteRun(r) ==
  /\ run[r].state = "RUNNING"
  /\ run' = [run EXCEPT ![r].state = "COMPLETED"]
  /\ UNCHANGED <<platform, execution, runtime, control, checkpoint, late, hostVars>>

CreateDelivery(r) ==
  /\ run[r].state = "COMPLETED"
  /\ run' = [run EXCEPT ![r].delivered = TRUE]
  /\ UNCHANGED <<platform, execution, runtime, control, checkpoint, late, hostVars>>

(* ContinueCodex: the source is fenced and a successor run is started. *)
ContinueCodex(r, s) ==
  /\ platform.mode = "NORMAL" /\ platform.epoch = execution[r].epoch
  /\ run[r].state = "RUNNING" /\ ~run[r].delivered
  /\ execution[r].state = "UNKNOWN"
  /\ Continuable(r)
  /\ checkpoint[r]
  /\ run[s].state = "ABSENT"
  /\ run' = [run EXCEPT ![r].state = "ABORTED",
                        ![s] = [state |-> "RUNNING", source |-> r, delivered |-> FALSE]]
  /\ execution' = [execution EXCEPT ![r].state = "STOPPED_NO_DELIVERY", ![r].live = FALSE]
  /\ UNCHANGED <<platform, runtime, control, checkpoint, late, hostVars>>

BeginRecovery ==
  /\ platform.mode = "NORMAL"
  /\ platform.epoch < MaxRecoveryEpoch
  /\ platform' = [epoch |-> platform.epoch + 1, mode |-> "RECOVERY_RECONCILIATION"]
  /\ UNCHANGED <<run, execution, runtime, control, checkpoint, late, hostVars>>

(* The executions AbandonExecution accepts. *)
Abandonable(r) == Recovering /\ Open(r) /\ ~execution[r].live /\ ~run[r].delivered

AbandonExecution(r) ==
  /\ Abandonable(r)
  /\ execution' = [execution EXCEPT ![r].state = "ABANDONED_RECONCILED"]
  /\ UNCHANGED <<platform, run, runtime, control, checkpoint, late, hostVars>>

(* Mutant of FactsClear: only unfinished reservations count. *)
FactsClearOfAuthorized == \A r \in Runs : execution[r].state # "AUTHORIZED"

(* recoveryFacts as far as codex executions go. *)
FactsClear == \A r \in Runs : ~Open(r)

CompleteRecovery ==
  /\ Recovering /\ FactsClear
  /\ platform' = [platform EXCEPT !.mode = "NORMAL"]
  /\ UNCHANGED <<run, execution, runtime, control, checkpoint, late, hostVars>>

-----------------------------------------------------------------------------
(* Calls of the agent to the control plane. *)

Call(r, op) == [run |-> r, op |-> op, control |-> 0, outcome |-> "UNKNOWN",
                status |-> "unknown", quiescent |-> FALSE]
ReportCall(r, i, outcome) == [Call(r, "settle") EXCEPT !.control = i, !.outcome = outcome]
CloseCall(r, status, proof) == [Call(r, "close") EXCEPT !.status = status, !.quiescent = proof]

Serve(q) ==
  \/ q.op = "bind" /\ BindCodexControl(q.run)
  \/ q.op = "claim" /\ \E i \in Controls : ClaimCodexControl(q.run, i)
  \/ q.op = "settle" /\ SettleCodexControl(q.run, q.control, q.outcome)
  \/ q.op = "close" /\ CloseCodexControl(q.run, q.status, q.quiescent)
  \/ q.op = "checkpoint" /\ SaveCodexCheckpoint(q.run)
  \/ q.op = "finish" /\ FinishCodex(q.run)
  \/ q.op = "fail" /\ FailCodex(q.run)

Heard(q) == Serve(q) /\ UNCHANGED late

(* The agent sees an error: refused, lost on the way there or back, or     *)
(* timed out while the server still has it.                                *)
Unheard(q) ==
  \/ Serve(q) /\ UNCHANGED late
  \/ UNCHANGED <<coreVars, late>>
  \/ UNCHANGED coreVars /\ Cardinality(late) < MaxLate /\ late' = late \cup {q}

LateCall(q) ==
  /\ late' = late \ {q}
  /\ Serve(q) \/ UNCHANGED coreVars
  /\ UNCHANGED hostVars

-----------------------------------------------------------------------------
(* The Codex process: external. *)

Gone(r) == codex' = [codex EXCEPT ![r].process = "gone"]

ProcessDies(r) ==
  /\ codex[r].process = "running"
  /\ Gone(r)
  /\ UNCHANGED <<coreVars, late, agent, pump>>

TurnEnds(r, status) ==
  /\ codex[r].process = "running" /\ codex[r].turn = "active"
  /\ codex' = [codex EXCEPT ![r].turn = status]
  /\ UNCHANGED <<coreVars, late, agent, pump>>

(* turn/steer or turn/interrupt takes effect; it may be long after the     *)
(* pump has given the call up.                                             *)
CodexApplies(r, i) ==
  /\ codex[r].process = "running" /\ codex[r].turn = "active"
  /\ i \in codex[r].requests
  /\ codex' = [codex EXCEPT ![r].requests = @ \ {i}]
  /\ control' = [control EXCEPT ![r][i].applied = @ + 1]
  /\ UNCHANGED <<platform, run, execution, runtime, checkpoint, late, agent, pump>>

-----------------------------------------------------------------------------
(* The agent: ExecuteCodex and the turn it runs. *)

At(r, pc) == agent[r].pc = pc
Go(r, pc) == agent' = [agent EXCEPT ![r].pc = pc]
Return(r, pc) == agent' = [agent EXCEPT ![r] = [NoAgent EXCEPT !.pc = pc]]

(* StartCodex: one reservation per run, one authorized execution per       *)
(* worker.  A permit whose answer is lost has no agent.                    *)
StartCodex(r) ==
  /\ At(r, "idle") /\ r \in Prepared
  /\ platform.mode = "NORMAL"
  /\ run[r].state = "RUNNING"
  /\ execution[r].state = "ABSENT"
  /\ \A s \in Runs : execution[s].state # "AUTHORIZED"
  /\ execution' = [execution EXCEPT ![r] = [state |-> "AUTHORIZED", epoch |-> platform.epoch,
                                            live |-> TRUE]]
  /\ Go(r, "launch") \/ UNCHANGED agent
  /\ UNCHANGED <<platform, run, runtime, control, checkpoint, late, pump, codex>>

(* The process is started in a PID namespace of its own. *)
LaunchProcess(r) ==
  /\ At(r, "launch")
  /\ codex' = [codex EXCEPT ![r].process = "running"]
  /\ Go(r, "turn")
  /\ UNCHANGED <<coreVars, late, pump>>

(* turn/start; its answer may be lost. *)
StartTurn(r) ==
  /\ At(r, "turn") /\ codex[r].process = "running"
  /\ codex' = [codex EXCEPT ![r].turn = "active"]
  /\ Go(r, "bind") \/ Go(r, "abort")
  /\ UNCHANGED <<coreVars, late, pump>>

LaunchFails(r) ==
  /\ At(r, "launch") \/ At(r, "turn")
  /\ Go(r, "abort")
  /\ UNCHANGED <<coreVars, late, pump, codex>>

(* The scope is stopped before the turn is known: there is nothing to close. *)
Abort(r) ==
  /\ At(r, "abort")
  /\ (codex[r].process = "running" /\ Gone(r)) \/ UNCHANGED codex
  /\ Go(r, "fail")
  /\ UNCHANGED <<coreVars, late, pump>>

Bind(r) ==
  /\ At(r, "bind")
  /\ \/ /\ Heard(Call(r, "bind"))
        /\ agent' = [agent EXCEPT ![r].pc = "observe", ![r].watching = TRUE]
        /\ pump' = [pump EXCEPT ![r].pc = "poll"]
     \/ /\ Unheard(Call(r, "bind"))
        /\ agent' = [agent EXCEPT ![r].pc = "stop", ![r].ok = FALSE]
        /\ UNCHANGED pump
  /\ UNCHANGED codex

(* ObserveEngineeringTurn returns with the turn's status, and with an      *)
(* error unless it completed with an answer.                               *)
TurnObserved(r) ==
  /\ agent[r].watching
  /\ codex[r].turn \in TurnStatus
  /\ \E ok \in BOOLEAN :
       agent' = [agent EXCEPT ![r].watching = FALSE, ![r].status = codex[r].turn,
                              ![r].ok = @ /\ ok /\ codex[r].turn = "completed"]
  /\ UNCHANGED <<coreVars, late, pump, codex>>

(* ... or without one: protocol error, approval request, cancellation. *)
ObserverFails(r) ==
  /\ agent[r].watching
  /\ agent' = [agent EXCEPT ![r].watching = FALSE, ![r].ok = FALSE]
  /\ UNCHANGED <<coreVars, late, pump, codex>>

(* Polling stops when observer or pump has returned.  *)
StopPolling(r) ==
  /\ At(r, "observe") /\ ~agent[r].stopping
  /\ ~agent[r].watching \/ pump[r].pc = "ended"
  /\ agent' = [agent EXCEPT ![r].stopping = TRUE]
  /\ UNCHANGED <<coreVars, late, pump, codex>>

(* The run's context ends: deadline, lost lease, caller. *)
CancelRun(r) ==
  /\ At(r, "observe") /\ ~agent[r].stopping
  /\ agent' = [agent EXCEPT ![r].stopping = TRUE]
  /\ UNCHANGED <<coreVars, late, pump, codex>>

(* observeControlledEngineering returns when both have. *)
Join(r) ==
  /\ At(r, "observe") /\ ~agent[r].watching /\ pump[r].pc = "ended"
  /\ agent' = [agent EXCEPT ![r].pc = "stop", ![r].ok = @ /\ pump[r].ok, ![r].stopping = FALSE]
  /\ pump' = [pump EXCEPT ![r] = NoPump]
  /\ UNCHANGED <<coreVars, late, codex>>

(* Mutant of StopScope: a process that was told to stop counts as stopped. *)
StopScopeTrusting(r) ==
  /\ At(r, "stop")
  /\ agent' = [agent EXCEPT ![r].pc = "close", ![r].proof = TRUE]
  /\ UNCHANGED <<coreVars, late, pump, codex>>

(* Scope.Wait and Stop: the namespace init is reaped, or that is not       *)
(* confirmed.                                                              *)
StopScope(r) ==
  /\ At(r, "stop")
  /\ \/ /\ Gone(r)
        /\ \E ok \in BOOLEAN : agent' = [agent EXCEPT ![r].pc = "close", ![r].proof = TRUE,
                                                      ![r].ok = @ /\ ok]
     \/ /\ agent' = [agent EXCEPT ![r].pc = "close", ![r].ok = FALSE]
        /\ UNCHANGED codex
  /\ UNCHANGED <<coreVars, late, pump>>

(* settleEngineeringExit closes the controls once. *)
CloseControls(r) ==
  LET q == CloseCall(r, agent[r].status, agent[r].proof) IN
  /\ At(r, "close")
  /\ \/ /\ Heard(q)
        /\ LET ok == agent[r].ok /\ AllowsDelivery(r)' IN
           agent' = [agent EXCEPT ![r].pc = IF ok THEN "finalize" ELSE "retain",
                                  ![r].ok = ok, ![r].transcript = TRUE]
     \/ /\ Unheard(q)
        /\ agent' = [agent EXCEPT ![r].pc = "retain", ![r].ok = FALSE]
  /\ UNCHANGED <<pump, codex>>

(* The post-turn phases: finalize and persist, renew, report. *)
Finalize(r) ==
  /\ At(r, "finalize") /\ Go(r, "renew")
  /\ UNCHANGED <<coreVars, late, pump, codex>>

FinalRenew(r) ==
  /\ At(r, "renew") /\ RenewCodex(r) /\ Go(r, "report")
  /\ UNCHANGED <<late, pump, codex>>

PhaseFails(r) ==
  /\ agent[r].pc \in {"finalize", "renew", "report", "again"}
  /\ Go(r, "retain")
  /\ UNCHANGED <<coreVars, late, pump, codex>>

(* The identical report is repeated once if the first was not answered. *)
Report(r) ==
  /\ At(r, "report") \/ At(r, "again")
  /\ \/ Heard(Call(r, "finish")) /\ Return(r, "done")
     \/ /\ Unheard(Call(r, "finish"))
        /\ (At(r, "report") /\ Go(r, "again")) \/ Go(r, "retain")
  /\ UNCHANGED <<pump, codex>>

(* retainSource: only with a transcript in hand and the process reaped. *)
Retain(r) ==
  /\ At(r, "retain")
  /\ agent' = [agent EXCEPT ![r] = [NoAgent EXCEPT !.pc = "fail", !.ok = FALSE]]
  /\ \/ /\ agent[r].transcript /\ agent[r].proof
        /\ Heard(Call(r, "checkpoint")) \/ Unheard(Call(r, "checkpoint"))
     \/ UNCHANGED <<coreVars, late>>
  /\ UNCHANGED <<pump, codex>>

(* settleExecutionFailure: once, on every way out but success. *)
Fail(r) ==
  /\ At(r, "fail") /\ Return(r, "failed")
  /\ Heard(Call(r, "fail")) \/ Unheard(Call(r, "fail"))
  /\ UNCHANGED <<pump, codex>>

Ended == {"failed", "done", "crashed"}

(* The worker process is killed; the kernel takes the Codex process with it, *)
(* a moment later (ProcessDies).                                             *)
Crash(r) ==
  /\ agent[r].pc \notin Ended \cup {"idle"}
  /\ Return(r, "crashed")
  /\ pump' = [pump EXCEPT ![r] = NoPump]
  /\ UNCHANGED <<coreVars, late, codex>>

-----------------------------------------------------------------------------
(* pumpControls. *)

PumpAt(r, pc) == pump[r].pc = pc
PumpEnds(r, ok) == pump' = [pump EXCEPT ![r] = [NoPump EXCEPT !.pc = "ended", !.ok = ok]]

(* A claim already under way when polling stops is still answered; one that *)
(* fails is an error, unless it was only cut off by the stop.               *)
PumpClaim(r) ==
  /\ PumpAt(r, "poll")
  /\ \/ \E i \in Controls :
          /\ ClaimCodexControl(r, i) /\ UNCHANGED late
          /\ pump' = [pump EXCEPT ![r] = [pc |-> "claimed", control |-> i,
                                          outcome |-> "UNKNOWN", ok |-> TRUE]]
     \/ Unheard(Call(r, "claim")) /\ PumpEnds(r, FALSE)
  /\ UNCHANGED <<agent, codex>>

(* Mutant of PumpStopped: after an acknowledged interrupt the stop is not seen. *)
PumpStoppedPolling(r) ==
  /\ PumpAt(r, "poll") /\ agent[r].stopping
  /\ Unheard(Call(r, "claim")) \/ UNCHANGED <<coreVars, late>>
  /\ PumpEnds(r, TRUE)
  /\ UNCHANGED <<agent, codex>>

PumpStopped(r) ==
  /\ PumpAt(r, "poll") \/ PumpAt(r, "acked")
  /\ agent[r].stopping
  /\ (PumpAt(r, "poll") /\ Unheard(Call(r, "claim"))) \/ UNCHANGED <<coreVars, late>>
  /\ PumpEnds(r, TRUE)
  /\ UNCHANGED <<agent, codex>>

(* The adapter has no active turn any more, or polling was stopped. *)
Refused(r) == agent[r].stopping \/ agent[r].status # "unknown"

PumpRefuses(r) ==
  /\ PumpAt(r, "claimed") /\ Refused(r)
  /\ pump' = [pump EXCEPT ![r].pc = "report", ![r].outcome = "NOT_APPLIED", ![r].ok = FALSE]
  /\ UNCHANGED <<coreVars, late, agent, codex>>

PumpCalls(r) ==
  /\ PumpAt(r, "claimed") /\ ~Refused(r)
  /\ codex' = [codex EXCEPT ![r].requests = @ \cup {pump[r].control}]
  /\ pump' = [pump EXCEPT ![r].pc = "calling"]
  /\ UNCHANGED <<coreVars, late, agent>>

Acknowledgement(kind) == IF kind = "STEER" THEN "STEER_ACCEPTED" ELSE "INTERRUPT_ACKNOWLEDGED"

PumpAnswered(r) ==
  /\ PumpAt(r, "calling") /\ pump[r].control \notin codex[r].requests
  /\ pump' = [pump EXCEPT ![r].pc = "report",
                          ![r].outcome = Acknowledgement(control[r][pump[r].control].kind)]
  /\ UNCHANGED <<coreVars, late, agent, codex>>

(* Mutant of FailedCall: an unanswered call is taken for a refused one. *)
FailedCallRefused == "NOT_APPLIED"

(* A lost, late or negative answer is no answer. *)
FailedCall == "UNKNOWN"

PumpCallFails(r) ==
  /\ PumpAt(r, "calling")
  /\ pump' = [pump EXCEPT ![r].pc = "report", ![r].outcome = FailedCall, ![r].ok = FALSE]
  /\ UNCHANGED <<coreVars, late, agent, codex>>

PumpReports(r) ==
  LET q == ReportCall(r, pump[r].control, pump[r].outcome)
      next == IF pump[r].outcome = "INTERRUPT_ACKNOWLEDGED" THEN "acked" ELSE "poll"
  IN
  /\ PumpAt(r, "report")
  /\ \/ /\ Heard(q)
        /\ IF pump[r].ok THEN pump' = [pump EXCEPT ![r] = [NoPump EXCEPT !.pc = next]]
           ELSE PumpEnds(r, FALSE)
     \/ Unheard(q) /\ PumpEnds(r, FALSE)
  /\ UNCHANGED <<agent, codex>>

-----------------------------------------------------------------------------
Init ==
  /\ platform = [mode |-> "NORMAL", epoch |-> 0]
  /\ run = [r \in Runs |-> IF r \in FirstRuns THEN [NoRun EXCEPT !.state = "RUNNING"] ELSE NoRun]
  /\ execution = [r \in Runs |-> NoExecution]
  /\ runtime = [r \in Runs |-> NoRuntime]
  /\ control = [r \in Runs |-> [i \in Controls |-> NoControl]]
  /\ checkpoint = [r \in Runs |-> FALSE]
  /\ late = {}
  /\ agent = [r \in Runs |-> NoAgent]
  /\ pump = [r \in Runs |-> NoPump]
  /\ codex = [r \in Runs |-> NoCodex]

(* What the agent and its pump do by themselves. *)
PumpStep(r) ==
  \/ PumpClaim(r) \/ PumpStopped(r) \/ PumpRefuses(r) \/ PumpCalls(r)
  \/ PumpAnswered(r) \/ PumpCallFails(r) \/ PumpReports(r)

LaunchStep(r) == LaunchProcess(r) \/ StartTurn(r) \/ LaunchFails(r) \/ Abort(r) \/ Bind(r)

ExitStep(r) ==
  \/ StopPolling(r) \/ Join(r) \/ StopScope(r) \/ CloseControls(r) \/ Finalize(r) \/ FinalRenew(r)
  \/ PhaseFails(r) \/ Report(r) \/ Retain(r) \/ Fail(r)

Next ==
  \/ \E r \in Runs :
       \/ StartCodex(r) \/ LaunchStep(r) \/ TurnObserved(r) \/ ObserverFails(r)
       \/ CancelRun(r) \/ ExitStep(r) \/ Crash(r) \/ PumpStep(r)
       \/ ProcessDies(r) \/ (\E i \in Controls : CodexApplies(r, i))
       \/ (\E s \in {"completed", "interrupted", "failed"} : TurnEnds(r, s))
       \/ (\E kind \in Kinds : QueueCodexControl(r, kind))
       \/ ExpireLease(r) \/ CompleteRun(r) \/ CreateDelivery(r) \/ AbandonExecution(r)
       \/ \E s \in Runs : ContinueCodex(r, s)
  \/ \E q \in late : LateCall(q)
  \/ BeginRecovery \/ CompleteRecovery

Spec == Init /\ [][Next]_vars
-----------------------------------------------------------------------------
(* Properties. *)

CallOps == {"bind", "claim", "settle", "close", "checkpoint", "finish", "fail"}
Requests ==
  [run : Runs, op : CallOps, control : Chosen, outcome : DeliveryStates, status : TurnStatus,
   quiescent : BOOLEAN]

(* The rows, the agent and the process have their types. *)
TypeOK ==
  /\ platform \in [mode : {"NORMAL", "RECOVERY_RECONCILIATION"}, epoch : Epochs]
  /\ run \in [Runs -> RunRow]
  /\ execution \in [Runs -> ExecutionRow]
  /\ runtime \in [Runs -> RuntimeRow]
  /\ control \in [Runs -> [Controls -> ControlRow]]
  /\ checkpoint \in [Runs -> BOOLEAN]
  /\ late \subseteq Requests
  /\ agent \in [Runs -> AgentState]
  /\ pump \in [Runs -> PumpState]
  /\ codex \in [Runs -> CodexState]

(* What a control row says of its control is true of the Codex process: an *)
(* acknowledged control took effect once, one that is queued or NOT_APPLIED *)
(* never did and never will.  This is what pumpControls reports and what   *)
(* CloseCodexControl makes of the rest, whatever calls are lost or late.   *)
ControlRowsTrue ==
  \A r \in Runs, i \in Controls :
    LET c == control[r][i] IN
    /\ c.state \in {"STEER_ACCEPTED", "INTERRUPT_ACKNOWLEDGED", "TURN_INTERRUPTED"} => c.applied = 1
    /\ c.state \in {"ABSENT", "QUEUED", "NOT_APPLIED"} => c.applied = 0 /\ i \notin codex[r].requests
    /\ c.state = "TURN_INTERRUPTED" => codex[r].turn = "interrupted"

(* Controls take effect in the order they were queued, each once, although *)
(* claims, calls and reports are lost and late (ClaimCodexControl).        *)
AppliedInOrder ==
  [][\A r \in Runs, i \in Controls :
       control'[r][i].applied # control[r][i].applied =>
         \A j \in Controls : j >= i => control[r][j].applied = 0]_vars

(* A FINISHED execution is one whose turn completed, whose process tree is *)
(* gone, and in which every control an operator ever queued took effect:   *)
(* FinishCodex admits nothing else, even when a report or a failure        *)
(* arrives late.  An agent that was told so was told the truth.            *)
FinishedIsClean ==
  \A r \in Runs :
    /\ execution[r].state = "FINISHED" =>
         /\ codex[r].process = "gone" /\ codex[r].turn = "completed"
         /\ \A i \in Queued(r) : control[r][i].kind = "STEER" /\ control[r][i].applied = 1
    /\ At(r, "done") => execution[r].state = "FINISHED"

(* A run is continued only after its own process tree is gone and the fate *)
(* of every control of it is known (ContinueCodex, Continuable): source    *)
(* and successor never run side by side.                                   *)
ContinuedIsQuiet ==
  \A s \in Runs : run[s].source # None =>
    LET r == run[s].source IN
    /\ codex[r].process = "gone"
    /\ execution[r].state = "STOPPED_NO_DELIVERY"
    /\ \A i \in Queued(r) : control[r][i].applied = IF control[r][i].dispatched THEN 1 ELSE 0

(* A sealed transcript with its controls, and a finished, stopped or       *)
(* abandoned execution, never change, whatever late call arrives.          *)
SealedIsFinal ==
  [][\A r \in Runs :
       /\ runtime[r].state = "SEALED" =>
            /\ runtime'[r] = runtime[r]
            /\ \A i \in Controls : control'[r][i].state = control[r][i].state
       /\ execution[r].state \in {"FINISHED", "STOPPED_NO_DELIVERY", "ABANDONED_RECONCILED"} =>
            execution'[r].state = execution[r].state]_vars

(* Outside a recovery, every open execution belongs to the current epoch:  *)
(* CompleteRecovery leaves no reservation of an earlier one, and no late   *)
(* call opens one again.                                                   *)
RecoverySettlesExecutions ==
  platform.mode = "NORMAL" => \A r \in Runs : Open(r) => execution[r].epoch = platform.epoch

(* The agent's own threads are scheduled, and every wait of theirs is      *)
(* bounded: calls by their timeouts, the turn by the run's deadline, the   *)
(* observer by the cancelled context.                                      *)
Fairness ==
  \A r \in Runs :
    /\ WF_vars(LaunchStep(r)) /\ WF_vars(ExitStep(r)) /\ WF_vars(PumpStep(r))
    /\ WF_vars(CancelRun(r)) /\ WF_vars(agent[r].stopping /\ ObserverFails(r))

FairSpec == Spec /\ Fairness

(* An agent that has a permit comes to an end: observer, pump and main     *)
(* never wait for each other forever, not even after an acknowledged       *)
(* interrupt whose turn never ends.                                        *)
AgentEnds == \A r \in Runs : agent[r].pc = "launch" ~> agent[r].pc \in Ended

(* docs/implementation/RECOVERY_RESTORE_V1.md: an expired AUTHORIZED or    *)
(* UNKNOWN execution can be abandoned during a recovery.  Not so once its  *)
(* run was completed and delivered.                                        *)
ExpiredExecutionsAbandonable ==
  \A r \in Runs : Recovering /\ Open(r) /\ ~execution[r].live => Abandonable(r)
=============================================================================
