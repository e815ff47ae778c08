------------------------ MODULE CodexExecutionProofs ------------------------
(***************************************************************************)
(* Proofs about CodexExecution, for any number of runs, controls, epochs   *)
(* and late calls: what the control rows say is true of the Codex process, *)
(* controls take effect in order, a finished execution is clean, a         *)
(* continued one is quiet, and what is sealed or settled stays so.         *)
(***************************************************************************)
EXTENDS CodexExecution, FiniteSetTheorems, TLAPS

Waiting == {"ABSENT", "QUEUED"}
Untouched == {"ABSENT", "QUEUED", "NOT_APPLIED"}
Acknowledged == {"STEER_ACCEPTED", "INTERRUPT_ACKNOWLEDGED"}
Terminal == {"STEER_ACCEPTED", "NOT_APPLIED", "TURN_INTERRUPTED"}

(* What a row says of its control is what the process did with it, and a   *)
(* control reaches the process only by being claimed, once.                *)
RowTrue(r, i) ==
  LET c == control[r][i] IN
  /\ c.state \in {"STEER_ACCEPTED", "INTERRUPT_ACKNOWLEDGED", "TURN_INTERRUPTED"} => c.applied = 1
  /\ c.state \in Untouched => c.applied = 0 /\ i \notin codex[r].requests
  /\ c.state = "TURN_INTERRUPTED" => codex[r].turn = "interrupted"
  /\ c.state = "STEER_ACCEPTED" => c.kind = "STEER"
  /\ c.state \in Waiting => ~c.dispatched
  /\ ~c.dispatched => c.state \in Untouched
  /\ i \in codex[r].requests => c.applied = 0

(* The rows of a run fill its sequence from 1 on, and a control is claimed *)
(* only after the end of every earlier one is known.                       *)
RowsInOrder(r) ==
  /\ \E k \in 0 .. MaxControls : Queued(r) = 1 .. k
  /\ \A i, j \in Controls :
       i < j /\ control[r][j].dispatched => control[r][i].state \in Terminal

RowsInv == \A r \in Runs : (\A i \in Controls : RowTrue(r, i)) /\ RowsInOrder(r)

(* The pump runs while the turn is observed, and the control it has in     *)
(* hand is the one that is being dispatched.                               *)
PumpHolds(r) ==
  LET i == pump[r].control IN
  /\ pump[r].pc # "off" => At(r, "observe")
  /\ pump[r].pc \in {"claimed", "calling", "report"} =>
       i \in Controls /\ control[r][i].state = "DISPATCHING"
  /\ pump[r].pc = "claimed" => control[r][i].applied = 0 /\ i \notin codex[r].requests
  /\ pump[r].pc = "calling" =>
       \/ control[r][i].applied = 0 /\ i \in codex[r].requests
       \/ control[r][i].applied = 1 /\ i \notin codex[r].requests
  /\ pump[r].pc = "report" /\ pump[r].outcome = "NOT_APPLIED" =>
       control[r][i].applied = 0 /\ i \notin codex[r].requests
  /\ pump[r].pc = "report" /\ pump[r].outcome \in Acknowledged => control[r][i].applied = 1

(* What the agent has read of the turn, the process and its report is true. *)
AgentKnows(r) ==
  /\ agent[r].pc \in {"idle", "launch"} => codex[r].process = "none" /\ codex[r].turn = "none"
  /\ agent[r].pc = "turn" => codex[r].turn = "none"
  /\ agent[r].status # "unknown" => codex[r].turn = agent[r].status
  /\ agent[r].proof => codex[r].process = "gone"
  /\ agent[r].pc = "done" => execution[r].state = "FINISHED"

HostInv == \A r \in Runs : PumpHolds(r) /\ AgentKnows(r)

(* The same for the statement of a sealed transcript. *)
SealTrue(r) ==
  runtime[r].state = "SEALED" =>
    /\ runtime[r].quiescent => codex[r].process = "gone"
    /\ runtime[r].status # "unknown" => codex[r].turn = runtime[r].status

ExecutionTrue(r) ==
  /\ execution[r].state = "FINISHED" => AllowsDelivery(r)
  /\ run[r].source # None =>
       /\ execution[run[r].source].state = "STOPPED_NO_DELIVERY"
       /\ Continuable(run[r].source)

CoreInv == (\A r \in Runs : SealTrue(r) /\ ExecutionTrue(r)) /\ RecoverySettlesExecutions

(* What a call says is true, and stays true until it is applied; *)
Told(q) ==
  LET r == q.run
      i == q.control
  IN
  /\ q.op = "settle" =>
       /\ i \in Controls /\ control[r][i].state \notin Waiting
       /\ q.outcome = "NOT_APPLIED" => control[r][i].applied = 0 /\ i \notin codex[r].requests
       /\ q.outcome \in Acknowledged => control[r][i].applied = 1
  /\ q.op = "close" =>
       /\ q.quiescent => codex[r].process = "gone"
       /\ q.status # "unknown" => codex[r].turn = q.status

Early == {"idle", "launch", "turn", "bind"}

(* and its caller has gone on: the pump has ended when a report is late,   *)
(* and the turn is no longer observed when the closing is.                 *)
Past(q) ==
  /\ agent[q.run].pc \notin Early
  /\ q.op = "settle" => pump[q.run].pc \in {"off", "ended"}
  /\ q.op = "close" => ~At(q.run, "observe")

LateInv == \A q \in late : Told(q) /\ Past(q)

(* The inductive invariant. *)
CodexInv == TypeOK /\ RowsInv /\ HostInv /\ CoreInv /\ LateInv

-----------------------------------------------------------------------------
(* Types. *)

(* The names used below are members of the sets the fields range over. *)
LEMMA Members ==
  /\ \A s \in {"ABSENT", "RUNNING", "COMPLETED", "ABORTED"} : s \in RunStates
  /\ \A s \in {"ABSENT", "AUTHORIZED", "UNKNOWN", "FINISHED", "STOPPED_NO_DELIVERY",
               "ABANDONED_RECONCILED"} : s \in ExecutionStates
  /\ \A s \in {"completed", "interrupted", "failed", "unknown"} : s \in TurnStatus
  /\ \A s \in {"ABSENT", "ACTIVE", "SEALED"} : s \in RuntimeStates
  /\ \A s \in {"ABSENT", "QUEUED", "DISPATCHING", "STEER_ACCEPTED", "INTERRUPT_ACKNOWLEDGED",
               "TURN_INTERRUPTED", "NOT_APPLIED", "UNKNOWN"} : s \in DeliveryStates
  /\ \A pc \in {"idle", "launch", "turn", "abort", "bind", "observe", "stop", "close", "finalize",
                "renew", "report", "again", "retain", "fail", "failed", "done", "crashed"} : pc \in MainPCs
  /\ \A pc \in {"off", "poll", "claimed", "calling", "report", "acked", "ended"} : pc \in PumpPCs
  /\ \A s \in {"none", "running", "gone"} : s \in Processes
  /\ \A s \in {"none", "active", "completed", "interrupted", "failed"} : s \in Turns
  /\ \A op \in {"bind", "claim", "settle", "close", "checkpoint", "finish", "fail"} : op \in CallOps
  /\ "STEER" \in Kinds /\ "INTERRUPT" \in Kinds
  /\ None \in Sources /\ \A r \in Runs : r \in Sources
  /\ 0 \in Chosen /\ \A i \in Controls : i \in Chosen /\ i \in Nat
  /\ 0 \in Epochs /\ \A e \in Epochs : e \in Nat /\ (e < MaxRecoveryEpoch => e + 1 \in Epochs)
  BY BoundsAssumption, ControlsAssumption DEF RunStates, ExecutionStates, TurnStatus, RuntimeStates,
     DeliveryStates, MainPCs, PumpPCs, Processes, Turns, CallOps, Kinds, Sources, Chosen, Epochs, Controls

LEMMA NothingTyped ==
  /\ NoRun \in RunRow /\ NoExecution \in ExecutionRow /\ NoRuntime \in RuntimeRow
  /\ NoControl \in ControlRow /\ NoAgent \in AgentState /\ NoPump \in PumpState
  /\ NoCodex \in CodexState
  <1>1. NoRun \in RunRow /\ NoExecution \in ExecutionRow /\ NoRuntime \in RuntimeRow
    BY Members DEF NoRun, RunRow, NoExecution, ExecutionRow, NoRuntime, RuntimeRow
  <1>2. NoControl \in ControlRow /\ NoCodex \in CodexState
    BY Members DEF NoControl, ControlRow, NoCodex, CodexState
  <1>3. NoAgent \in AgentState /\ NoPump \in PumpState
    BY Members DEF NoAgent, AgentState, NoPump, PumpState
  <1> QED
    BY <1>1, <1>2, <1>3

(* The fields of the rows. *)
LEMMA Fields ==
  ASSUME TypeOK, NEW r \in Runs
  PROVE  /\ run[r] \in RunRow /\ execution[r] \in ExecutionRow /\ runtime[r] \in RuntimeRow
         /\ control[r] \in [Controls -> ControlRow]
         /\ agent[r] \in AgentState /\ pump[r] \in PumpState /\ codex[r] \in CodexState
         /\ runtime[r].status \in TurnStatus /\ runtime[r].quiescent \in BOOLEAN
         /\ agent[r].status \in TurnStatus /\ agent[r].proof \in BOOLEAN /\ agent[r].pc \in MainPCs
         /\ pump[r].control \in Chosen /\ pump[r].outcome \in DeliveryStates /\ pump[r].pc \in PumpPCs
         /\ codex[r].requests \subseteq Controls /\ codex[r].turn \in Turns
  <1>1. /\ run[r] \in RunRow /\ execution[r] \in ExecutionRow /\ runtime[r] \in RuntimeRow
        /\ control[r] \in [Controls -> ControlRow]
        /\ agent[r] \in AgentState /\ pump[r] \in PumpState /\ codex[r] \in CodexState
    BY DEF TypeOK
  <1>2. runtime[r].status \in TurnStatus /\ runtime[r].quiescent \in BOOLEAN
    BY <1>1 DEF RuntimeRow
  <1>3. agent[r].status \in TurnStatus /\ agent[r].proof \in BOOLEAN /\ agent[r].pc \in MainPCs
    BY <1>1 DEF AgentState
  <1>4. pump[r].control \in Chosen /\ pump[r].outcome \in DeliveryStates /\ pump[r].pc \in PumpPCs
    BY <1>1 DEF PumpState
  <1>5. codex[r].requests \subseteq Controls /\ codex[r].turn \in Turns
    BY <1>1 DEF CodexState
  <1> QED
    BY <1>1, <1>2, <1>3, <1>4, <1>5

LEMMA ControlFields ==
  ASSUME TypeOK, NEW r \in Runs, NEW i \in Controls
  PROVE  /\ control[r][i] \in ControlRow /\ control[r][i].kind \in Kinds
         /\ control[r][i].state \in DeliveryStates /\ control[r][i].dispatched \in BOOLEAN
         /\ control[r][i].applied \in Nat
  <1>1. control[r][i] \in ControlRow
    BY Fields
  <1> QED
    BY <1>1 DEF ControlRow

(* One row is written. *)
LEMMA ControlSet ==
  ASSUME TypeOK, NEW r \in Runs, NEW i \in Controls, NEW row \in ControlRow,
         control' = [control EXCEPT ![r][i] = row]
  PROVE  /\ control' \in [Runs -> [Controls -> ControlRow]]
         /\ \A t \in Runs, j \in Controls :
              control'[t][j] = IF t = r /\ j = i THEN row ELSE control[t][j]
  <1> DEFINE rows == [control[r] EXCEPT ![i] = row]
  <1>1. control \in [Runs -> [Controls -> ControlRow]] /\ control[r] \in [Controls -> ControlRow]
    BY DEF TypeOK
  <1>2. rows \in [Controls -> ControlRow] /\ \A j \in Controls : rows[j] = IF j = i THEN row ELSE control[r][j]
    BY <1>1
  <1>3. control' = [control EXCEPT ![r] = rows]
    OBVIOUS
  <1> HIDE DEF rows
  <1>4. control' \in [Runs -> [Controls -> ControlRow]]
    BY <1>1, <1>2, <1>3
  <1>5. \A t \in Runs : control'[t] = IF t = r THEN rows ELSE control[t]
    BY <1>1, <1>3
  <1> QED
    BY <1>2, <1>4, <1>5

LEMMA ExecutionSet ==
  ASSUME TypeOK, NEW r \in Runs, NEW row \in ExecutionRow, execution' = [execution EXCEPT ![r] = row]
  PROVE  /\ execution' \in [Runs -> ExecutionRow]
         /\ \A t \in Runs : execution'[t] = IF t = r THEN row ELSE execution[t]
  BY DEF TypeOK

LEMMA RuntimeSet ==
  ASSUME TypeOK, NEW r \in Runs, NEW row \in RuntimeRow, runtime' = [runtime EXCEPT ![r] = row]
  PROVE  /\ runtime' \in [Runs -> RuntimeRow]
         /\ \A t \in Runs : runtime'[t] = IF t = r THEN row ELSE runtime[t]
  BY DEF TypeOK

LEMMA AgentSet ==
  ASSUME TypeOK, NEW r \in Runs, NEW row \in AgentState, agent' = [agent EXCEPT ![r] = row]
  PROVE  agent' \in [Runs -> AgentState] /\ agent'[r] = row /\ \A t \in Runs : t # r => agent'[t] = agent[t]
  BY DEF TypeOK

LEMMA PumpSet ==
  ASSUME TypeOK, NEW r \in Runs, NEW row \in PumpState, pump' = [pump EXCEPT ![r] = row]
  PROVE  pump' \in [Runs -> PumpState] /\ pump'[r] = row /\ \A t \in Runs : t # r => pump'[t] = pump[t]
  BY DEF TypeOK

LEMMA CodexSet ==
  ASSUME TypeOK, NEW r \in Runs, NEW row \in CodexState, codex' = [codex EXCEPT ![r] = row]
  PROVE  codex' \in [Runs -> CodexState] /\ codex'[r] = row /\ \A t \in Runs : t # r => codex'[t] = codex[t]
  BY DEF TypeOK

-----------------------------------------------------------------------------
(* Steps of the control plane. *)

CoreTyped ==
  /\ platform \in [mode : {"NORMAL", "RECOVERY_RECONCILIATION"}, epoch : Epochs]
  /\ run \in [Runs -> RunRow]
  /\ execution \in [Runs -> ExecutionRow]
  /\ runtime \in [Runs -> RuntimeRow]
  /\ control \in [Runs -> [Controls -> ControlRow]]
  /\ checkpoint \in [Runs -> BOOLEAN]

(* A claimed control is never waiting again; what it did is not the        *)
(* control plane's to change.                                              *)
RowsKeep(t) ==
  \A i \in Controls :
    /\ control'[t][i].applied = control[t][i].applied
    /\ control[t][i].state \notin Waiting => control'[t][i].state \notin Waiting

(* A control that is being dispatched stays so. *)
Hands(t) ==
  \A i \in Controls : control[t][i].state = "DISPATCHING" => control'[t][i].state = "DISPATCHING"

(* A sealed transcript stays as it is. *)
SealKeep(t) ==
  runtime[t].state = "SEALED" =>
    /\ runtime'[t] = runtime[t]
    /\ \A i \in Controls : /\ control'[t][i].state = control[t][i].state
                           /\ control'[t][i].dispatched = control[t][i].dispatched

Final == {"FINISHED", "STOPPED_NO_DELIVERY", "ABANDONED_RECONCILED"}

(* A final execution stays so, and only a deliverable one is finished. *)
ExecutionKeep(t) ==
  /\ execution[t].state \in Final => execution'[t].state = execution[t].state
  /\ execution'[t].state = "FINISHED" => execution[t].state = "FINISHED" \/ AllowsDelivery(t)

(* What a step of the control plane does, with the process as it was. *)
CoreStep ==
  /\ CoreTyped' /\ RowsInv' /\ CoreInv'
  /\ \A t \in Runs : RowsKeep(t) /\ SealKeep(t) /\ ExecutionKeep(t)

LEMMA DeliveryKept ==
  ASSUME NEW t \in Runs, SealKeep(t)
  PROVE  (AllowsDelivery(t) => AllowsDelivery(t)') /\ (Continuable(t) => Continuable(t)')
  <1>1. CASE runtime[t].state = "SEALED"
    <2>1. /\ runtime'[t] = runtime[t]
          /\ \A i \in Controls : /\ control'[t][i].state = control[t][i].state
                                 /\ control'[t][i].dispatched = control[t][i].dispatched
      BY <1>1 DEF SealKeep
    <2>2. /\ Queued(t)' = Queued(t) /\ In(t, {"STEER_ACCEPTED"})' = In(t, {"STEER_ACCEPTED"})
          /\ In(t, {"TURN_INTERRUPTED"})' = In(t, {"TURN_INTERRUPTED"})
      BY <2>1 DEF Queued, In
    <2>3. Queued(t) \subseteq Controls
      BY DEF Queued
    <2> QED
      BY <2>1, <2>2, <2>3 DEF AllowsDelivery, Continuable
  <1>2. CASE runtime[t].state # "SEALED"
    BY <1>2 DEF AllowsDelivery, Continuable
  <1> QED
    BY <1>1, <1>2

(* The source of t is stopped and may be continued, and t is its successor. *)
Sourced(t) ==
  /\ run'[t].source \in Runs
  /\ execution'[run'[t].source].state = "STOPPED_NO_DELIVERY"
  /\ Continuable(run'[t].source)

LEMMA CoreKept ==
  ASSUME TypeOK, CoreInv,
         \A t \in Runs : SealTrue(t)' /\ SealKeep(t) /\ ExecutionKeep(t),
         \A t \in Runs : run'[t].source = run[t].source \/ Sourced(t),
         RecoverySettlesExecutions'
  PROVE  CoreInv'
  <1> SUFFICES ASSUME NEW t \in Runs
               PROVE  ExecutionTrue(t)'
    BY DEF CoreInv
  <1>1. execution'[t].state = "FINISHED" => AllowsDelivery(t)'
    BY DeliveryKept DEF CoreInv, ExecutionTrue, ExecutionKeep
  <1>2. ASSUME run'[t].source # None
        PROVE  execution'[run'[t].source].state = "STOPPED_NO_DELIVERY" /\ Continuable(run[t].source)'
    <2>1. PICK s : s = run'[t].source
      OBVIOUS
    <2>2. s \in Runs /\ execution'[s].state = "STOPPED_NO_DELIVERY" /\ Continuable(s)
      <3>1. CASE run'[t].source = run[t].source
        <4>1. s \in Runs
          BY <1>2, <2>1, <3>1, Fields DEF RunRow, Sources
        <4>2. execution[s].state = "STOPPED_NO_DELIVERY" /\ Continuable(s)
          BY <1>2, <2>1, <3>1 DEF CoreInv, ExecutionTrue
        <4> QED
          BY <4>1, <4>2 DEF ExecutionKeep, Final
      <3>2. CASE Sourced(t)
        BY <2>1, <3>2 DEF Sourced
      <3> QED
        BY <3>1, <3>2
    <2>3. Continuable(s)'
      BY <2>2, DeliveryKept
    <2>4. Continuable(run[t].source)'
      BY <2>1, <2>3 DEF Continuable, Queued, In
    <2> QED
      BY <2>1, <2>2, <2>4
  <1> QED
    BY <1>1, <1>2 DEF ExecutionTrue

(* A step that leaves the control rows alone. *)
LEMMA RowsSame ==
  ASSUME RowsInv, control' = control, codex' = codex
  PROVE  RowsInv' /\ \A t \in Runs : RowsKeep(t) /\ Hands(t)
  <1>1. \A t \in Runs, i \in Controls : RowTrue(t, i)' <=> RowTrue(t, i)
    BY DEF RowTrue
  <1>2. \A t \in Runs : RowsInOrder(t)' <=> RowsInOrder(t)
    BY DEF RowsInOrder, Queued
  <1> QED
    BY <1>1, <1>2 DEF RowsInv, RowsKeep, Hands

(* A step that changes nothing of the control plane. *)
LEMMA CoreSame ==
  ASSUME CodexInv, UNCHANGED coreVars, codex' = codex
  PROVE  CoreStep /\ \A t \in Runs : Hands(t)
  <1>1. CoreTyped'
    BY DEF coreVars, CodexInv, TypeOK, CoreTyped
  <1>2. RowsInv' /\ \A t \in Runs : RowsKeep(t) /\ Hands(t)
    BY RowsSame DEF coreVars, CodexInv
  <1>3. \A t \in Runs : SealTrue(t)' /\ SealKeep(t) /\ ExecutionKeep(t)
    BY DEF coreVars, CodexInv, CoreInv, SealTrue, SealKeep, ExecutionKeep
  <1>4. RecoverySettlesExecutions'
    BY DEF coreVars, CodexInv, CoreInv, RecoverySettlesExecutions, Open
  <1>5. CoreInv'
    BY <1>3, <1>4, CoreKept DEF coreVars, CodexInv
  <1> QED
    BY <1>1, <1>2, <1>3, <1>5 DEF CoreStep

(* What holds of the other variables when only control rows change. *)
LEMMA ControlOnly ==
  ASSUME CodexInv, UNCHANGED <<platform, run, execution, runtime, checkpoint>>, codex' = codex,
         control' \in [Runs -> [Controls -> ControlRow]], RowsInv',
         \A t \in Runs : RowsKeep(t) /\ SealKeep(t)
  PROVE  CoreStep
  <1>1. CoreTyped'
    BY DEF CodexInv, TypeOK, CoreTyped
  <1>2. \A t \in Runs : SealTrue(t)' /\ ExecutionKeep(t)
    BY DEF CodexInv, CoreInv, SealTrue, ExecutionKeep
  <1>3. RecoverySettlesExecutions'
    BY DEF CodexInv, CoreInv, RecoverySettlesExecutions, Open
  <1>4. CoreInv'
    BY <1>2, <1>3, CoreKept DEF CodexInv
  <1> QED
    BY <1>1, <1>2, <1>4 DEF CoreStep

(* One claimed or queued row of an active run is written, and the row is true. *)
LEMMA RowWritten ==
  ASSUME CodexInv, UNCHANGED <<platform, run, execution, runtime, checkpoint>>, codex' = codex,
         NEW r \in Runs, NEW i \in Controls, NEW row \in ControlRow,
         control' = [control EXCEPT ![r][i] = row],
         control[r][i].state # "ABSENT" /\ row.state \notin Waiting,
         row.applied = control[r][i].applied,
         runtime[r].state = "ACTIVE", RowTrue(r, i)',
         \A j \in Controls : i < j => ~control[r][j].dispatched,
         \A j \in Controls : j < i => control[r][j].state \in Terminal
  PROVE  CoreStep /\ \A t \in Runs, j \in Controls : control'[t][j] = IF t = r /\ j = i THEN row ELSE control[t][j]
  <1>0. TypeOK /\ RowsInv
    BY DEF CodexInv
  <1>1. /\ control' \in [Runs -> [Controls -> ControlRow]]
        /\ \A t \in Runs, j \in Controls : control'[t][j] = IF t = r /\ j = i THEN row ELSE control[t][j]
    BY <1>0, ControlSet
  <1>2. \A t \in Runs, j \in Controls : RowTrue(t, j)'
    <2> SUFFICES ASSUME NEW t \in Runs, NEW j \in Controls, t # r \/ j # i
                 PROVE  RowTrue(t, j)'
      OBVIOUS
    <2>1. RowTrue(t, j) /\ control'[t][j] = control[t][j]
      BY <1>0, <1>1 DEF RowsInv
    <2> QED
      BY <2>1 DEF RowTrue
  <1>3. \A t \in Runs : RowsInOrder(t)'
    <2> SUFFICES ASSUME NEW t \in Runs
                 PROVE  RowsInOrder(t)'
      OBVIOUS
    <2>1. RowsInOrder(t)
      BY <1>0 DEF RowsInv
    <2>2. Queued(t)' = Queued(t)
      BY <1>1 DEF Queued, Waiting
    <2>3. ASSUME NEW k \in Controls, NEW j \in Controls, k < j, control'[t][j].dispatched
          PROVE  control'[t][k].state \in Terminal
      <3>1. CASE t # r
        BY <1>1, <2>1, <2>3, <3>1 DEF RowsInOrder
      <3>2. CASE t = r /\ j = i
        <4>1. k < i /\ k # i
          BY <2>3, <3>2 DEF Controls
        <4> QED
          BY <1>1, <3>2, <4>1
      <3>3. CASE t = r /\ j # i /\ k = i
        BY <1>1, <2>3, <3>3
      <3>4. CASE t = r /\ j # i /\ k # i
        BY <1>1, <2>1, <2>3, <3>4 DEF RowsInOrder
      <3> QED
        BY <3>1, <3>2, <3>3, <3>4
    <2> QED
      BY <2>1, <2>2, <2>3 DEF RowsInOrder
  <1>4. RowsInv'
    BY <1>2, <1>3 DEF RowsInv
  <1>5. \A t \in Runs : RowsKeep(t)
    BY <1>1 DEF RowsKeep
  <1>6. \A t \in Runs : SealKeep(t)
    BY <1>1 DEF SealKeep
  <1> QED
    BY <1>1, <1>4, <1>5, <1>6, ControlOnly

LEMMA ClaimStep ==
  ASSUME CodexInv, NEW r \in Runs, NEW i \in Controls, ClaimCodexControl(r, i), codex' = codex
  PROVE  /\ CoreStep /\ \A t \in Runs : Hands(t)
         /\ control'[r][i].state = "DISPATCHING" /\ control'[r][i].applied = 0
         /\ i \notin codex[r].requests
  <1> DEFINE row == [control[r][i] EXCEPT !.state = "DISPATCHING", !.dispatched = TRUE]
  <1>0. TypeOK /\ RowsInOrder(r) /\ RowTrue(r, i)
    BY DEF CodexInv, RowsInv
  <1>1. /\ control[r][i].state = "QUEUED" /\ runtime[r].state = "ACTIVE"
        /\ \A j \in Controls : control[r][j].state = "QUEUED" => i <= j
        /\ \A j \in Controls :
             control[r][j].state \notin {"DISPATCHING", "INTERRUPT_ACKNOWLEDGED", "UNKNOWN"}
    BY DEF ClaimCodexControl, First, In, Uncertain
  <1>2. control[r][i].applied = 0 /\ i \notin codex[r].requests
    BY <1>0, <1>1 DEF RowTrue, Untouched
  <1>3. control[r][i] \in ControlRow
    BY <1>0, ControlFields
  <1>4. /\ row \in ControlRow /\ row.state = "DISPATCHING" /\ row.dispatched /\ row.applied = 0
    BY <1>2, <1>3, Members DEF ControlRow
  <1>5. control' = [control EXCEPT ![r][i] = row]
    BY DEF ClaimCodexControl
  <1> HIDE DEF row
  <1>6. UNCHANGED <<platform, run, execution, runtime, checkpoint>>
    BY DEF ClaimCodexControl
  <1>7. ASSUME NEW j \in Controls, i < j
        PROVE  ~control[r][j].dispatched
    BY <1>0, <1>1, <1>7 DEF RowsInOrder, Terminal
  <1>8. ASSUME NEW j \in Controls, j < i
        PROVE  control[r][j].state \in Terminal
    <2>1. control[r][j].state # "ABSENT"
      <3>1. PICK k \in 0 .. MaxControls : Queued(r) = 1 .. k
        BY <1>0 DEF RowsInOrder
      <3>2. i \in 1 .. k
        BY <1>1, <3>1 DEF Queued
      <3>3. j \in 1 .. k
        BY <1>8, <3>2 DEF Controls
      <3> QED
        BY <3>1, <3>3 DEF Queued
    <2>2. control[r][j].state # "QUEUED"
      BY <1>1, <1>8 DEF Controls
    <2> QED
      BY <1>0, <1>1, <2>1, <2>2, ControlFields DEF DeliveryStates, Terminal
  <1>9. control'[r][i] = row
    BY <1>0, <1>4, <1>5, ControlSet
  <1>10. RowTrue(r, i)'
    BY <1>2, <1>4, <1>9 DEF RowTrue, Waiting, Untouched
  <1>11. CoreStep /\ \A t \in Runs, j \in Controls : control'[t][j] = IF t = r /\ j = i THEN row ELSE control[t][j]
    <2>1. control[r][i].state # "ABSENT" /\ row.state \notin Waiting /\ row.applied = control[r][i].applied
      BY <1>1, <1>2, <1>4 DEF Waiting
    <2> QED
      BY <1>1, <1>4, <1>5, <1>6, <1>7, <1>8, <1>10, <2>1, RowWritten
  <1>12. \A t \in Runs : Hands(t)
    BY <1>4, <1>11 DEF Hands
  <1> QED
    BY <1>2, <1>4, <1>9, <1>11, <1>12

LEMMA SettleStep ==
  ASSUME CodexInv, NEW q \in Requests, q.op = "settle", Told(q),
         SettleCodexControl(q.run, q.control, q.outcome), codex' = codex
  PROVE  CoreStep /\ \A t \in Runs : t # q.run => Hands(t)
  <1> DEFINE r == q.run
             i == q.control
             row == [control[r][i] EXCEPT !.state = q.outcome]
  <1>0. TypeOK /\ r \in Runs /\ i \in Controls /\ control[r][i].state \notin Waiting
        /\ q.outcome \in DeliveryStates
    BY DEF CodexInv, Requests, Told
  <1>1. CASE control' = control
    <2>1. UNCHANGED coreVars
      BY <1>1 DEF SettleCodexControl, coreVars
    <2> QED
      BY <2>1, CoreSame
  <1>2. CASE runtime[r].state = "ACTIVE" /\ control[r][i].state = "DISPATCHING"
             /\ SetControl(r, i, q.outcome)
    <2>1. control[r][i] \in ControlRow /\ RowTrue(r, i) /\ RowsInOrder(r)
      BY <1>0, ControlFields DEF CodexInv, RowsInv
    <2>2. control[r][i].dispatched
      BY <1>2, <2>1 DEF RowTrue, Untouched
    <2>3. /\ row \in ControlRow /\ row.state = q.outcome /\ row.dispatched
          /\ row.applied = control[r][i].applied /\ row.kind = control[r][i].kind
      BY <1>0, <2>1, <2>2 DEF ControlRow
    <2>4. control' = [control EXCEPT ![r][i] = row]
      BY <1>2 DEF SetControl
    <2> HIDE DEF row
    <2>5. UNCHANGED <<platform, run, execution, runtime, checkpoint>>
      BY DEF SettleCodexControl
    <2>6. \/ q.outcome \in {"NOT_APPLIED", "UNKNOWN"}
          \/ q.outcome = "STEER_ACCEPTED" /\ control[r][i].kind = "STEER"
          \/ q.outcome = "INTERRUPT_ACKNOWLEDGED" /\ control[r][i].kind = "INTERRUPT"
      BY DEF SettleCodexControl
    <2>7. control'[r][i] = row
      BY <1>0, <2>3, <2>4, ControlSet
    <2>8. /\ q.outcome = "NOT_APPLIED" => control[r][i].applied = 0 /\ i \notin codex[r].requests
          /\ q.outcome \in Acknowledged => control[r][i].applied = 1
      BY DEF Told
    <2>9. RowTrue(r, i)'
      BY <2>1, <2>3, <2>6, <2>7, <2>8 DEF RowTrue, Untouched, Waiting, Acknowledged
    <2>10. ASSUME NEW j \in Controls, i < j
           PROVE  ~control[r][j].dispatched
      BY <1>0, <1>2, <2>1, <2>10 DEF RowsInOrder, Terminal
    <2>11. ASSUME NEW j \in Controls, j < i
           PROVE  control[r][j].state \in Terminal
      BY <1>0, <2>1, <2>2, <2>11 DEF RowsInOrder
    <2>12. control[r][i].state # "ABSENT" /\ row.state \notin Waiting
      BY <1>2, <2>3, <2>6 DEF Waiting
    <2>13. CoreStep /\ \A t \in Runs, j \in Controls :
             control'[t][j] = IF t = r /\ j = i THEN row ELSE control[t][j]
      <3> HIDE DEF r, i
      <3> QED
        BY <1>0, <1>2, <2>3, <2>4, <2>5, <2>9, <2>10, <2>11, <2>12, RowWritten
    <2> QED
      BY <2>13 DEF Hands
  <1> QED
    BY <1>1, <1>2 DEF SettleCodexControl

(* What closing makes of a row. *)
LEMMA ClosedRow ==
  ASSUME NEW c \in ControlRow, NEW status \in TurnStatus
  PROVE  /\ Closed(c, status) \in ControlRow
         /\ Closed(c, status).kind = c.kind /\ Closed(c, status).applied = c.applied
         /\ Closed(c, status).dispatched = c.dispatched
         /\ Closed(c, status).state =
              IF c.state = "QUEUED" THEN "NOT_APPLIED"
              ELSE IF c.state = "DISPATCHING" THEN "UNKNOWN"
              ELSE IF c.state = "INTERRUPT_ACKNOWLEDGED" /\ status = "interrupted" THEN "TURN_INTERRUPTED"
              ELSE c.state
  <1> DEFINE s == CASE c.state = "QUEUED" -> "NOT_APPLIED"
                    [] c.state = "DISPATCHING" -> "UNKNOWN"
                    [] c.state = "INTERRUPT_ACKNOWLEDGED" /\ status = "interrupted" -> "TURN_INTERRUPTED"
                    [] OTHER -> c.state
  <1>1. s = IF c.state = "QUEUED" THEN "NOT_APPLIED"
            ELSE IF c.state = "DISPATCHING" THEN "UNKNOWN"
            ELSE IF c.state = "INTERRUPT_ACKNOWLEDGED" /\ status = "interrupted" THEN "TURN_INTERRUPTED"
            ELSE c.state
    OBVIOUS
  <1>2. Closed(c, status) = [c EXCEPT !.state = s]
    BY DEF Closed
  <1> HIDE DEF s
  <1>3. s \in DeliveryStates
    BY <1>1, Members DEF ControlRow
  <1>4. [c EXCEPT !.state = s] \in ControlRow /\ [c EXCEPT !.state = s].state = s
        /\ [c EXCEPT !.state = s].kind = c.kind /\ [c EXCEPT !.state = s].applied = c.applied
        /\ [c EXCEPT !.state = s].dispatched = c.dispatched
    BY <1>3 DEF ControlRow
  <1> QED
    BY <1>1, <1>2, <1>4

LEMMA CloseStep ==
  ASSUME CodexInv, NEW q \in Requests, q.op = "close", Told(q),
         CloseCodexControl(q.run, q.status, q.quiescent), codex' = codex
  PROVE  CoreStep /\ \A t \in Runs : t # q.run => Hands(t)
  <1> DEFINE r == q.run
             sealed == [state |-> "SEALED", status |-> q.status, quiescent |-> q.quiescent]
             rows == [i \in Controls |-> Closed(control[r][i], q.status)]
  <1>0. TypeOK /\ RowsInv /\ r \in Runs /\ q.status \in TurnStatus /\ q.quiescent \in BOOLEAN
    BY DEF CodexInv, Requests
  <1>1. CASE UNCHANGED <<runtime, control>>
    <2>1. UNCHANGED coreVars
      BY <1>1 DEF CloseCodexControl, coreVars
    <2> QED
      BY <2>1, CoreSame
  <1>2. CASE /\ runtime[r].state = "ACTIVE"
             /\ runtime' = [runtime EXCEPT ![r] = sealed]
             /\ control' = [control EXCEPT ![r] = rows]
    <2>1. UNCHANGED <<platform, run, execution, checkpoint>>
      BY DEF CloseCodexControl
    <2>2. \A i \in Controls :
            /\ rows[i] \in ControlRow /\ rows[i].kind = control[r][i].kind
            /\ rows[i].applied = control[r][i].applied /\ rows[i].dispatched = control[r][i].dispatched
            /\ rows[i].state =
                 IF control[r][i].state = "QUEUED" THEN "NOT_APPLIED"
                 ELSE IF control[r][i].state = "DISPATCHING" THEN "UNKNOWN"
                 ELSE IF control[r][i].state = "INTERRUPT_ACKNOWLEDGED" /\ q.status = "interrupted"
                 THEN "TURN_INTERRUPTED" ELSE control[r][i].state
      BY <1>0, ControlFields, ClosedRow
    <2>3. rows \in [Controls -> ControlRow]
      BY <2>2
    <2>4. sealed \in RuntimeRow /\ sealed.state = "SEALED" /\ sealed.status = q.status
          /\ sealed.quiescent = q.quiescent
      BY <1>0, Members DEF RuntimeRow
    <2> HIDE DEF rows, sealed
    <2>5. /\ control' \in [Runs -> [Controls -> ControlRow]] /\ control'[r] = rows
          /\ \A t \in Runs : t # r => control'[t] = control[t]
      BY <1>0, <1>2, <2>3 DEF TypeOK
    <2>6. /\ runtime' \in [Runs -> RuntimeRow] /\ runtime'[r] = sealed
          /\ \A t \in Runs : t # r => runtime'[t] = runtime[t]
      BY <1>0, <1>2, <2>4, RuntimeSet
    <2>7. /\ q.quiescent => codex[r].process = "gone"
          /\ q.status # "unknown" => codex[r].turn = q.status
      BY DEF Told
    <2>8. ASSUME NEW t \in Runs, NEW i \in Controls
          PROVE  RowTrue(t, i)'
      <3>1. RowTrue(t, i)
        BY <1>0 DEF RowsInv
      <3>2. CASE t # r
        BY <2>5, <3>1, <3>2 DEF RowTrue
      <3>3. CASE t = r
        BY <2>2, <2>5, <2>7, <3>1, <3>3 DEF RowTrue, Untouched, Waiting
      <3> QED
        BY <3>2, <3>3
    <2>9. ASSUME NEW t \in Runs
          PROVE  RowsInOrder(t)'
      <3>1. RowsInOrder(t)
        BY <1>0 DEF RowsInv
      <3>2. CASE t # r
        BY <2>5, <3>1, <3>2 DEF RowsInOrder, Queued
      <3>3. CASE t = r
        <4>1. Queued(t)' = Queued(t)
          BY <2>2, <2>5, <3>3 DEF Queued
        <4>2. \A i \in Controls : control[t][i].state \in Terminal => control'[t][i].state \in Terminal
          BY <2>2, <2>5, <3>3 DEF Terminal
        <4>3. \A i \in Controls : control'[t][i].dispatched = control[t][i].dispatched
          BY <2>2, <2>5, <3>3
        <4> QED
          BY <3>1, <4>1, <4>2, <4>3 DEF RowsInOrder
      <3> QED
        BY <3>2, <3>3
    <2>10. RowsInv'
      BY <2>8, <2>9 DEF RowsInv
    <2>11. ASSUME NEW t \in Runs
           PROVE  RowsKeep(t) /\ SealKeep(t) /\ ExecutionKeep(t) /\ SealTrue(t)'
      <3>1. CASE t # r
        BY <2>1, <2>5, <2>6, <3>1 DEF RowsKeep, SealKeep, ExecutionKeep, SealTrue, CodexInv, CoreInv
      <3>2. CASE t = r
        <4>1. RowsKeep(t)
          BY <2>2, <2>5, <3>2 DEF RowsKeep, Waiting
        <4>2. SealTrue(t)'
          BY <2>4, <2>6, <2>7, <3>2 DEF SealTrue
        <4> QED
          BY <1>2, <2>1, <3>2, <4>1, <4>2 DEF SealKeep, ExecutionKeep
      <3> QED
        BY <3>1, <3>2
    <2>12. CoreTyped'
      BY <1>0, <2>1, <2>5, <2>6 DEF TypeOK, CoreTyped
    <2>13. RecoverySettlesExecutions'
      BY <2>1 DEF CodexInv, CoreInv, RecoverySettlesExecutions, Open
    <2>14. CoreInv'
      BY <1>0, <2>1, <2>11, <2>13, CoreKept DEF CodexInv
    <2> QED
      BY <2>5, <2>10, <2>11, <2>12, <2>14 DEF CoreStep, Hands
  <1> QED
    BY <1>1, <1>2 DEF CloseCodexControl

(* BindCodexControl. *)
LEMMA BindStep ==
  ASSUME CodexInv, NEW r \in Runs, BindCodexControl(r), codex' = codex
  PROVE  CoreStep /\ \A t \in Runs : Hands(t)
  <1> DEFINE row == [runtime[r] EXCEPT !.state = "ACTIVE"]
  <1>0. TypeOK /\ UNCHANGED <<platform, run, execution, control, checkpoint>>
    BY DEF CodexInv, BindCodexControl
  <1>1. CASE runtime' = runtime
    BY <1>0, <1>1, CoreSame DEF coreVars
  <1>2. CASE runtime[r].state = "ABSENT" /\ runtime' = [runtime EXCEPT ![r].state = "ACTIVE"]
    <2>1. row \in RuntimeRow /\ row.state = "ACTIVE"
      BY <1>0, Fields, Members DEF RuntimeRow
    <2>2. runtime' = [runtime EXCEPT ![r] = row]
      BY <1>2
    <2> HIDE DEF row
    <2>3. /\ runtime' \in [Runs -> RuntimeRow]
          /\ \A t \in Runs : runtime'[t] = IF t = r THEN row ELSE runtime[t]
      BY <1>0, <2>1, <2>2, RuntimeSet
    <2>4. RowsInv' /\ \A t \in Runs : RowsKeep(t) /\ Hands(t)
      BY <1>0, RowsSame DEF CodexInv
    <2>5. \A t \in Runs : SealTrue(t)' /\ SealKeep(t) /\ ExecutionKeep(t)
      BY <1>0, <1>2, <2>1, <2>3 DEF SealTrue, SealKeep, ExecutionKeep, CodexInv, CoreInv
    <2>6. CoreTyped'
      BY <1>0, <2>3 DEF TypeOK, CoreTyped
    <2>7. RecoverySettlesExecutions'
      BY <1>0 DEF CodexInv, CoreInv, RecoverySettlesExecutions, Open
    <2>8. CoreInv'
      BY <1>0, <2>5, <2>7, CoreKept DEF CodexInv
    <2> QED
      BY <2>4, <2>5, <2>6, <2>8 DEF CoreStep
  <1> QED
    BY <1>1, <1>2 DEF BindCodexControl

(* SaveCodexCheckpoint. *)
LEMMA CheckpointStep ==
  ASSUME CodexInv, NEW r \in Runs, SaveCodexCheckpoint(r), codex' = codex
  PROVE  CoreStep /\ \A t \in Runs : Hands(t)
  <1>0. TypeOK /\ UNCHANGED <<platform, run, execution, runtime, control>>
    BY DEF CodexInv, SaveCodexCheckpoint
  <1>1. CoreTyped'
    BY <1>0 DEF TypeOK, CoreTyped, SaveCodexCheckpoint
  <1>2. RowsInv' /\ \A t \in Runs : RowsKeep(t) /\ Hands(t)
    BY <1>0, RowsSame DEF CodexInv
  <1>3. \A t \in Runs : SealTrue(t)' /\ SealKeep(t) /\ ExecutionKeep(t)
    BY <1>0 DEF CodexInv, CoreInv, SealTrue, SealKeep, ExecutionKeep
  <1>4. RecoverySettlesExecutions'
    BY <1>0 DEF CodexInv, CoreInv, RecoverySettlesExecutions, Open
  <1>5. CoreInv'
    BY <1>0, <1>3, <1>4, CoreKept DEF CodexInv
  <1> QED
    BY <1>1, <1>2, <1>3, <1>5 DEF CoreStep

(* A step that writes an execution, and perhaps the runs. *)
LEMMA ExecutionWritten ==
  ASSUME CodexInv, NEW r \in Runs, NEW row \in ExecutionRow, execution' = [execution EXCEPT ![r] = row],
         UNCHANGED <<platform, runtime, control, checkpoint, codex>>,
         run' \in [Runs -> RunRow],
         \A t \in Runs : run'[t].source = run[t].source \/ Sourced(t),
         execution[r].state \in Final => row.state = execution[r].state,
         row.state = "FINISHED" => execution[r].state = "FINISHED" \/ AllowsDelivery(r),
         row.state \in {"AUTHORIZED", "UNKNOWN"} =>
           row.epoch = platform.epoch \/ (Open(r) /\ row.epoch = execution[r].epoch)
  PROVE  /\ CoreStep /\ \A t \in Runs : Hands(t)
         /\ \A t \in Runs : execution'[t] = IF t = r THEN row ELSE execution[t]
  <1>0. TypeOK
    BY DEF CodexInv
  <1>1. /\ execution' \in [Runs -> ExecutionRow]
        /\ \A t \in Runs : execution'[t] = IF t = r THEN row ELSE execution[t]
    BY <1>0, ExecutionSet
  <1>2. RowsInv' /\ \A t \in Runs : RowsKeep(t) /\ Hands(t)
    BY RowsSame DEF CodexInv
  <1>3. \A t \in Runs : SealTrue(t)' /\ SealKeep(t) /\ ExecutionKeep(t)
    BY <1>1 DEF CodexInv, CoreInv, SealTrue, SealKeep, ExecutionKeep
  <1>4. CoreTyped'
    BY <1>0, <1>1 DEF TypeOK, CoreTyped
  <1>5. RecoverySettlesExecutions'
    BY <1>1 DEF CodexInv, CoreInv, RecoverySettlesExecutions, Open
  <1>6. CoreInv'
    BY <1>0, <1>3, <1>5, CoreKept DEF CodexInv
  <1> QED
    BY <1>1, <1>2, <1>3, <1>4, <1>6 DEF CoreStep

LEMMA FinishStep ==
  ASSUME CodexInv, NEW r \in Runs, FinishCodex(r), codex' = codex
  PROVE  CoreStep /\ (\A t \in Runs : Hands(t)) /\ execution'[r].state = "FINISHED"
  <1> DEFINE row == [execution[r] EXCEPT !.state = "FINISHED", !.live = FALSE]
  <1>0. TypeOK /\ AllowsDelivery(r) /\ UNCHANGED <<platform, run, runtime, control, checkpoint>>
    BY DEF CodexInv, FinishCodex
  <1>1. CASE execution[r].state = "FINISHED" /\ execution' = execution
    BY <1>0, <1>1, CoreSame DEF coreVars
  <1>2. CASE Live(r) /\ execution' = [execution EXCEPT ![r].state = "FINISHED", ![r].live = FALSE]
    <2>1. row \in ExecutionRow /\ row.state = "FINISHED"
      BY <1>0, Fields, Members DEF ExecutionRow
    <2>2. execution' = [execution EXCEPT ![r] = row]
      BY <1>2
    <2> HIDE DEF row
    <2>3. execution[r].state \notin Final
      BY <1>2 DEF Live, Final
    <2>4. run' \in [Runs -> RunRow] /\ \A t \in Runs : run'[t].source = run[t].source
      BY <1>0 DEF TypeOK
    <2>5. row.state \notin {"AUTHORIZED", "UNKNOWN"}
      BY <2>1
    <2>6. CoreStep /\ \A t \in Runs : Hands(t)
      BY <1>0, <2>1, <2>2, <2>3, <2>4, <2>5, ExecutionWritten
    <2>7. execution'[r] = row
      BY <1>0, <2>1, <2>2, ExecutionSet
    <2> QED
      BY <2>1, <2>6, <2>7
  <1> QED
    BY <1>1, <1>2 DEF FinishCodex

LEMMA FailStep ==
  ASSUME CodexInv, NEW r \in Runs, FailCodex(r), codex' = codex
  PROVE  CoreStep /\ \A t \in Runs : Hands(t)
  <1> DEFINE s == IF execution[r].state = "AUTHORIZED" THEN "UNKNOWN" ELSE execution[r].state
             row == [execution[r] EXCEPT !.state = s]
  <1>0. TypeOK /\ UNCHANGED <<platform, run, runtime, control, checkpoint>> /\ execution[r] \in ExecutionRow
    BY Fields DEF CodexInv, FailCodex
  <1>1. s \in ExecutionStates
    BY <1>0, Members DEF ExecutionRow
  <1>2. execution[r].state # "AUTHORIZED" => s = execution[r].state
    OBVIOUS
  <1>3. execution[r].state = "AUTHORIZED" => s = "UNKNOWN"
    OBVIOUS
  <1>4. execution' = [execution EXCEPT ![r] = row]
    BY DEF FailCodex
  <1> HIDE DEF s
  <1>5. row \in ExecutionRow /\ row.state = s /\ row.epoch = execution[r].epoch
    BY <1>0, <1>1 DEF ExecutionRow
  <1> HIDE DEF row
  <1>6. run' \in [Runs -> RunRow] /\ \A t \in Runs : run'[t].source = run[t].source
    BY <1>0 DEF TypeOK
  <1>7. /\ execution[r].state \in Final => row.state = execution[r].state
        /\ row.state = "FINISHED" => execution[r].state = "FINISHED" \/ AllowsDelivery(r)
        /\ row.state \in {"AUTHORIZED", "UNKNOWN"} => Open(r) /\ row.epoch = execution[r].epoch
    BY <1>2, <1>3, <1>5 DEF Final, Open
  <1> QED
    BY <1>0, <1>4, <1>5, <1>6, <1>7, ExecutionWritten

LEMMA ExpireStep ==
  ASSUME CodexInv, NEW r \in Runs, ExpireLease(r) \/ AbandonExecution(r)
  PROVE  CoreStep /\ \A t \in Runs : Hands(t)
  <1> DEFINE dead == [execution[r] EXCEPT !.live = FALSE]
             left == [execution[r] EXCEPT !.state = "ABANDONED_RECONCILED"]
  <1>0. /\ TypeOK /\ UNCHANGED <<platform, run, runtime, control, checkpoint, codex>>
        /\ execution[r] \in ExecutionRow /\ Open(r)
    BY Fields DEF CodexInv, ExpireLease, AbandonExecution, Abandonable, hostVars
  <1>1. dead \in ExecutionRow /\ dead.state = execution[r].state /\ dead.epoch = execution[r].epoch
    BY <1>0 DEF ExecutionRow
  <1>2. left \in ExecutionRow /\ left.state = "ABANDONED_RECONCILED"
    BY <1>0, Members DEF ExecutionRow
  <1>3. PICK row \in {dead, left} : execution' = [execution EXCEPT ![r] = row]
    BY DEF ExpireLease, AbandonExecution
  <1> HIDE DEF dead, left
  <1>4. run' \in [Runs -> RunRow] /\ \A t \in Runs : run'[t].source = run[t].source
    BY <1>0 DEF TypeOK
  <1>5. /\ row \in ExecutionRow
        /\ execution[r].state \in Final => row.state = execution[r].state
        /\ row.state = "FINISHED" => execution[r].state = "FINISHED" \/ AllowsDelivery(r)
        /\ row.state \in {"AUTHORIZED", "UNKNOWN"} => Open(r) /\ row.epoch = execution[r].epoch
    BY <1>0, <1>1, <1>2, <1>3 DEF Final, Open
  <1> QED
    BY <1>0, <1>3, <1>4, <1>5, ExecutionWritten

LEMMA StartStep ==
  ASSUME CodexInv, NEW r \in Runs, StartCodex(r)
  PROVE  CoreStep /\ \A t \in Runs : Hands(t)
  <1> DEFINE row == [state |-> "AUTHORIZED", epoch |-> platform.epoch, live |-> TRUE]
  <1>0. /\ TypeOK /\ UNCHANGED <<platform, run, runtime, control, checkpoint, codex>>
        /\ execution[r].state = "ABSENT" /\ execution' = [execution EXCEPT ![r] = row]
    BY DEF CodexInv, StartCodex
  <1>1. row \in ExecutionRow /\ row.state = "AUTHORIZED" /\ row.epoch = platform.epoch
    BY <1>0, Members DEF TypeOK, ExecutionRow
  <1> HIDE DEF row
  <1>2. run' \in [Runs -> RunRow] /\ \A t \in Runs : run'[t].source = run[t].source
    BY <1>0 DEF TypeOK
  <1>3. execution[r].state \notin Final
    BY <1>0 DEF Final
  <1> QED
    BY <1>0, <1>1, <1>2, <1>3, ExecutionWritten

(* ContinueCodex: the source is stopped in the step that starts the successor. *)
LEMMA ContinueStep ==
  ASSUME CodexInv, NEW r \in Runs, NEW s \in Runs, ContinueCodex(r, s)
  PROVE  CoreStep /\ \A t \in Runs : Hands(t)
  <1> DEFINE row == [execution[r] EXCEPT !.state = "STOPPED_NO_DELIVERY", !.live = FALSE]
             old == [run[r] EXCEPT !.state = "ABORTED"]
             new == [state |-> "RUNNING", source |-> r, delivered |-> FALSE]
  <1>0. /\ TypeOK /\ UNCHANGED <<platform, runtime, control, checkpoint, codex>>
        /\ execution[r].state = "UNKNOWN" /\ Continuable(r)
        /\ run[r].state = "RUNNING" /\ run[s].state = "ABSENT"
    BY DEF CodexInv, ContinueCodex, hostVars
  <1>1. row \in ExecutionRow /\ row.state = "STOPPED_NO_DELIVERY"
    BY <1>0, Fields, Members DEF ExecutionRow
  <1>2. execution' = [execution EXCEPT ![r] = row]
    BY DEF ContinueCodex
  <1>3. old \in RunRow /\ old.source = run[r].source
    BY <1>0, Fields, Members DEF RunRow
  <1>4. new \in RunRow /\ new.source = r
    BY Members DEF RunRow
  <1>5. run' = [run EXCEPT ![r] = old, ![s] = new]
    BY DEF ContinueCodex
  <1> HIDE DEF row, old, new
  <1>6. r # s
    BY <1>0
  <1>7. run \in [Runs -> RunRow]
    BY <1>0 DEF TypeOK
  <1>8. run' \in [Runs -> RunRow]
    BY <1>3, <1>4, <1>5, <1>7
  <1>9. \A t \in Runs : run'[t] = IF t = s THEN new ELSE IF t = r THEN old ELSE run[t]
    BY <1>5, <1>7
  <1>10. execution'[r] = row
    BY <1>0, <1>1, <1>2, ExecutionSet
  <1>11. \A t \in Runs : run'[t].source = run[t].source \/ Sourced(t)
    BY <1>0, <1>1, <1>3, <1>4, <1>9, <1>10 DEF Sourced
  <1>12. execution[r].state \notin Final
    BY <1>0 DEF Final
  <1> QED
    BY <1>0, <1>1, <1>2, <1>8, <1>11, <1>12, ExecutionWritten

(* A step that writes only the runs or the platform. *)
LEMMA PlatformStep ==
  ASSUME CodexInv, UNCHANGED <<execution, runtime, control, checkpoint, codex>>,
         platform' \in [mode : {"NORMAL", "RECOVERY_RECONCILIATION"}, epoch : Epochs],
         run' \in [Runs -> RunRow], \A t \in Runs : run'[t].source = run[t].source,
         \/ platform' = platform
         \/ platform'.mode # "NORMAL"
         \/ FactsClear
  PROVE  CoreStep /\ \A t \in Runs : Hands(t)
  <1>1. CoreTyped'
    BY DEF CodexInv, TypeOK, CoreTyped
  <1>2. RowsInv' /\ \A t \in Runs : RowsKeep(t) /\ Hands(t)
    BY RowsSame DEF CodexInv
  <1>3. \A t \in Runs : SealTrue(t)' /\ SealKeep(t) /\ ExecutionKeep(t)
    BY DEF CodexInv, CoreInv, SealTrue, SealKeep, ExecutionKeep
  <1>4. RecoverySettlesExecutions'
    BY DEF CodexInv, CoreInv, RecoverySettlesExecutions, Open, FactsClear
  <1>5. CoreInv'
    BY <1>3, <1>4, CoreKept DEF CodexInv
  <1> QED
    BY <1>1, <1>2, <1>3, <1>5 DEF CoreStep

LEMMA RunStep ==
  ASSUME CodexInv, NEW r \in Runs, CompleteRun(r) \/ CreateDelivery(r)
  PROVE  CoreStep /\ \A t \in Runs : Hands(t)
  <1> DEFINE completed == [run[r] EXCEPT !.state = "COMPLETED"]
             delivered == [run[r] EXCEPT !.delivered = TRUE]
  <1>0. /\ TypeOK /\ UNCHANGED <<platform, execution, runtime, control, checkpoint, codex>>
        /\ run[r] \in RunRow /\ run \in [Runs -> RunRow]
    BY Fields DEF CodexInv, TypeOK, CompleteRun, CreateDelivery, hostVars
  <1>1. completed \in RunRow /\ completed.source = run[r].source
    BY <1>0, Members DEF RunRow
  <1>2. delivered \in RunRow /\ delivered.source = run[r].source
    BY <1>0 DEF RunRow
  <1>3. PICK row \in {completed, delivered} : run' = [run EXCEPT ![r] = row]
    BY DEF CompleteRun, CreateDelivery
  <1> HIDE DEF completed, delivered
  <1>4. row \in RunRow /\ row.source = run[r].source
    BY <1>1, <1>2, <1>3
  <1>5. run' \in [Runs -> RunRow] /\ \A t \in Runs : run'[t].source = run[t].source
    BY <1>0, <1>3, <1>4
  <1>6. platform' \in [mode : {"NORMAL", "RECOVERY_RECONCILIATION"}, epoch : Epochs]
    BY <1>0 DEF TypeOK
  <1> QED
    BY <1>0, <1>5, <1>6, PlatformStep

LEMMA RecoveryStep ==
  ASSUME CodexInv, BeginRecovery \/ CompleteRecovery
  PROVE  CoreStep /\ \A t \in Runs : Hands(t)
  <1>0. TypeOK /\ UNCHANGED <<run, execution, runtime, control, checkpoint, codex>>
    BY DEF CodexInv, BeginRecovery, CompleteRecovery, hostVars
  <1>1. platform' \in [mode : {"NORMAL", "RECOVERY_RECONCILIATION"}, epoch : Epochs]
    BY <1>0, Members DEF TypeOK, BeginRecovery, CompleteRecovery
  <1>2. platform'.mode # "NORMAL" \/ FactsClear
    BY DEF BeginRecovery, CompleteRecovery
  <1>3. run' \in [Runs -> RunRow] /\ \A t \in Runs : run'[t].source = run[t].source
    BY <1>0 DEF TypeOK
  <1> QED
    BY <1>0, <1>1, <1>2, <1>3, PlatformStep

(* QueueCodexControl: the next row of the sequence. *)
LEMMA QueueStep ==
  ASSUME CodexInv, NEW r \in Runs, NEW kind \in Kinds, QueueCodexControl(r, kind)
  PROVE  CoreStep /\ \A t \in Runs : Hands(t)
  <1> DEFINE count == Cardinality(Queued(r))
             row == [NoControl EXCEPT !.kind = kind, !.state = "QUEUED"]
  <1>0. /\ TypeOK /\ RowsInv /\ UNCHANGED <<platform, run, execution, runtime, checkpoint, codex>>
        /\ count < MaxControls /\ runtime[r].state = "ACTIVE"
        /\ control' = [control EXCEPT ![r][count + 1] = row]
    BY DEF CodexInv, QueueCodexControl, hostVars
  <1>1. row \in ControlRow /\ row.state = "QUEUED" /\ ~row.dispatched /\ row.applied = 0
    BY NothingTyped, Members DEF NoControl, ControlRow
  <1>2. count \in 0 .. MaxControls /\ Queued(r) = 1 .. count
    <2>1. PICK k \in 0 .. MaxControls : Queued(r) = 1 .. k
      BY <1>0 DEF RowsInv, RowsInOrder
    <2>2. Cardinality(1 .. k) = k
      BY <2>1, FS_Interval
    <2> QED
      BY <2>1, <2>2
  <1> HIDE DEF count, row
  <1>3. PICK i \in Controls : i = count + 1
    BY <1>0, <1>2, ControlsAssumption DEF Controls
  <1>4. control[r][i].state = "ABSENT" /\ RowTrue(r, i)
    <2>1. i \notin 1 .. count
      BY <1>2, <1>3
    <2> QED
      BY <1>0, <1>2, <1>3, <2>1 DEF Queued, RowsInv
  <1>5. i \notin codex[r].requests /\ ~control[r][i].dispatched
    BY <1>4 DEF RowTrue, Untouched, Waiting
  <1>6. /\ control' \in [Runs -> [Controls -> ControlRow]]
        /\ \A t \in Runs, j \in Controls : control'[t][j] = IF t = r /\ j = i THEN row ELSE control[t][j]
    <2>1. control' = [control EXCEPT ![r][i] = row]
      BY <1>0, <1>3
    <2>2. TypeOK /\ row \in ControlRow
      BY <1>0, <1>1
    <2> QED
      BY <2>1, <2>2, ControlSet
  <1>7. ASSUME NEW t \in Runs, NEW j \in Controls
        PROVE  RowTrue(t, j)'
    <2>1. CASE t = r /\ j = i
      BY <1>0, <1>1, <1>5, <1>6, <2>1 DEF RowTrue, Untouched, Waiting
    <2>2. CASE ~(t = r /\ j = i)
      <3>1. RowTrue(t, j) /\ control'[t][j] = control[t][j]
        BY <1>0, <1>6, <2>2 DEF RowsInv
      <3> QED
        BY <1>0, <3>1 DEF RowTrue
    <2> QED
      BY <2>1, <2>2
  <1>8. ASSUME NEW t \in Runs
        PROVE  RowsInOrder(t)'
    <2>1. RowsInOrder(t)
      BY <1>0 DEF RowsInv
    <2>2. CASE t # r
      <3>1. \A j \in Controls : control'[t][j] = control[t][j]
        BY <1>6, <2>2
      <3>2. Queued(t)' = Queued(t)
        BY <3>1 DEF Queued
      <3> QED
        BY <2>1, <3>1, <3>2 DEF RowsInOrder
    <2>3. CASE t = r
      <3>1. Queued(t)' = Queued(t) \cup {i}
        BY <1>1, <1>6, <2>3 DEF Queued
      <3>2. Queued(t)' = 1 .. (count + 1) /\ count + 1 \in 0 .. MaxControls
        BY <1>0, <1>2, <1>3, <2>3, <3>1, ControlsAssumption
      <3>3. ASSUME NEW k \in Controls, NEW j \in Controls, k < j, control'[t][j].dispatched
            PROVE  control'[t][k].state \in Terminal
        <4>1. j # i /\ control[r][j].dispatched
          BY <1>1, <1>6, <2>3, <3>3
        <4>2. control[r][k].state \in Terminal
          BY <2>1, <2>3, <3>3, <4>1 DEF RowsInOrder
        <4>3. k # i
          BY <1>4, <4>2 DEF Terminal
        <4> QED
          BY <1>6, <2>3, <4>2, <4>3
      <3> QED
        BY <3>2, <3>3 DEF RowsInOrder
    <2> QED
      BY <2>2, <2>3
  <1>9. RowsInv'
    BY <1>7, <1>8 DEF RowsInv
  <1>10. \A t \in Runs, j \in Controls :
           control[t][j].state # "ABSENT" => control'[t][j] = control[t][j]
    BY <1>4, <1>6
  <1>11. \A t \in Runs : t # r => \A j \in Controls : control'[t][j] = control[t][j]
    BY <1>6
  <1>12. \A t \in Runs : RowsKeep(t) /\ Hands(t)
    <2>1. control[r][i].applied = 0
      BY <1>4 DEF RowTrue, Untouched
    <2>2. \A t \in Runs, j \in Controls : control'[t][j].applied = control[t][j].applied
      BY <1>1, <1>6, <2>1
    <2> QED
      BY <1>10, <2>2 DEF RowsKeep, Hands, Waiting
  <1>13. \A t \in Runs : SealKeep(t)
    BY <1>0, <1>11 DEF SealKeep
  <1> QED
    BY <1>0, <1>6, <1>9, <1>12, <1>13, ControlOnly

-----------------------------------------------------------------------------
(* Calls. *)

(* The controls a call may settle are those of its own run. *)
Careful(q, t) == t # q.run \/ q.op \notin {"settle", "close"}

LEMMA ServeStep ==
  ASSUME CodexInv, NEW q \in Requests, Told(q), Serve(q), codex' = codex
  PROVE  CoreStep /\ \A t \in Runs : Careful(q, t) => Hands(t)
  <1>0. q.run \in Runs
    BY DEF Requests
  <1>1. CASE q.op = "bind" /\ BindCodexControl(q.run)
    BY <1>0, <1>1, BindStep
  <1>2. CASE q.op = "claim" /\ \E i \in Controls : ClaimCodexControl(q.run, i)
    BY <1>0, <1>2, ClaimStep
  <1>3. CASE q.op = "settle" /\ SettleCodexControl(q.run, q.control, q.outcome)
    BY <1>3, SettleStep DEF Careful
  <1>4. CASE q.op = "close" /\ CloseCodexControl(q.run, q.status, q.quiescent)
    BY <1>4, CloseStep DEF Careful
  <1>5. CASE q.op = "checkpoint" /\ SaveCodexCheckpoint(q.run)
    BY <1>0, <1>5, CheckpointStep
  <1>6. CASE q.op = "finish" /\ FinishCodex(q.run)
    BY <1>0, <1>6, FinishStep
  <1>7. CASE q.op = "fail" /\ FailCodex(q.run)
    BY <1>0, <1>7, FailStep
  <1> QED
    BY <1>1, <1>2, <1>3, <1>4, <1>5, <1>6, <1>7 DEF Serve

(* What a call leaves, answered or not. *)
Left(q) ==
  /\ CoreStep
  /\ \A t \in Runs : Careful(q, t) => Hands(t)
  /\ late' \subseteq Requests
  /\ \A p \in late' : p \in late \/ (p = q /\ Told(q)')

LEMMA CallStep ==
  ASSUME CodexInv, NEW q \in Requests, Told(q), Heard(q) \/ Unheard(q), codex' = codex
  PROVE  Left(q)
  <1>0. late \subseteq Requests
    BY DEF CodexInv, TypeOK
  <1>1. CASE Serve(q) /\ UNCHANGED late
    BY <1>0, <1>1, ServeStep DEF Left
  <1>2. CASE UNCHANGED <<coreVars, late>>
    BY <1>0, <1>2, CoreSame DEF Left
  <1>3. CASE UNCHANGED coreVars /\ late' = late \cup {q}
    <2>1. control' = control
      BY <1>3 DEF coreVars
    <2>2. Told(q)'
      BY <2>1 DEF Told
    <2> QED
      BY <1>0, <1>3, <2>2, CoreSame DEF Left
  <1> QED
    BY <1>1, <1>2, <1>3 DEF Heard, Unheard

LEMMA CallsTyped ==
  ASSUME NEW r \in Runs
  PROVE  /\ \A op \in CallOps : /\ Call(r, op) \in Requests /\ Call(r, op).run = r
                                /\ Call(r, op).op = op
         /\ \A i \in Chosen, outcome \in DeliveryStates :
              /\ ReportCall(r, i, outcome) \in Requests /\ ReportCall(r, i, outcome).run = r
              /\ ReportCall(r, i, outcome).op = "settle" /\ ReportCall(r, i, outcome).control = i
              /\ ReportCall(r, i, outcome).outcome = outcome
         /\ \A status \in TurnStatus, proof \in BOOLEAN :
              /\ CloseCall(r, status, proof) \in Requests /\ CloseCall(r, status, proof).run = r
              /\ CloseCall(r, status, proof).op = "close" /\ CloseCall(r, status, proof).status = status
              /\ CloseCall(r, status, proof).quiescent = proof
  <1>1. ASSUME NEW op \in CallOps
        PROVE  Call(r, op) \in Requests /\ Call(r, op).run = r /\ Call(r, op).op = op
    BY Members DEF Call, Requests
  <1>2. ASSUME NEW i \in Chosen, NEW outcome \in DeliveryStates
        PROVE  /\ ReportCall(r, i, outcome) \in Requests /\ ReportCall(r, i, outcome).run = r
               /\ ReportCall(r, i, outcome).op = "settle" /\ ReportCall(r, i, outcome).control = i
               /\ ReportCall(r, i, outcome).outcome = outcome
    BY Members DEF ReportCall, Call, Requests
  <1>3. ASSUME NEW status \in TurnStatus, NEW proof \in BOOLEAN
        PROVE  /\ CloseCall(r, status, proof) \in Requests /\ CloseCall(r, status, proof).run = r
               /\ CloseCall(r, status, proof).op = "close" /\ CloseCall(r, status, proof).status = status
               /\ CloseCall(r, status, proof).quiescent = proof
    BY Members DEF CloseCall, Call, Requests
  <1> QED
    BY <1>1, <1>2, <1>3

(* A call that says nothing is true. *)
LEMMA PlainCall ==
  ASSUME CodexInv, NEW r \in Runs, NEW op \in CallOps \ {"settle", "close"},
         Heard(Call(r, op)) \/ Unheard(Call(r, op)), codex' = codex
  PROVE  /\ CoreStep /\ \A t \in Runs : Hands(t)
         /\ late' \subseteq Requests
         /\ \A p \in late' : p \in late \/ (p = Call(r, op) /\ Told(p)')
  <1>1. PICK q \in Requests : q = Call(r, op) /\ q.run = r /\ q.op = op
    BY CallsTyped
  <1>2. Told(q)
    BY <1>1 DEF Told
  <1>3. Left(q)
    BY <1>1, <1>2, CallStep
  <1>4. \A t \in Runs : Careful(q, t)
    BY <1>1 DEF Careful
  <1> QED
    BY <1>1, <1>3, <1>4 DEF Left

-----------------------------------------------------------------------------
(* Steps of the worker's host. *)

HostTyped ==
  agent \in [Runs -> AgentState] /\ pump \in [Runs -> PumpState] /\ codex \in [Runs -> CodexState]

(* A process that is gone stays gone, and a turn that ended has ended. *)
CodexKeep(t) ==
  /\ codex[t].process = "gone" => codex'[t].process = "gone"
  /\ codex[t].turn \notin {"none", "active"} => codex'[t].turn = codex[t].turn

(* Only a pump that has claimed a control sends a request. *)
RequestsKeep(t) ==
  pump[t].pc # "claimed" => codex'[t].requests \subseteq codex[t].requests

(* An agent never comes back to an earlier phase. *)
PastKeep(t) ==
  /\ agent[t].pc \notin Early => agent'[t].pc \notin Early
  /\ agent[t].pc \notin Early \cup {"observe"} => agent'[t].pc # "observe"
  /\ agent[t].pc \notin Early /\ pump[t].pc \in {"off", "ended"} => pump'[t].pc \in {"off", "ended"}

(* What the provider does with a control is not undone. *)
AppliedKeep(t) ==
  \A i \in Controls : control[t][i].state \notin Waiting =>
    /\ control'[t][i].state \notin Waiting
    /\ i \notin codex[t].requests => control'[t][i].applied = control[t][i].applied

LEMMA LateKept ==
  ASSUME CodexInv, late' \subseteq Requests,
         \A t \in Runs : CodexKeep(t) /\ RequestsKeep(t) /\ PastKeep(t) /\ AppliedKeep(t),
         \A p \in late' : p \in late \/ (Told(p)' /\ Past(p)')
  PROVE  LateInv'
  <1> SUFFICES ASSUME NEW p \in late', p \in late
               PROVE  Told(p)' /\ Past(p)'
    BY DEF LateInv
  <1>0. TypeOK /\ Told(p) /\ Past(p) /\ p \in Requests
    BY DEF CodexInv, LateInv
  <1>1. PICK r \in Runs : r = p.run
    BY <1>0 DEF Requests
  <1>2. CodexKeep(r) /\ RequestsKeep(r) /\ PastKeep(r) /\ AppliedKeep(r)
    OBVIOUS
  <1>3. Past(p)'
    BY <1>0, <1>1, <1>2 DEF Past, PastKeep, At
  <1>4. ASSUME p.op = "settle"
        PROVE  /\ p.control \in Controls /\ control'[r][p.control].state \notin Waiting
               /\ p.outcome = "NOT_APPLIED" =>
                    control'[r][p.control].applied = 0 /\ p.control \notin codex'[r].requests
               /\ p.outcome \in Acknowledged => control'[r][p.control].applied = 1
    <2>1. PICK i \in Controls : i = p.control
      BY <1>0, <1>4 DEF Told
    <2>2. control[r][i].state \notin Waiting /\ RowTrue(r, i)
      BY <1>0, <1>1, <1>4, <2>1 DEF Told, CodexInv, RowsInv
    <2>3. pump[r].pc # "claimed"
      BY <1>0, <1>1, <1>4 DEF Past
    <2>4. control'[r][i].state \notin Waiting
      BY <1>2, <2>2 DEF AppliedKeep
    <2>5. ASSUME p.outcome = "NOT_APPLIED"
          PROVE  control'[r][i].applied = 0 /\ i \notin codex'[r].requests
      <3>1. control[r][i].applied = 0 /\ i \notin codex[r].requests
        BY <1>0, <1>1, <1>4, <2>1, <2>5 DEF Told
      <3> QED
        BY <1>2, <2>2, <2>3, <3>1 DEF AppliedKeep, RequestsKeep
    <2>6. ASSUME p.outcome \in Acknowledged
          PROVE  control'[r][i].applied = 1
      <3>1. control[r][i].applied = 1
        BY <1>0, <1>1, <1>4, <2>1, <2>6 DEF Told
      <3>2. i \notin codex[r].requests
        BY <2>2, <3>1 DEF RowTrue
      <3> QED
        BY <1>2, <2>2, <3>1, <3>2 DEF AppliedKeep
    <2> QED
      BY <2>1, <2>4, <2>5, <2>6
  <1>5. ASSUME p.op = "close"
        PROVE  /\ p.quiescent => codex'[r].process = "gone"
               /\ p.status # "unknown" => codex'[r].turn = p.status
    <2>1. /\ p.quiescent => codex[r].process = "gone"
          /\ p.status # "unknown" => codex[r].turn = p.status
      BY <1>0, <1>1, <1>5 DEF Told
    <2>2. p.status \in TurnStatus
      BY <1>0 DEF Requests
    <2>3. p.status \notin {"none", "active"}
      BY <2>2 DEF TurnStatus
    <2> QED
      BY <1>2, <2>1, <2>3 DEF CodexKeep
  <1>6. Told(p)'
    BY <1>1, <1>4, <1>5 DEF Told
  <1> QED
    BY <1>3, <1>6

(* What a step must show of a run whose agent, pump or process it moves. *)
Fine(t) == PumpHolds(t)' /\ AgentKnows(t)' /\ CodexKeep(t) /\ RequestsKeep(t) /\ PastKeep(t)

HostSame(t) == agent'[t] = agent[t] /\ pump'[t] = pump[t] /\ codex'[t] = codex[t]

(* A pump that is left alone still holds its control. *)
LEMMA PumpKept ==
  ASSUME NEW t \in Runs, PumpHolds(t), RowsKeep(t), Hands(t), pump'[t] = pump[t],
         pump[t].pc # "off" => agent'[t].pc = "observe",
         codex'[t].requests = codex[t].requests
  PROVE  PumpHolds(t)'
  <1>1. CASE pump[t].pc \in {"claimed", "calling", "report"}
    <2>1. PICK i \in Controls : i = pump[t].control
      BY <1>1 DEF PumpHolds
    <2>2. control[t][i].state = "DISPATCHING"
      BY <1>1, <2>1 DEF PumpHolds
    <2>3. control'[t][i].state = "DISPATCHING" /\ control'[t][i].applied = control[t][i].applied
      BY <2>2 DEF RowsKeep, Hands, Waiting
    <2> QED
      BY <1>1, <2>1, <2>3 DEF PumpHolds, At
  <1>2. CASE pump[t].pc \notin {"claimed", "calling", "report"}
    BY <1>2 DEF PumpHolds, At
  <1> QED
    BY <1>1, <1>2

LEMMA SameFine ==
  ASSUME CodexInv, NEW t \in Runs, HostSame(t), RowsKeep(t), Hands(t), ExecutionKeep(t)
  PROVE  Fine(t)
  <1>0. PumpHolds(t) /\ AgentKnows(t)
    BY DEF CodexInv, HostInv
  <1>1. PumpHolds(t)'
    BY <1>0, PumpKept DEF HostSame, PumpHolds, At
  <1>2. AgentKnows(t)'
    BY <1>0 DEF HostSame, AgentKnows, ExecutionKeep, Final
  <1> QED
    BY <1>1, <1>2 DEF Fine, HostSame, CodexKeep, RequestsKeep, PastKeep

(* A control takes effect before every later one. *)
InTurn(t) ==
  \A i \in Controls : control'[t][i].applied # control[t][i].applied =>
    \A j \in Controls : j >= i => control[t][j].applied = 0

(* What every step must show. *)
Safe == CodexInv' /\ \A t \in Runs : SealKeep(t) /\ ExecutionKeep(t) /\ InTurn(t)

LEMMA StepSafe ==
  ASSUME CodexInv, CoreStep, HostTyped', late' \subseteq Requests,
         \A t \in Runs : Fine(t) \/ (HostSame(t) /\ Hands(t)),
         \A p \in late' : p \in late \/ (Told(p)' /\ Past(p)')
  PROVE  Safe
  <1>1. \A t \in Runs : Fine(t)
    BY SameFine DEF CoreStep
  <1>2. TypeOK'
    BY DEF CoreStep, CoreTyped, HostTyped, TypeOK
  <1>3. HostInv'
    BY <1>1 DEF HostInv, Fine
  <1>4. \A t \in Runs : AppliedKeep(t)
    BY DEF CoreStep, RowsKeep, AppliedKeep
  <1>5. LateInv'
    BY <1>1, <1>4, LateKept DEF Fine
  <1>6. \A t \in Runs : InTurn(t)
    BY DEF CoreStep, RowsKeep, InTurn
  <1> QED
    BY <1>2, <1>3, <1>5, <1>6 DEF CoreStep, CodexInv, Safe

(* A step of the control plane alone. *)
LEMMA PlaneSafe ==
  ASSUME CodexInv, CoreStep, \A t \in Runs : Hands(t), UNCHANGED <<agent, pump, codex>>, late' \subseteq late
  PROVE  Safe
  <1>1. HostTyped' /\ late' \subseteq Requests
    BY DEF CodexInv, TypeOK, HostTyped
  <1>2. \A t \in Runs : HostSame(t)
    BY DEF HostSame
  <1> QED
    BY <1>1, <1>2, StepSafe

(* A late call of a run is applied: its pump has no control in hand that   *)
(* the call could settle.                                                  *)
LEMMA LateSafe ==
  ASSUME CodexInv, NEW q \in late, LateCall(q)
  PROVE  Safe
  <1>0. TypeOK /\ q \in Requests /\ Told(q) /\ Past(q)
    BY DEF CodexInv, TypeOK, LateInv
  <1>1. UNCHANGED <<agent, pump, codex>> /\ late' \subseteq late
    BY DEF LateCall, hostVars
  <1>2. CoreStep /\ \A t \in Runs : Careful(q, t) => Hands(t)
    <2>1. CASE Serve(q)
      BY <1>0, <1>1, <2>1, ServeStep
    <2>2. CASE UNCHANGED coreVars
      BY <1>1, <2>2, CoreSame
    <2> QED
      BY <2>1, <2>2 DEF LateCall
  <1>3. ASSUME NEW t \in Runs, ~Careful(q, t)
        PROVE  Fine(t)
    <2>0. t = q.run /\ q.op \in {"settle", "close"} /\ PumpHolds(t) /\ AgentKnows(t)
      BY <1>3 DEF Careful, CodexInv, HostInv
    <2>1. pump[t].pc \in {"off", "ended"}
      BY <1>0, <2>0 DEF Past, PumpHolds
    <2>2. PumpHolds(t)'
      BY <1>1, <2>0, <2>1 DEF PumpHolds, At
    <2>3. AgentKnows(t)'
      BY <1>1, <1>2, <2>0 DEF AgentKnows, CoreStep, ExecutionKeep, Final
    <2> QED
      BY <1>1, <2>2, <2>3 DEF Fine, CodexKeep, RequestsKeep, PastKeep
  <1>4. HostTyped' /\ late' \subseteq Requests
    BY <1>0, <1>1 DEF TypeOK, HostTyped
  <1>5. \A t \in Runs : HostSame(t)
    BY <1>1 DEF HostSame
  <1> QED
    BY <1>1, <1>2, <1>3, <1>4, <1>5, StepSafe

(* A step of the host that leaves the control plane alone, and the rows true. *)
LEMMA CodexMoved ==
  ASSUME CodexInv, UNCHANGED coreVars, \A t \in Runs : CodexKeep(t),
         \A t \in Runs, i \in Controls : RowTrue(t, i)'
  PROVE  CoreStep /\ \A t \in Runs : Hands(t)
  <1>0. UNCHANGED <<platform, run, execution, runtime, control, checkpoint>> /\ TypeOK
    BY DEF coreVars, CodexInv
  <1>1. CoreTyped'
    BY <1>0 DEF TypeOK, CoreTyped
  <1>2. \A t \in Runs : RowsInOrder(t)' <=> RowsInOrder(t)
    BY <1>0 DEF RowsInOrder, Queued
  <1>3. RowsInv'
    BY <1>2 DEF CodexInv, RowsInv
  <1>4. ASSUME NEW t \in Runs
        PROVE  SealTrue(t)'
    <2>1. SealTrue(t) /\ runtime[t].status \in TurnStatus
      BY <1>0, Fields DEF CodexInv, CoreInv
    <2>2. runtime[t].status \notin {"none", "active"}
      BY <2>1 DEF TurnStatus
    <2> QED
      BY <1>0, <2>1, <2>2 DEF SealTrue, CodexKeep
  <1>5. \A t \in Runs : RowsKeep(t) /\ Hands(t) /\ SealKeep(t) /\ ExecutionKeep(t)
    BY <1>0 DEF RowsKeep, Hands, SealKeep, ExecutionKeep
  <1>6. RecoverySettlesExecutions'
    BY <1>0 DEF CodexInv, CoreInv, RecoverySettlesExecutions, Open
  <1>7. CoreInv'
    BY <1>0, <1>4, <1>5, <1>6, CoreKept DEF CodexInv
  <1> QED
    BY <1>1, <1>3, <1>5, <1>7 DEF CoreStep

LEMMA HostSafe ==
  ASSUME CodexInv, UNCHANGED coreVars, late' = late, HostTyped', NEW r \in Runs, Fine(r),
         codex'[r].requests = codex[r].requests,
         \A t \in Runs : t # r => HostSame(t)
  PROVE  Safe
  <1>0. \A t \in Runs : CodexKeep(t) /\ codex'[t].requests = codex[t].requests
    BY DEF Fine, HostSame, CodexKeep
  <1>1. ASSUME NEW t \in Runs, NEW i \in Controls
        PROVE  RowTrue(t, i)'
    BY <1>0 DEF CodexInv, RowsInv, RowTrue, CodexKeep, coreVars
  <1>2. CoreStep /\ \A t \in Runs : Hands(t)
    BY <1>0, <1>1, CodexMoved
  <1>3. late \subseteq Requests
    BY DEF CodexInv, TypeOK
  <1> QED
    BY <1>2, <1>3, StepSafe

-----------------------------------------------------------------------------
(* The agent. *)

LEMMA GoRow ==
  ASSUME TypeOK, NEW r \in Runs, NEW pc \in MainPCs, Go(r, pc)
  PROVE  /\ agent' \in [Runs -> AgentState] /\ \A t \in Runs : t # r => agent'[t] = agent[t]
         /\ agent'[r].pc = pc /\ agent'[r].status = agent[r].status /\ agent'[r].proof = agent[r].proof
  <1> DEFINE row == [agent[r] EXCEPT !.pc = pc]
  <1>1. row \in AgentState /\ row.pc = pc /\ row.status = agent[r].status /\ row.proof = agent[r].proof
    BY Fields DEF AgentState
  <1>2. agent' = [agent EXCEPT ![r] = row]
    BY DEF Go
  <1> HIDE DEF row
  <1> QED
    BY <1>1, <1>2, AgentSet

LEMMA ReturnRow ==
  ASSUME TypeOK, NEW r \in Runs, NEW pc \in MainPCs, Return(r, pc)
  PROVE  /\ agent' \in [Runs -> AgentState] /\ \A t \in Runs : t # r => agent'[t] = agent[t]
         /\ agent'[r].pc = pc /\ agent'[r].status = "unknown" /\ ~agent'[r].proof
  <1> DEFINE row == [NoAgent EXCEPT !.pc = pc]
  <1>1. row \in AgentState /\ row.pc = pc /\ row.status = "unknown" /\ ~row.proof
    BY NothingTyped DEF NoAgent, AgentState
  <1>2. agent' = [agent EXCEPT ![r] = row]
    BY DEF Return
  <1> HIDE DEF row
  <1> QED
    BY <1>1, <1>2, AgentSet

(* After its turn the agent goes from phase to phase: it keeps or forgets  *)
(* what it knows, and its calls may be late.                               *)
Later(r) ==
  /\ agent' \in [Runs -> AgentState] /\ \A t \in Runs : t # r => agent'[t] = agent[t]
  /\ agent[r].pc \notin Early \cup {"observe"} /\ agent'[r].pc \notin Early \cup {"observe"}
  /\ agent'[r].status = agent[r].status \/ agent'[r].status = "unknown"
  /\ agent'[r].proof => agent[r].proof
  /\ UNCHANGED <<pump, codex>>

LEMMA LaterSafe ==
  ASSUME CodexInv, NEW r \in Runs, Later(r), CoreStep, \A t \in Runs : t # r => Hands(t),
         agent'[r].pc = "done" => execution'[r].state = "FINISHED",
         late' \subseteq Requests, \A p \in late' : p \in late \/ (p.run = r /\ Told(p)')
  PROVE  Safe
  <1>0. TypeOK /\ PumpHolds(r) /\ AgentKnows(r)
    BY DEF CodexInv, HostInv
  <1>1. pump'[r].pc = "off" /\ pump[r].pc = "off" /\ codex'[r] = codex[r]
    BY <1>0 DEF Later, PumpHolds, At
  <1>2. PumpHolds(r)'
    BY <1>1 DEF PumpHolds
  <1>3. AgentKnows(r)'
    BY <1>0, <1>1 DEF AgentKnows, Later, Early
  <1>4. CodexKeep(r) /\ RequestsKeep(r) /\ PastKeep(r)
    BY <1>1 DEF CodexKeep, RequestsKeep, PastKeep, Later
  <1>5. HostTyped'
    BY <1>0 DEF Later, TypeOK, HostTyped
  <1>6. \A t \in Runs : t # r => HostSame(t)
    BY DEF Later, HostSame
  <1>7. \A p \in late' : p \in late \/ (Told(p)' /\ Past(p)')
    BY <1>1 DEF Past, Later, At
  <1> QED
    BY <1>2, <1>3, <1>4, <1>5, <1>6, <1>7, StepSafe DEF Fine

(* Such a phase without a call. *)
LEMMA LaterAlone ==
  ASSUME CodexInv, NEW r \in Runs, Later(r), UNCHANGED <<coreVars, late>>, agent'[r].pc # "done"
  PROVE  Safe
  <1>1. CoreStep /\ \A t \in Runs : Hands(t)
    BY CoreSame DEF Later
  <1>2. late \subseteq Requests
    BY DEF CodexInv, TypeOK
  <1> QED
    BY <1>1, <1>2, LaterSafe

(* Finalize, FinalRenew and PhaseFails. *)
LEMMA PhaseSafe ==
  ASSUME CodexInv, NEW r \in Runs, Finalize(r) \/ FinalRenew(r) \/ PhaseFails(r)
  PROVE  Safe
  <1>0. TypeOK /\ UNCHANGED <<coreVars, late>> /\ UNCHANGED <<pump, codex>>
    BY DEF CodexInv, Finalize, FinalRenew, PhaseFails, RenewCodex
  <1>1. agent[r].pc \in {"finalize", "renew", "report", "again"}
    BY DEF Finalize, FinalRenew, PhaseFails, At
  <1>2. PICK pc \in {"renew", "report", "retain"} : Go(r, pc)
    BY DEF Finalize, FinalRenew, PhaseFails
  <1>3. pc \in MainPCs
    BY <1>2, Members
  <1>4. Later(r) /\ agent'[r].pc = pc
    BY <1>0, <1>1, <1>2, <1>3, GoRow DEF Later, Early
  <1> QED
    BY <1>0, <1>2, <1>4, LaterAlone

LEMMA ReportSafe ==
  ASSUME CodexInv, NEW r \in Runs, Report(r)
  PROVE  Safe
  <1>0. TypeOK /\ UNCHANGED <<pump, codex>> /\ agent[r].pc \in {"report", "again"}
    BY DEF CodexInv, Report, At
  <1>1. Heard(Call(r, "finish")) \/ Unheard(Call(r, "finish"))
    BY DEF Report
  <1>2. PICK q : q = Call(r, "finish")
    OBVIOUS
  <1>3. q.run = r /\ q.op = "finish"
    BY <1>2, CallsTyped, Members
  <1>4. /\ CoreStep /\ \A t \in Runs : Hands(t)
        /\ late' \subseteq Requests /\ \A p \in late' : p \in late \/ (p.run = r /\ Told(p)')
    BY <1>0, <1>1, <1>2, <1>3, Members, PlainCall
  <1>5. Later(r) /\ (agent'[r].pc = "done" => execution'[r].state = "FINISHED")
    <2>1. CASE Heard(q) /\ Return(r, "done")
      <3>1. FinishCodex(r)
        BY <1>3, <2>1 DEF Heard, Serve
      <3>2. execution'[r].state = "FINISHED"
        BY <1>0, <3>1, FinishStep
      <3> QED
        BY <1>0, <2>1, <3>2, Members, ReturnRow DEF Later, Early
    <2>2. CASE \E pc \in {"again", "retain"} : Go(r, pc)
      BY <1>0, <2>2, Members, GoRow DEF Later, Early
    <2> QED
      BY <1>2, <2>1, <2>2 DEF Report
  <1> QED
    BY <1>4, <1>5, LaterSafe

(* Retain and Fail. *)
LEMMA RetainSafe ==
  ASSUME CodexInv, NEW r \in Runs, Retain(r) \/ Fail(r)
  PROVE  Safe
  <1>0. TypeOK /\ UNCHANGED <<pump, codex>> /\ agent[r].pc \in {"retain", "fail"}
    BY DEF CodexInv, Retain, Fail, At
  <1>1. Later(r) /\ agent'[r].pc \in {"fail", "failed"}
    <2>1. CASE Fail(r)
      BY <1>0, <2>1, Members, ReturnRow DEF Fail, Later, Early
    <2>2. CASE Retain(r)
      <3> DEFINE row == [NoAgent EXCEPT !.pc = "fail", !.ok = FALSE]
      <3>1. row \in AgentState /\ row.pc = "fail" /\ row.status = "unknown" /\ ~row.proof
        BY NothingTyped, Members DEF NoAgent, AgentState
      <3>2. agent' = [agent EXCEPT ![r] = row]
        BY <2>2 DEF Retain
      <3> HIDE DEF row
      <3> QED
        BY <1>0, <3>1, <3>2, AgentSet DEF Later, Early
    <2> QED
      BY <2>1, <2>2
  <1>2. CASE UNCHANGED <<coreVars, late>>
    BY <1>1, <1>2, LaterAlone
  <1>3. CASE \E op \in {"checkpoint", "fail"} : Heard(Call(r, op)) \/ Unheard(Call(r, op))
    <2>1. PICK op \in {"checkpoint", "fail"} : Heard(Call(r, op)) \/ Unheard(Call(r, op))
      BY <1>3
    <2>2. op \in CallOps \ {"settle", "close"}
      BY <2>1, Members
    <2>3. Call(r, op).run = r
      BY <2>2, CallsTyped
    <2>4. /\ CoreStep /\ \A t \in Runs : Hands(t)
          /\ late' \subseteq Requests /\ \A p \in late' : p \in late \/ (p.run = r /\ Told(p)')
      BY <1>0, <2>1, <2>2, <2>3, PlainCall
    <2> QED
      BY <1>1, <2>4, LaterSafe
  <1> QED
    BY <1>2, <1>3 DEF Retain, Fail

LEMMA CloseSafe ==
  ASSUME CodexInv, NEW r \in Runs, CloseControls(r)
  PROVE  Safe
  <1>0. TypeOK /\ AgentKnows(r) /\ UNCHANGED <<pump, codex>> /\ agent[r].pc = "close"
    BY DEF CodexInv, HostInv, CloseControls, At
  <1>1. agent[r] \in AgentState /\ agent[r].status \in TurnStatus /\ agent[r].proof \in BOOLEAN
    BY <1>0, Fields
  <1>2. PICK q \in Requests :
          /\ q = CloseCall(r, agent[r].status, agent[r].proof) /\ q.run = r /\ q.op = "close"
          /\ q.status = agent[r].status /\ q.quiescent = agent[r].proof
    BY <1>1, CallsTyped
  <1>3. Told(q)
    BY <1>0, <1>2 DEF Told, AgentKnows
  <1>4. Heard(q) \/ Unheard(q)
    BY <1>2 DEF CloseControls
  <1>5. Left(q)
    BY <1>0, <1>3, <1>4, CallStep
  <1>6. PICK row \in AgentState :
          /\ agent' = [agent EXCEPT ![r] = row] /\ row.pc \in {"finalize", "retain"}
          /\ row.status = agent[r].status /\ row.proof = agent[r].proof
    <2>1. CASE agent' = [agent EXCEPT ![r].pc = "retain", ![r].ok = FALSE]
      <3> DEFINE row == [agent[r] EXCEPT !.pc = "retain", !.ok = FALSE]
      <3>1. row \in AgentState /\ row.pc = "retain" /\ row.status = agent[r].status /\ row.proof = agent[r].proof
        BY <1>1, Members DEF AgentState
      <3>2. agent' = [agent EXCEPT ![r] = row]
        BY <2>1
      <3> HIDE DEF row
      <3> QED
        BY <3>1, <3>2
    <2>2. CASE \E ok \in BOOLEAN :
                 agent' = [agent EXCEPT ![r].pc = IF ok THEN "finalize" ELSE "retain",
                                        ![r].ok = ok, ![r].transcript = TRUE]
      <3>1. PICK ok \in BOOLEAN, pc \in {"finalize", "retain"} :
                 agent' = [agent EXCEPT ![r].pc = pc, ![r].ok = ok, ![r].transcript = TRUE]
        BY <2>2
      <3> DEFINE row == [agent[r] EXCEPT !.pc = pc, !.ok = ok, !.transcript = TRUE]
      <3>2. row \in AgentState /\ row.pc = pc /\ row.status = agent[r].status /\ row.proof = agent[r].proof
        BY <1>1, <3>1, Members DEF AgentState
      <3>3. agent' = [agent EXCEPT ![r] = row]
        BY <3>1
      <3> HIDE DEF row
      <3> QED
        BY <3>1, <3>2, <3>3
    <2>3. (agent[r].ok /\ AllowsDelivery(r)') \in BOOLEAN
      OBVIOUS
    <2> QED
      BY <2>1, <2>2, <2>3 DEF CloseControls
  <1>7. Later(r) /\ agent'[r].pc # "done"
    BY <1>0, <1>6, AgentSet DEF Later, Early
  <1>8. \A t \in Runs : t # r => Careful(q, t)
    BY <1>2 DEF Careful
  <1> QED
    BY <1>2, <1>5, <1>7, <1>8, LaterSafe DEF Left

(* A step that moves only the agent, before or while the turn is observed. *)
LEMMA AgentSafe ==
  ASSUME CodexInv, NEW r \in Runs, UNCHANGED <<coreVars, late, pump, codex>>,
         agent' \in [Runs -> AgentState], \A t \in Runs : t # r => agent'[t] = agent[t],
         AgentKnows(r)', PastKeep(r), pump[r].pc # "off" => agent'[r].pc = "observe"
  PROVE  Safe
  <1>0. TypeOK /\ PumpHolds(r) /\ UNCHANGED coreVars /\ late' = late /\ pump' = pump /\ codex' = codex
    BY DEF CodexInv, HostInv
  <1>1. HostTyped'
    BY <1>0 DEF TypeOK, HostTyped
  <1>2. CoreStep /\ \A t \in Runs : Hands(t)
    BY <1>0, CoreSame
  <1>3. PumpHolds(r)'
    BY <1>0, <1>2, PumpKept DEF CoreStep
  <1>4. Fine(r)
    BY <1>0, <1>3 DEF Fine, CodexKeep, RequestsKeep
  <1>5. \A t \in Runs : t # r => HostSame(t)
    BY <1>0 DEF HostSame
  <1>6. late' \subseteq Requests
    BY <1>0 DEF TypeOK
  <1> QED
    BY <1>0, <1>1, <1>2, <1>4, <1>5, <1>6, StepSafe

LEMMA LaunchFailsSafe ==
  ASSUME CodexInv, NEW r \in Runs, LaunchFails(r)
  PROVE  Safe
  <1>0. /\ TypeOK /\ PumpHolds(r) /\ AgentKnows(r) /\ UNCHANGED <<coreVars, late, pump, codex>>
        /\ agent[r].pc \in {"launch", "turn"} /\ Go(r, "abort")
    BY DEF CodexInv, HostInv, LaunchFails, At
  <1>1. /\ agent' \in [Runs -> AgentState] /\ \A t \in Runs : t # r => agent'[t] = agent[t]
        /\ agent'[r].pc = "abort" /\ agent'[r].status = agent[r].status /\ agent'[r].proof = agent[r].proof
    BY <1>0, Members, GoRow
  <1>2. AgentKnows(r)'
    BY <1>0, <1>1 DEF AgentKnows
  <1>3. pump[r].pc = "off"
    BY <1>0 DEF PumpHolds, At
  <1>4. PastKeep(r)
    BY <1>0, <1>1, <1>3 DEF PastKeep, Early
  <1> QED
    BY <1>0, <1>1, <1>2, <1>3, <1>4, AgentSafe

(* TurnObserved: the status the observer reads is the turn's. *)
LEMMA ObservedSafe ==
  ASSUME CodexInv, NEW r \in Runs, TurnObserved(r)
  PROVE  Safe
  <1>0. /\ TypeOK /\ PumpHolds(r) /\ AgentKnows(r) /\ UNCHANGED <<coreVars, late, pump, codex>>
        /\ codex[r].turn \in TurnStatus
    BY DEF CodexInv, HostInv, TurnObserved
  <1>1. PICK ok \in BOOLEAN : agent' = [agent EXCEPT ![r].watching = FALSE, ![r].status = codex[r].turn,
                                                     ![r].ok = ok]
    <2>1. PICK ok \in BOOLEAN :
            agent' = [agent EXCEPT ![r].watching = FALSE, ![r].status = codex[r].turn,
                                   ![r].ok = @ /\ ok /\ codex[r].turn = "completed"]
      BY DEF TurnObserved
    <2>2. PICK all \in BOOLEAN : all = (agent[r].ok /\ ok /\ codex[r].turn = "completed")
      OBVIOUS
    <2> QED
      BY <2>1, <2>2
  <1> DEFINE row == [agent[r] EXCEPT !.watching = FALSE, !.status = codex[r].turn, !.ok = ok]
  <1>2. row \in AgentState /\ row.pc = agent[r].pc /\ row.status = codex[r].turn /\ row.proof = agent[r].proof
    BY <1>0, <1>1, Fields DEF AgentState
  <1>3. agent' = [agent EXCEPT ![r] = row]
    BY <1>1
  <1> HIDE DEF row
  <1>4. /\ agent' \in [Runs -> AgentState] /\ \A t \in Runs : t # r => agent'[t] = agent[t]
        /\ agent'[r] = row
    BY <1>0, <1>2, <1>3, AgentSet
  <1>5. AgentKnows(r)'
    BY <1>0, <1>2, <1>4 DEF AgentKnows, coreVars
  <1>6. PastKeep(r) /\ (pump[r].pc # "off" => agent'[r].pc = "observe")
    BY <1>0, <1>2, <1>4 DEF PastKeep, PumpHolds, At
  <1> QED
    BY <1>0, <1>4, <1>5, <1>6, AgentSafe

(* ObserverFails, StopPolling and CancelRun. *)
LEMMA StoppingSafe ==
  ASSUME CodexInv, NEW r \in Runs, ObserverFails(r) \/ StopPolling(r) \/ CancelRun(r)
  PROVE  Safe
  <1>0. /\ TypeOK /\ PumpHolds(r) /\ AgentKnows(r) /\ UNCHANGED <<coreVars, late, pump, codex>>
        /\ agent[r] \in AgentState
    BY Fields DEF CodexInv, HostInv, ObserverFails, StopPolling, CancelRun
  <1> DEFINE unwatched == [agent[r] EXCEPT !.watching = FALSE, !.ok = FALSE]
             stopped == [agent[r] EXCEPT !.stopping = TRUE]
  <1>1. /\ unwatched \in AgentState /\ unwatched.pc = agent[r].pc /\ unwatched.status = agent[r].status
        /\ unwatched.proof = agent[r].proof
    BY <1>0 DEF AgentState
  <1>2. /\ stopped \in AgentState /\ stopped.pc = agent[r].pc /\ stopped.status = agent[r].status
        /\ stopped.proof = agent[r].proof
    BY <1>0 DEF AgentState
  <1>3. PICK row \in {unwatched, stopped} : agent' = [agent EXCEPT ![r] = row]
    BY DEF ObserverFails, StopPolling, CancelRun
  <1> HIDE DEF unwatched, stopped
  <1>4. /\ row \in AgentState /\ row.pc = agent[r].pc /\ row.status = agent[r].status
        /\ row.proof = agent[r].proof
    BY <1>1, <1>2, <1>3
  <1>5. /\ agent' \in [Runs -> AgentState] /\ \A t \in Runs : t # r => agent'[t] = agent[t]
        /\ agent'[r] = row
    BY <1>0, <1>3, <1>4, AgentSet
  <1>6. AgentKnows(r)'
    BY <1>0, <1>4, <1>5 DEF AgentKnows, coreVars
  <1>7. PastKeep(r) /\ (pump[r].pc # "off" => agent'[r].pc = "observe")
    BY <1>0, <1>4, <1>5 DEF PastKeep, PumpHolds, At
  <1> QED
    BY <1>0, <1>5, <1>6, <1>7, AgentSafe

LEMMA StartSafe ==
  ASSUME CodexInv, NEW r \in Runs, StartCodex(r)
  PROVE  Safe
  <1>0. /\ TypeOK /\ PumpHolds(r) /\ AgentKnows(r) /\ UNCHANGED <<late, pump, codex>>
        /\ agent[r].pc = "idle" /\ (Go(r, "launch") \/ agent' = agent)
    BY DEF CodexInv, HostInv, StartCodex, At
  <1>1. CoreStep /\ \A t \in Runs : Hands(t)
    BY StartStep
  <1>2. /\ agent' \in [Runs -> AgentState] /\ \A t \in Runs : t # r => agent'[t] = agent[t]
        /\ agent'[r].pc \in {"idle", "launch"}
        /\ agent'[r].status = agent[r].status /\ agent'[r].proof = agent[r].proof
    <2>1. CASE Go(r, "launch")
      BY <1>0, <2>1, Members, GoRow
    <2>2. CASE agent' = agent
      BY <1>0, <2>2 DEF TypeOK
    <2> QED
      BY <1>0, <2>1, <2>2
  <1>3. pump[r].pc = "off"
    BY <1>0 DEF PumpHolds, At
  <1>4. PumpHolds(r)'
    BY <1>0, <1>3 DEF PumpHolds
  <1>5. AgentKnows(r)'
    BY <1>0, <1>2 DEF AgentKnows
  <1>6. Fine(r)
    BY <1>0, <1>4, <1>5 DEF Fine, CodexKeep, RequestsKeep, PastKeep, Early
  <1>7. HostTyped' /\ late' \subseteq Requests /\ \A t \in Runs : t # r => HostSame(t)
    BY <1>0, <1>2 DEF TypeOK, HostTyped, HostSame
  <1> QED
    BY <1>0, <1>1, <1>6, <1>7, StepSafe

(* The process is started, the turn is started, the process is stopped or  *)
(* dies, or the turn ends.                                                 *)
LEMMA CodexRow ==
  ASSUME TypeOK, NEW r \in Runs, NEW p \in Processes, NEW turn \in Turns
  PROVE  /\ codex' = [codex EXCEPT ![r].process = p] =>
              /\ codex' \in [Runs -> CodexState] /\ \A t \in Runs : t # r => codex'[t] = codex[t]
              /\ codex'[r].process = p /\ codex'[r].turn = codex[r].turn
              /\ codex'[r].requests = codex[r].requests
         /\ codex' = [codex EXCEPT ![r].turn = turn] =>
              /\ codex' \in [Runs -> CodexState] /\ \A t \in Runs : t # r => codex'[t] = codex[t]
              /\ codex'[r].process = codex[r].process /\ codex'[r].turn = turn
              /\ codex'[r].requests = codex[r].requests
  <1>0. codex[r] \in CodexState
    BY Fields
  <1> DEFINE moved == [codex[r] EXCEPT !.process = p]
             turned == [codex[r] EXCEPT !.turn = turn]
  <1>1. /\ moved \in CodexState /\ moved.process = p /\ moved.turn = codex[r].turn
        /\ moved.requests = codex[r].requests
    BY <1>0 DEF CodexState
  <1>2. /\ turned \in CodexState /\ turned.process = codex[r].process /\ turned.turn = turn
        /\ turned.requests = codex[r].requests
    BY <1>0 DEF CodexState
  <1>3. codex' = [codex EXCEPT ![r].process = p] => codex' = [codex EXCEPT ![r] = moved]
    OBVIOUS
  <1>4. codex' = [codex EXCEPT ![r].turn = turn] => codex' = [codex EXCEPT ![r] = turned]
    OBVIOUS
  <1> HIDE DEF moved, turned
  <1>5. codex' = [codex EXCEPT ![r] = moved] =>
          codex' \in [Runs -> CodexState] /\ codex'[r] = moved /\ \A t \in Runs : t # r => codex'[t] = codex[t]
    BY <1>1, CodexSet
  <1>6. codex' = [codex EXCEPT ![r] = turned] =>
          codex' \in [Runs -> CodexState] /\ codex'[r] = turned /\ \A t \in Runs : t # r => codex'[t] = codex[t]
    BY <1>2, CodexSet
  <1>7. ASSUME codex' = [codex EXCEPT ![r].process = p]
        PROVE  /\ codex' \in [Runs -> CodexState] /\ \A t \in Runs : t # r => codex'[t] = codex[t]
               /\ codex'[r].process = p /\ codex'[r].turn = codex[r].turn
               /\ codex'[r].requests = codex[r].requests
    BY <1>1, <1>3, <1>5, <1>7
  <1>8. ASSUME codex' = [codex EXCEPT ![r].turn = turn]
        PROVE  /\ codex' \in [Runs -> CodexState] /\ \A t \in Runs : t # r => codex'[t] = codex[t]
               /\ codex'[r].process = codex[r].process /\ codex'[r].turn = turn
               /\ codex'[r].requests = codex[r].requests
    BY <1>2, <1>4, <1>6, <1>8
  <1> QED
    BY <1>7, <1>8

(* Before the turn is bound, or after it was observed, there is no pump. *)
LEMMA QuietSafe ==
  ASSUME CodexInv, NEW r \in Runs, UNCHANGED <<coreVars, late, pump>>,
         agent' \in [Runs -> AgentState], \A t \in Runs : t # r => agent'[t] = agent[t],
         codex' \in [Runs -> CodexState], \A t \in Runs : t # r => codex'[t] = codex[t],
         codex'[r].requests = codex[r].requests,
         agent[r].pc # "observe" \/ agent'[r].pc = agent[r].pc,
         AgentKnows(r)', CodexKeep(r), PastKeep(r)
  PROVE  Safe
  <1>0. TypeOK /\ PumpHolds(r) /\ UNCHANGED coreVars /\ late' = late /\ pump' = pump
    BY DEF CodexInv, HostInv
  <1>1. PumpHolds(r)'
    BY <1>0 DEF PumpHolds, At, coreVars
  <1>2. HostTyped' /\ RequestsKeep(r)
    BY <1>0 DEF TypeOK, HostTyped, RequestsKeep
  <1>3. \A t \in Runs : t # r => HostSame(t)
    BY <1>0 DEF HostSame
  <1> QED
    BY <1>0, <1>1, <1>2, <1>3, HostSafe DEF Fine

LEMMA LaunchSafe ==
  ASSUME CodexInv, NEW r \in Runs, LaunchProcess(r) \/ StartTurn(r)
  PROVE  Safe
  <1>0. TypeOK /\ AgentKnows(r) /\ UNCHANGED <<coreVars, late, pump>>
    BY DEF CodexInv, HostInv, LaunchProcess, StartTurn
  <1>1. CASE LaunchProcess(r)
    <2>1. agent[r].pc = "launch" /\ codex' = [codex EXCEPT ![r].process = "running"] /\ Go(r, "turn")
      BY <1>1 DEF LaunchProcess, At
    <2>2. codex[r].process = "none" /\ codex[r].turn = "none"
      BY <1>0, <2>1 DEF AgentKnows
    <2>3. /\ agent' \in [Runs -> AgentState] /\ \A t \in Runs : t # r => agent'[t] = agent[t]
          /\ agent'[r].pc = "turn" /\ agent'[r].status = agent[r].status /\ agent'[r].proof = agent[r].proof
      BY <1>0, <2>1, Members, GoRow
    <2>4. /\ codex' \in [Runs -> CodexState] /\ \A t \in Runs : t # r => codex'[t] = codex[t]
          /\ codex'[r].process = "running" /\ codex'[r].turn = codex[r].turn
          /\ codex'[r].requests = codex[r].requests
      BY <1>0, <2>1, Members, CodexRow
    <2>5. AgentKnows(r)' /\ CodexKeep(r) /\ PastKeep(r)
      BY <1>0, <2>1, <2>2, <2>3, <2>4 DEF AgentKnows, CodexKeep, PastKeep, Early
    <2> QED
      BY <1>0, <2>1, <2>3, <2>4, <2>5, QuietSafe
  <1>2. CASE StartTurn(r)
    <2>1. /\ agent[r].pc = "turn" /\ codex' = [codex EXCEPT ![r].turn = "active"]
          /\ Go(r, "bind") \/ Go(r, "abort")
      BY <1>2 DEF StartTurn, At
    <2>2. codex[r].turn = "none"
      BY <1>0, <2>1 DEF AgentKnows
    <2>3. /\ agent' \in [Runs -> AgentState] /\ \A t \in Runs : t # r => agent'[t] = agent[t]
          /\ agent'[r].pc \in {"bind", "abort"}
          /\ agent'[r].status = agent[r].status /\ agent'[r].proof = agent[r].proof
      BY <1>0, <2>1, Members, GoRow
    <2>4. /\ codex' \in [Runs -> CodexState] /\ \A t \in Runs : t # r => codex'[t] = codex[t]
          /\ codex'[r].process = codex[r].process /\ codex'[r].turn = "active"
          /\ codex'[r].requests = codex[r].requests
      BY <1>0, <2>1, Members, CodexRow
    <2>5. agent[r].status = "unknown"
      <3>1. agent[r].status \in TurnStatus
        BY <1>0, Fields
      <3> QED
        BY <1>0, <2>2, <3>1 DEF AgentKnows, TurnStatus
    <2>6. AgentKnows(r)' /\ CodexKeep(r) /\ PastKeep(r)
      BY <1>0, <2>1, <2>2, <2>3, <2>4, <2>5 DEF AgentKnows, CodexKeep, PastKeep, Early
    <2> QED
      BY <1>0, <2>1, <2>3, <2>4, <2>6, QuietSafe
  <1> QED
    BY <1>1, <1>2

(* ProcessDies and TurnEnds. *)
LEMMA EndsSafe ==
  ASSUME CodexInv, NEW r \in Runs,
         ProcessDies(r) \/ \E s \in {"completed", "interrupted", "failed"} : TurnEnds(r, s)
  PROVE  Safe
  <1>0. /\ TypeOK /\ AgentKnows(r) /\ UNCHANGED <<coreVars, late, pump>> /\ agent' = agent
        /\ codex[r].process = "running"
    BY DEF CodexInv, HostInv, ProcessDies, TurnEnds
  <1>1. PICK p \in {"running", "gone"}, turn \in Turns :
          /\ codex' \in [Runs -> CodexState] /\ \A t \in Runs : t # r => codex'[t] = codex[t]
          /\ codex'[r].process = p /\ codex'[r].turn = turn /\ codex'[r].requests = codex[r].requests
          /\ turn = codex[r].turn \/ (codex[r].turn = "active" /\ turn # "none")
    <2>1. CASE ProcessDies(r)
      <3>1. codex' = [codex EXCEPT ![r].process = "gone"] /\ codex[r].turn \in Turns
        BY <1>0, <2>1, Fields DEF ProcessDies, Gone
      <3> QED
        BY <1>0, <3>1, Members, CodexRow
    <2>2. CASE \E s \in {"completed", "interrupted", "failed"} : TurnEnds(r, s)
      <3>1. PICK s \in {"completed", "interrupted", "failed"} : TurnEnds(r, s)
        BY <2>2
      <3>2. codex' = [codex EXCEPT ![r].turn = s] /\ codex[r].turn = "active" /\ s \in Turns /\ s # "none"
        BY <3>1, Members DEF TurnEnds
      <3> QED
        BY <1>0, <3>2, Members, CodexRow
    <2> QED
      BY <2>1, <2>2
  <1>2. agent[r].status # "active"
    BY <1>0, Fields DEF TurnStatus
  <1>3. AgentKnows(r)'
    BY <1>0, <1>1, <1>2 DEF AgentKnows, coreVars
  <1>4. CodexKeep(r) /\ PastKeep(r)
    BY <1>0, <1>1 DEF CodexKeep, PastKeep
  <1>5. agent' \in [Runs -> AgentState]
    BY <1>0 DEF TypeOK
  <1> QED
    BY <1>0, <1>1, <1>3, <1>4, <1>5, QuietSafe

(* Abort: stop the scope, then fail. *)
LEMMA AbortSafe ==
  ASSUME CodexInv, NEW r \in Runs, Abort(r)
  PROVE  Safe
  <1>0. /\ TypeOK /\ AgentKnows(r) /\ UNCHANGED <<coreVars, late, pump>>
        /\ agent[r].pc = "abort" /\ Go(r, "fail")
    BY DEF CodexInv, HostInv, Abort, At
  <1>1. /\ codex' \in [Runs -> CodexState] /\ \A t \in Runs : t # r => codex'[t] = codex[t]
        /\ codex'[r].process \in {codex[r].process, "gone"} /\ codex'[r].turn = codex[r].turn
        /\ codex'[r].requests = codex[r].requests
    <2>1. CASE Gone(r)
      <3>1. codex[r].turn \in Turns
        BY <1>0, Fields
      <3> QED
        BY <1>0, <2>1, <3>1, Members, CodexRow DEF Gone
    <2>2. CASE codex' = codex
      BY <1>0, <2>2 DEF TypeOK
    <2> QED
      BY <2>1, <2>2 DEF Abort
  <1>2. /\ agent' \in [Runs -> AgentState] /\ \A t \in Runs : t # r => agent'[t] = agent[t]
        /\ agent'[r].pc = "fail" /\ agent'[r].status = agent[r].status /\ agent'[r].proof = agent[r].proof
    BY <1>0, Members, GoRow
  <1>3. AgentKnows(r)'
    BY <1>0, <1>1, <1>2 DEF AgentKnows
  <1>4. pump[r].pc = "off"
    BY <1>0 DEF CodexInv, HostInv, PumpHolds, At
  <1>5. CodexKeep(r) /\ PastKeep(r)
    BY <1>0, <1>1, <1>2, <1>4 DEF CodexKeep, PastKeep, Early
  <1> QED
    BY <1>0, <1>1, <1>2, <1>3, <1>5, QuietSafe

(* StopScope: a proof is a process that was reaped. *)
LEMMA StopSafe ==
  ASSUME CodexInv, NEW r \in Runs, StopScope(r)
  PROVE  Safe
  <1>0. /\ TypeOK /\ AgentKnows(r) /\ UNCHANGED <<coreVars, late, pump>> /\ agent[r].pc = "stop"
        /\ agent[r] \in AgentState /\ codex[r].turn \in Turns
    BY Fields DEF CodexInv, HostInv, StopScope, At
  <1>1. PICK row \in AgentState :
          /\ agent' = [agent EXCEPT ![r] = row] /\ row.pc = "close" /\ row.status = agent[r].status
          /\ \/ Gone(r)
             \/ codex' = codex /\ row.proof = agent[r].proof
    <2>1. CASE Gone(r) /\ \E ok \in BOOLEAN : agent' = [agent EXCEPT ![r].pc = "close", ![r].proof = TRUE,
                                                                     ![r].ok = @ /\ ok]
      <3>1. PICK ok \in BOOLEAN : agent' = [agent EXCEPT ![r].pc = "close", ![r].proof = TRUE, ![r].ok = ok]
        <4>1. PICK ok \in BOOLEAN : agent' = [agent EXCEPT ![r].pc = "close", ![r].proof = TRUE,
                                                           ![r].ok = @ /\ ok]
          BY <2>1
        <4>2. PICK all \in BOOLEAN : all = (agent[r].ok /\ ok)
          OBVIOUS
        <4> QED
          BY <4>1, <4>2
      <3> DEFINE row == [agent[r] EXCEPT !.pc = "close", !.proof = TRUE, !.ok = ok]
      <3>2. row \in AgentState /\ row.pc = "close" /\ row.status = agent[r].status
        BY <1>0, <3>1, Members DEF AgentState
      <3>3. agent' = [agent EXCEPT ![r] = row]
        BY <3>1
      <3> HIDE DEF row
      <3> QED
        BY <2>1, <3>2, <3>3
    <2>2. CASE agent' = [agent EXCEPT ![r].pc = "close", ![r].ok = FALSE] /\ codex' = codex
      <3> DEFINE row == [agent[r] EXCEPT !.pc = "close", !.ok = FALSE]
      <3>1. row \in AgentState /\ row.pc = "close" /\ row.status = agent[r].status
            /\ row.proof = agent[r].proof
        BY <1>0, Members DEF AgentState
      <3>2. agent' = [agent EXCEPT ![r] = row]
        BY <2>2
      <3> HIDE DEF row
      <3> QED
        BY <2>2, <3>1, <3>2
    <2> QED
      BY <2>1, <2>2 DEF StopScope
  <1>2. /\ codex' \in [Runs -> CodexState] /\ \A t \in Runs : t # r => codex'[t] = codex[t]
        /\ codex'[r].turn = codex[r].turn /\ codex'[r].requests = codex[r].requests
        /\ codex'[r].process = "gone" \/ (codex'[r].process = codex[r].process /\ row.proof = agent[r].proof)
    <2>1. CASE Gone(r)
      BY <1>0, <2>1, Members, CodexRow DEF Gone
    <2>2. CASE codex' = codex
      <3>1. codex \in [Runs -> CodexState]
        BY <1>0 DEF TypeOK
      <3>2. row.proof = agent[r].proof \/ Gone(r)
        BY <1>1
      <3> QED
        BY <2>1, <2>2, <3>1, <3>2
    <2> QED
      BY <1>1, <2>1, <2>2
  <1>3. /\ agent' \in [Runs -> AgentState] /\ \A t \in Runs : t # r => agent'[t] = agent[t]
        /\ agent'[r] = row
    BY <1>0, <1>1, AgentSet
  <1>4. AgentKnows(r)'
    BY <1>0, <1>1, <1>2, <1>3 DEF AgentKnows
  <1>5. pump[r].pc = "off"
    BY <1>0 DEF CodexInv, HostInv, PumpHolds, At
  <1>6. CodexKeep(r) /\ PastKeep(r)
    BY <1>0, <1>1, <1>2, <1>3, <1>5 DEF CodexKeep, PastKeep, Early
  <1> QED
    BY <1>0, <1>2, <1>3, <1>4, <1>6, QuietSafe

(* Join and Crash: the pump is gone with the turn it served. *)
LEMMA LeaveSafe ==
  ASSUME CodexInv, NEW r \in Runs, Join(r) \/ Crash(r)
  PROVE  Safe
  <1>0. /\ TypeOK /\ AgentKnows(r) /\ UNCHANGED coreVars /\ late' = late /\ codex' = codex
        /\ pump' = [pump EXCEPT ![r] = NoPump] /\ agent[r] \in AgentState
    BY Fields DEF CodexInv, HostInv, Join, Crash
  <1>1. /\ pump' \in [Runs -> PumpState] /\ \A t \in Runs : t # r => pump'[t] = pump[t]
        /\ pump'[r].pc = "off"
    BY <1>0, NothingTyped, PumpSet DEF NoPump
  <1>2. /\ agent' \in [Runs -> AgentState] /\ \A t \in Runs : t # r => agent'[t] = agent[t]
        /\ agent'[r].pc \in {"stop", "crashed"}
        /\ agent'[r].status = agent[r].status \/ agent'[r].status = "unknown"
        /\ agent'[r].proof => agent[r].proof
    <2>1. CASE Crash(r)
      BY <1>0, <2>1, Members, ReturnRow DEF Crash
    <2>2. CASE Join(r)
      <3>1. PICK ok \in BOOLEAN : ok = (agent[r].ok /\ pump[r].ok)
        OBVIOUS
      <3> DEFINE row == [agent[r] EXCEPT !.pc = "stop", !.ok = ok, !.stopping = FALSE]
      <3>2. row \in AgentState /\ row.pc = "stop" /\ row.status = agent[r].status /\ row.proof = agent[r].proof
        BY <1>0, Members DEF AgentState
      <3>3. agent' = [agent EXCEPT ![r] = row]
        BY <2>2, <3>1 DEF Join
      <3> HIDE DEF row
      <3> QED
        BY <1>0, <3>2, <3>3, AgentSet
    <2> QED
      BY <2>1, <2>2
  <1>3. AgentKnows(r)'
    BY <1>0, <1>2 DEF AgentKnows
  <1>4. PumpHolds(r)'
    BY <1>1 DEF PumpHolds
  <1>5. CodexKeep(r) /\ RequestsKeep(r) /\ PastKeep(r)
    BY <1>0, <1>1, <1>2 DEF CodexKeep, RequestsKeep, PastKeep, Early
  <1>6. HostTyped' /\ \A t \in Runs : t # r => HostSame(t)
    BY <1>0, <1>1, <1>2 DEF HostTyped, HostSame, TypeOK
  <1> QED
    BY <1>0, <1>3, <1>4, <1>5, <1>6, HostSafe DEF Fine

(* Bind: the answer starts the observer and the pump. *)
LEMMA BindSafe ==
  ASSUME CodexInv, NEW r \in Runs, Bind(r)
  PROVE  Safe
  <1>0. /\ TypeOK /\ AgentKnows(r) /\ PumpHolds(r) /\ codex' = codex /\ agent[r].pc = "bind"
        /\ agent[r] \in AgentState /\ pump[r] \in PumpState
    BY Fields DEF CodexInv, HostInv, Bind, At
  <1>1. PICK q : q = Call(r, "bind")
    OBVIOUS
  <1>2. q.run = r /\ q.op = "bind"
    BY <1>1, CallsTyped, Members
  <1>3. /\ CoreStep /\ \A t \in Runs : Hands(t)
        /\ late' \subseteq Requests /\ \A p \in late' : p \in late \/ (p = q /\ Told(p)')
    <2>1. Heard(q) \/ Unheard(q)
      BY <1>1 DEF Bind
    <2> QED
      BY <1>0, <1>1, <2>1, Members, PlainCall
  <1>4. pump[r].pc = "off"
    BY <1>0 DEF PumpHolds, At
  <1>5. CASE /\ Heard(q)
             /\ agent' = [agent EXCEPT ![r].pc = "observe", ![r].watching = TRUE]
             /\ pump' = [pump EXCEPT ![r].pc = "poll"]
    <2> DEFINE row == [agent[r] EXCEPT !.pc = "observe", !.watching = TRUE]
               next == [pump[r] EXCEPT !.pc = "poll"]
    <2>1. row \in AgentState /\ row.pc = "observe" /\ row.status = agent[r].status /\ row.proof = agent[r].proof
      BY <1>0, Members DEF AgentState
    <2>2. next \in PumpState /\ next.pc = "poll"
      BY <1>0, Members DEF PumpState
    <2>3. agent' = [agent EXCEPT ![r] = row] /\ pump' = [pump EXCEPT ![r] = next]
      BY <1>5
    <2> HIDE DEF row, next
    <2>4. /\ agent' \in [Runs -> AgentState] /\ \A t \in Runs : t # r => agent'[t] = agent[t]
          /\ agent'[r] = row
      BY <1>0, <2>1, <2>3, AgentSet
    <2>5. /\ pump' \in [Runs -> PumpState] /\ \A t \in Runs : t # r => pump'[t] = pump[t]
          /\ pump'[r] = next
      BY <1>0, <2>2, <2>3, PumpSet
    <2>6. PumpHolds(r)'
      BY <2>1, <2>2, <2>4, <2>5 DEF PumpHolds, At
    <2>7. AgentKnows(r)'
      BY <1>0, <2>1, <2>4 DEF AgentKnows
    <2>8. CodexKeep(r) /\ RequestsKeep(r) /\ PastKeep(r)
      BY <1>0 DEF CodexKeep, RequestsKeep, PastKeep, Early
    <2>9. HostTyped' /\ \A t \in Runs : t # r => HostSame(t)
      BY <1>0, <2>4, <2>5 DEF TypeOK, HostTyped, HostSame
    <2>10. late' = late
      BY <1>5 DEF Heard
    <2> QED
      BY <1>3, <2>6, <2>7, <2>8, <2>9, <2>10, StepSafe DEF Fine
  <1>6. CASE Unheard(q) /\ agent' = [agent EXCEPT ![r].pc = "stop", ![r].ok = FALSE] /\ pump' = pump
    <2> DEFINE row == [agent[r] EXCEPT !.pc = "stop", !.ok = FALSE]
    <2>1. row \in AgentState /\ row.pc = "stop" /\ row.status = agent[r].status /\ row.proof = agent[r].proof
      BY <1>0, Members DEF AgentState
    <2>2. agent' = [agent EXCEPT ![r] = row]
      BY <1>6
    <2> HIDE DEF row
    <2>3. /\ agent' \in [Runs -> AgentState] /\ \A t \in Runs : t # r => agent'[t] = agent[t]
          /\ agent'[r] = row
      BY <1>0, <2>1, <2>2, AgentSet
    <2>4. PumpHolds(r)'
      BY <1>4, <1>6 DEF PumpHolds
    <2>5. AgentKnows(r)'
      BY <1>0, <2>1, <2>3 DEF AgentKnows
    <2>6. CodexKeep(r) /\ RequestsKeep(r) /\ PastKeep(r)
      BY <1>0 DEF CodexKeep, RequestsKeep, PastKeep, Early
    <2>7. HostTyped' /\ \A t \in Runs : t # r => HostSame(t)
      BY <1>0, <1>6, <2>3 DEF TypeOK, HostTyped, HostSame
    <2>8. Past(q)'
      BY <1>2, <2>1, <2>3 DEF Past, Early
    <2>9. \A p \in late' : p \in late \/ (Told(p)' /\ Past(p)')
      BY <1>3, <2>8
    <2> QED
      BY <1>3, <2>4, <2>5, <2>6, <2>7, <2>9, StepSafe DEF Fine
  <1> QED
    BY <1>1, <1>5, <1>6 DEF Bind

-----------------------------------------------------------------------------
(* The pump. *)

LEMMA PumpSafe ==
  ASSUME CodexInv, NEW r \in Runs, CoreStep, \A t \in Runs : t # r => Hands(t),
         agent' = agent, codex' = codex, pump[r].pc \notin {"off", "ended"},
         pump' \in [Runs -> PumpState], \A t \in Runs : t # r => pump'[t] = pump[t],
         PumpHolds(r)', late' \subseteq Requests,
         \A p \in late' : p \in late \/ (/\ p.run = r /\ Told(p)'
                                         /\ p.op # "close" /\ pump'[r].pc = "ended")
  PROVE  Safe
  <1>0. TypeOK /\ AgentKnows(r) /\ agent[r].pc = "observe"
    BY DEF CodexInv, HostInv, PumpHolds, At
  <1>1. AgentKnows(r)'
    BY <1>0 DEF AgentKnows
  <1>2. CodexKeep(r) /\ RequestsKeep(r) /\ PastKeep(r)
    BY <1>0 DEF CodexKeep, RequestsKeep, PastKeep
  <1>3. HostTyped' /\ \A t \in Runs : t # r => HostSame(t)
    BY <1>0 DEF TypeOK, HostTyped, HostSame
  <1>4. \A p \in late' : p \in late \/ (Told(p)' /\ Past(p)')
    BY <1>0 DEF Past, Early
  <1> QED
    BY <1>1, <1>2, <1>3, <1>4, StepSafe DEF Fine

LEMMA PumpEndsRow ==
  ASSUME TypeOK, NEW r \in Runs, NEW ok \in BOOLEAN, PumpEnds(r, ok)
  PROVE  /\ pump' \in [Runs -> PumpState] /\ \A t \in Runs : t # r => pump'[t] = pump[t]
         /\ pump'[r].pc = "ended"
  <1> DEFINE row == [NoPump EXCEPT !.pc = "ended", !.ok = ok]
  <1>1. row \in PumpState /\ row.pc = "ended"
    BY NothingTyped, Members DEF NoPump, PumpState
  <1>2. pump' = [pump EXCEPT ![r] = row]
    BY DEF PumpEnds
  <1> HIDE DEF row
  <1> QED
    BY <1>1, <1>2, PumpSet

(* A claim that is not answered, or the stop: the pump ends. *)
LEMMA PumpStopSafe ==
  ASSUME CodexInv, NEW r \in Runs, NEW ok \in BOOLEAN, pump[r].pc \in {"poll", "acked"}, PumpEnds(r, ok),
         Unheard(Call(r, "claim")) \/ UNCHANGED <<coreVars, late>>, UNCHANGED <<agent, codex>>
  PROVE  Safe
  <1>0. TypeOK /\ agent' = agent /\ codex' = codex /\ PumpHolds(r) /\ late \subseteq Requests
    BY DEF CodexInv, HostInv, TypeOK
  <1>1. PICK q : q = Call(r, "claim") /\ q.run = r /\ q.op = "claim"
    BY CallsTyped, Members
  <1>2. /\ CoreStep /\ \A t \in Runs : Hands(t)
        /\ late' \subseteq Requests /\ \A p \in late' : p \in late \/ (p = q /\ Told(p)')
    <2>1. CASE Unheard(Call(r, "claim"))
      BY <1>0, <1>1, <2>1, Members, PlainCall
    <2>2. CASE UNCHANGED <<coreVars, late>>
      BY <1>0, <2>2, CoreSame
    <2> QED
      BY <2>1, <2>2
  <1>3. /\ pump' \in [Runs -> PumpState] /\ \A t \in Runs : t # r => pump'[t] = pump[t]
        /\ pump'[r].pc = "ended"
    BY <1>0, PumpEndsRow
  <1>4. PumpHolds(r)'
    BY <1>0, <1>3 DEF PumpHolds, At
  <1> QED
    BY <1>0, <1>1, <1>2, <1>3, <1>4, PumpSafe

LEMMA PumpClaimSafe ==
  ASSUME CodexInv, NEW r \in Runs, PumpClaim(r)
  PROVE  Safe
  <1>0. TypeOK /\ agent' = agent /\ codex' = codex /\ PumpHolds(r) /\ pump[r].pc = "poll"
        /\ late \subseteq Requests
    BY DEF CodexInv, HostInv, TypeOK, PumpClaim, PumpAt
  <1>1. CASE Unheard(Call(r, "claim")) /\ PumpEnds(r, FALSE)
    BY <1>0, <1>1, PumpStopSafe
  <1>2. ASSUME NEW i \in Controls, ClaimCodexControl(r, i), late' = late,
               pump' = [pump EXCEPT ![r] = [pc |-> "claimed", control |-> i, outcome |-> "UNKNOWN", ok |-> TRUE]]
        PROVE  Safe
    <2> DEFINE row == [pc |-> "claimed", control |-> i, outcome |-> "UNKNOWN", ok |-> TRUE]
    <2>1. row \in PumpState /\ row.pc = "claimed" /\ row.control = i
      BY Members DEF PumpState
    <2> HIDE DEF row
    <2>2. /\ pump' \in [Runs -> PumpState] /\ \A t \in Runs : t # r => pump'[t] = pump[t]
          /\ pump'[r] = row
      <3>1. pump' = [pump EXCEPT ![r] = row]
        BY <1>2 DEF row
      <3> QED
        BY <1>0, <2>1, <3>1, PumpSet
    <2>3. /\ CoreStep /\ \A t \in Runs : Hands(t)
          /\ control'[r][i].state = "DISPATCHING" /\ control'[r][i].applied = 0
          /\ i \notin codex[r].requests
      BY <1>0, <1>2, ClaimStep
    <2>4. PumpHolds(r)'
      BY <1>0, <2>1, <2>2, <2>3 DEF PumpHolds, At
    <2> QED
      BY <1>0, <1>2, <2>2, <2>3, <2>4, PumpSafe
  <1> QED
    BY <1>1, <1>2 DEF PumpClaim

(* PumpRefuses, PumpAnswered and PumpCallFails: what the pump will report  *)
(* of the control in hand is true of it.                                   *)
LEMMA PumpLearnsSafe ==
  ASSUME CodexInv, NEW r \in Runs, PumpRefuses(r) \/ PumpAnswered(r) \/ PumpCallFails(r)
  PROVE  Safe
  <1>0. /\ TypeOK /\ agent' = agent /\ codex' = codex /\ PumpHolds(r) /\ UNCHANGED coreVars /\ late' = late
        /\ pump[r] \in PumpState /\ pump[r].pc \in {"claimed", "calling"} /\ late \subseteq Requests
    BY Fields DEF CodexInv, HostInv, TypeOK, PumpRefuses, PumpAnswered, PumpCallFails, PumpAt
  <1>1. PICK i \in Controls : i = pump[r].control
    BY <1>0 DEF PumpHolds
  <1>2. PICK outcome \in DeliveryStates, ok \in BOOLEAN :
          /\ pump' = [pump EXCEPT ![r].pc = "report", ![r].outcome = outcome, ![r].ok = ok]
          /\ outcome = "NOT_APPLIED" => control[r][i].applied = 0 /\ i \notin codex[r].requests
          /\ outcome \in Acknowledged => control[r][i].applied = 1
    <2>1. CASE PumpRefuses(r)
      <3>1. control[r][i].applied = 0 /\ i \notin codex[r].requests
        BY <1>0, <1>1, <2>1 DEF PumpRefuses, PumpAt, PumpHolds
      <3>2. pump' = [pump EXCEPT ![r].pc = "report", ![r].outcome = "NOT_APPLIED", ![r].ok = FALSE]
        BY <2>1 DEF PumpRefuses
      <3>3. "NOT_APPLIED" \in DeliveryStates /\ "NOT_APPLIED" \notin Acknowledged
        BY Members DEF Acknowledged
      <3> QED
        BY <3>1, <3>2, <3>3
    <2>2. CASE PumpAnswered(r)
      <3>1. PICK outcome : outcome = Acknowledgement(control[r][i].kind)
        OBVIOUS
      <3>2. outcome \in {"STEER_ACCEPTED", "INTERRUPT_ACKNOWLEDGED"}
        BY <3>1 DEF Acknowledgement
      <3>3. outcome \in DeliveryStates /\ outcome # "NOT_APPLIED"
        BY <3>2, Members
      <3>4. control[r][i].applied = 1
        BY <1>0, <1>1, <2>2 DEF PumpAnswered, PumpAt, PumpHolds
      <3>5. PICK ok \in BOOLEAN : ok = pump[r].ok
        BY <1>0 DEF PumpState
      <3>6. pump' = [pump EXCEPT ![r].pc = "report", ![r].outcome = outcome]
        BY <1>1, <2>2, <3>1 DEF PumpAnswered
      <3> DEFINE a == [pump[r] EXCEPT !.pc = "report", !.outcome = outcome]
                 b == [pump[r] EXCEPT !.pc = "report", !.outcome = outcome, !.ok = ok]
      <3>7. a = b
        BY <1>0, <3>5 DEF PumpState
      <3>8. pump' = [pump EXCEPT ![r] = a]
        BY <3>6
      <3> HIDE DEF a
      <3>9. pump' = [pump EXCEPT ![r].pc = "report", ![r].outcome = outcome, ![r].ok = ok]
        BY <3>7, <3>8
      <3> QED
        BY <3>3, <3>4, <3>9
    <2>3. CASE PumpCallFails(r)
      <3>1. pump' = [pump EXCEPT ![r].pc = "report", ![r].outcome = "UNKNOWN", ![r].ok = FALSE]
        BY <2>3 DEF PumpCallFails, FailedCall
      <3>2. "UNKNOWN" \in DeliveryStates /\ "UNKNOWN" \notin Acknowledged
        BY Members DEF Acknowledged
      <3> QED
        BY <3>1, <3>2
    <2> QED
      BY <2>1, <2>2, <2>3
  <1> DEFINE row == [pump[r] EXCEPT !.pc = "report", !.outcome = outcome, !.ok = ok]
  <1>3. row \in PumpState /\ row.pc = "report" /\ row.outcome = outcome /\ row.control = i
    BY <1>0, <1>1, <1>2, Members DEF PumpState
  <1>4. pump' = [pump EXCEPT ![r] = row]
    BY <1>2
  <1> HIDE DEF row
  <1>5. /\ pump' \in [Runs -> PumpState] /\ \A t \in Runs : t # r => pump'[t] = pump[t]
        /\ pump'[r] = row
    BY <1>0, <1>3, <1>4, PumpSet
  <1>6. control[r][i].state = "DISPATCHING" /\ agent[r].pc = "observe" /\ control' = control
    BY <1>0, <1>1 DEF PumpHolds, At, coreVars
  <1>7. PumpHolds(r)'
    BY <1>0, <1>2, <1>3, <1>5, <1>6 DEF PumpHolds, At
  <1>8. CoreStep /\ \A t \in Runs : Hands(t)
    BY <1>0, CoreSame
  <1> QED
    BY <1>0, <1>5, <1>7, <1>8, PumpSafe

(* PumpReports: the report is true, and the pump ends if it may be late. *)
LEMMA PumpReportsSafe ==
  ASSUME CodexInv, NEW r \in Runs, PumpReports(r)
  PROVE  Safe
  <1>0. /\ TypeOK /\ agent' = agent /\ codex' = codex /\ PumpHolds(r) /\ pump[r].pc = "report"
        /\ pump[r].outcome \in DeliveryStates /\ pump[r].control \in Chosen
    BY Fields DEF CodexInv, HostInv, PumpReports, PumpAt
  <1>1. PICK i \in Controls : i = pump[r].control
    BY <1>0 DEF PumpHolds
  <1>2. PICK q \in Requests :
          /\ q = ReportCall(r, pump[r].control, pump[r].outcome) /\ q.run = r /\ q.op = "settle"
          /\ q.control = i /\ q.outcome = pump[r].outcome
    BY <1>0, <1>1, CallsTyped
  <1>3. Told(q)
    BY <1>0, <1>1, <1>2 DEF Told, PumpHolds, Waiting
  <1>4. Left(q)
    <2>1. Heard(q) \/ Unheard(q)
      BY <1>2 DEF PumpReports
    <2> QED
      BY <1>0, <1>3, <2>1, CallStep
  <1>5. \A t \in Runs : t # r => Hands(t)
    BY <1>2, <1>4 DEF Left, Careful
  <1>6. CASE \E ok \in BOOLEAN : PumpEnds(r, ok)
    <2>1. /\ pump' \in [Runs -> PumpState] /\ \A t \in Runs : t # r => pump'[t] = pump[t]
          /\ pump'[r].pc = "ended"
      BY <1>0, <1>6, PumpEndsRow
    <2>2. PumpHolds(r)'
      BY <1>0, <2>1 DEF PumpHolds, At
    <2> QED
      BY <1>0, <1>2, <1>4, <1>5, <2>1, <2>2, PumpSafe DEF Left
  <1>7. CASE Heard(q) /\ \E next \in {"acked", "poll"} : pump' = [pump EXCEPT ![r] = [NoPump EXCEPT !.pc = next]]
    <2>1. PICK next \in {"acked", "poll"} : pump' = [pump EXCEPT ![r] = [NoPump EXCEPT !.pc = next]]
      BY <1>7
    <2> DEFINE row == [NoPump EXCEPT !.pc = next]
    <2>2. row \in PumpState /\ row.pc = next
      BY <2>1, NothingTyped, Members DEF NoPump, PumpState
    <2>3. pump' = [pump EXCEPT ![r] = row]
      BY <2>1
    <2> HIDE DEF row
    <2>4. /\ pump' \in [Runs -> PumpState] /\ \A t \in Runs : t # r => pump'[t] = pump[t]
          /\ pump'[r] = row
      BY <1>0, <2>2, <2>3, PumpSet
    <2>5. PumpHolds(r)'
      BY <1>0, <2>1, <2>2, <2>4 DEF PumpHolds, At
    <2>6. late' = late
      BY <1>7 DEF Heard
    <2> QED
      BY <1>0, <1>4, <1>5, <2>4, <2>5, <2>6, PumpSafe DEF Left
  <1>8. \/ \E ok \in BOOLEAN : PumpEnds(r, ok)
        \/ Heard(q) /\ \E next \in {"acked", "poll"} : pump' = [pump EXCEPT ![r] = [NoPump EXCEPT !.pc = next]]
    <2> DEFINE next == IF pump[r].outcome = "INTERRUPT_ACKNOWLEDGED" THEN "acked" ELSE "poll"
    <2>1. next \in {"acked", "poll"}
      OBVIOUS
    <2>2. \/ Heard(q) /\ pump' = [pump EXCEPT ![r] = [NoPump EXCEPT !.pc = next]]
          \/ PumpEnds(r, FALSE)
      BY <1>2 DEF PumpReports
    <2> HIDE DEF next
    <2> QED
      BY <2>1, <2>2
  <1> QED
    BY <1>6, <1>7, <1>8

(* PumpCalls: the request is sent while the row says so. *)
LEMMA PumpCallsSafe ==
  ASSUME CodexInv, NEW r \in Runs, PumpCalls(r)
  PROVE  Safe
  <1>0. /\ TypeOK /\ agent' = agent /\ PumpHolds(r) /\ AgentKnows(r) /\ UNCHANGED coreVars /\ late' = late
        /\ pump[r] \in PumpState /\ pump[r].pc = "claimed" /\ codex[r] \in CodexState
    BY Fields DEF CodexInv, HostInv, PumpCalls, PumpAt
  <1>1. PICK i \in Controls : i = pump[r].control
    BY <1>0 DEF PumpHolds
  <1>2. /\ control[r][i].state = "DISPATCHING" /\ control[r][i].applied = 0 /\ agent[r].pc = "observe"
        /\ control' = control
    BY <1>0, <1>1 DEF PumpHolds, At, coreVars
  <1> DEFINE sent == [codex[r] EXCEPT !.requests = @ \cup {i}]
             row == [pump[r] EXCEPT !.pc = "calling"]
  <1>3. /\ sent \in CodexState /\ sent.process = codex[r].process /\ sent.turn = codex[r].turn
        /\ sent.requests = codex[r].requests \cup {i}
    BY <1>0 DEF CodexState
  <1>4. row \in PumpState /\ row.pc = "calling" /\ row.control = i
    BY <1>0, <1>1, Members DEF PumpState
  <1>5. codex' = [codex EXCEPT ![r] = sent] /\ pump' = [pump EXCEPT ![r] = row]
    BY <1>1 DEF PumpCalls
  <1> HIDE DEF sent, row
  <1>6. /\ codex' \in [Runs -> CodexState] /\ codex'[r] = sent
        /\ \A t \in Runs : t # r => codex'[t] = codex[t]
    BY <1>0, <1>3, <1>5, CodexSet
  <1>7. /\ pump' \in [Runs -> PumpState] /\ pump'[r] = row
        /\ \A t \in Runs : t # r => pump'[t] = pump[t]
    BY <1>0, <1>4, <1>5, PumpSet
  <1>8. \A t \in Runs : CodexKeep(t)
    BY <1>3, <1>6 DEF CodexKeep
  <1>9. ASSUME NEW t \in Runs, NEW j \in Controls
        PROVE  RowTrue(t, j)'
    <2>1. RowTrue(t, j)
      BY DEF CodexInv, RowsInv
    <2>2. CASE t # r
      BY <1>2, <1>6, <2>1, <2>2 DEF RowTrue
    <2>3. CASE t = r /\ j # i
      BY <1>2, <1>3, <1>6, <2>1, <2>3 DEF RowTrue
    <2>4. CASE t = r /\ j = i
      BY <1>2, <1>3, <1>6, <2>1, <2>4 DEF RowTrue, Untouched
    <2> QED
      BY <2>2, <2>3, <2>4
  <1>10. CoreStep /\ \A t \in Runs : Hands(t)
    BY <1>0, <1>8, <1>9, CodexMoved
  <1>11. PumpHolds(r)'
    BY <1>0, <1>2, <1>3, <1>4, <1>6, <1>7 DEF PumpHolds, At
  <1>12. AgentKnows(r)'
    BY <1>0, <1>3, <1>6 DEF AgentKnows, coreVars
  <1>13. Fine(r)
    BY <1>0, <1>8, <1>11, <1>12 DEF Fine, RequestsKeep, PastKeep
  <1>14. HostTyped' /\ late' \subseteq Requests /\ \A t \in Runs : t # r => HostSame(t)
    BY <1>0, <1>6, <1>7 DEF TypeOK, HostTyped, HostSame
  <1> QED
    BY <1>0, <1>10, <1>13, <1>14, StepSafe

(* CodexApplies: once, and only a control whose row does not say otherwise. *)
LEMMA AppliesSafe ==
  ASSUME CodexInv, NEW r \in Runs, NEW i \in Controls, CodexApplies(r, i)
  PROVE  Safe
  <1>0. /\ TypeOK /\ RowTrue(r, i) /\ PumpHolds(r) /\ AgentKnows(r)
        /\ UNCHANGED <<platform, run, execution, runtime, checkpoint, late, agent, pump>>
        /\ i \in codex[r].requests /\ control[r][i] \in ControlRow /\ codex[r] \in CodexState
    BY Fields, ControlFields DEF CodexInv, RowsInv, HostInv, CodexApplies
  <1>1. /\ control[r][i].applied = 0 /\ control[r][i].dispatched
        /\ control[r][i].state \in {"DISPATCHING", "UNKNOWN"}
    <2>1. control[r][i].applied = 0 /\ control[r][i].state \notin Untouched
      BY <1>0 DEF RowTrue
    <2>2. control[r][i].state \in DeliveryStates
      BY <1>0 DEF ControlRow
    <2> QED
      BY <1>0, <2>1, <2>2 DEF RowTrue, Untouched, DeliveryStates
  <1> DEFINE row == [control[r][i] EXCEPT !.applied = 1]
             rest == [codex[r] EXCEPT !.requests = @ \ {i}]
  <1>2. /\ row \in ControlRow /\ row.applied = 1 /\ row.state = control[r][i].state
        /\ row.dispatched = control[r][i].dispatched /\ row.kind = control[r][i].kind
    BY <1>0 DEF ControlRow
  <1>3. /\ rest \in CodexState /\ rest.process = codex[r].process /\ rest.turn = codex[r].turn
        /\ rest.requests = codex[r].requests \ {i}
    BY <1>0 DEF CodexState
  <1>4. control' = [control EXCEPT ![r][i] = row]
    <2>1. control' = [control EXCEPT ![r][i].applied = @ + 1]
      BY DEF CodexApplies
    <2>2. control[r][i].applied + 1 = 1
      BY <1>1
    <2> QED
      BY <2>1, <2>2
  <1>5. codex' = [codex EXCEPT ![r] = rest]
    BY DEF CodexApplies
  <1> HIDE DEF row, rest
  <1>6. /\ control' \in [Runs -> [Controls -> ControlRow]]
        /\ \A t \in Runs, j \in Controls : control'[t][j] = IF t = r /\ j = i THEN row ELSE control[t][j]
    BY <1>0, <1>2, <1>4, ControlSet
  <1>7. /\ codex' \in [Runs -> CodexState] /\ codex'[r] = rest
        /\ \A t \in Runs : t # r => codex'[t] = codex[t]
    BY <1>0, <1>3, <1>5, CodexSet
  <1>8. \A t \in Runs, j \in Controls :
          /\ control'[t][j].state = control[t][j].state
          /\ control'[t][j].dispatched = control[t][j].dispatched
    BY <1>2, <1>6
  <1>9. ASSUME NEW t \in Runs
        PROVE  /\ codex'[t].process = codex[t].process /\ codex'[t].turn = codex[t].turn
               /\ codex'[t].requests \subseteq codex[t].requests
    BY <1>3, <1>7
  <1>10. ASSUME NEW t \in Runs, NEW j \in Controls
         PROVE  RowTrue(t, j)'
    <2>1. RowTrue(t, j)
      BY DEF CodexInv, RowsInv
    <2>2. CASE t = r /\ j = i
      BY <1>1, <1>2, <1>3, <1>6, <1>7, <2>1, <2>2 DEF RowTrue, Untouched, Waiting
    <2>3. CASE ~(t = r /\ j = i)
      <3>1. control'[t][j] = control[t][j]
        BY <1>6, <2>3
      <3> QED
        BY <1>9, <2>1, <3>1 DEF RowTrue
    <2> QED
      BY <2>2, <2>3
  <1>11. ASSUME NEW t \in Runs
         PROVE  RowsInOrder(t)'
    <2>1. RowsInOrder(t)
      BY DEF CodexInv, RowsInv
    <2>2. Queued(t)' = Queued(t)
      BY <1>8 DEF Queued
    <2> QED
      BY <1>8, <2>1, <2>2 DEF RowsInOrder
  <1>12. RowsInv'
    BY <1>10, <1>11 DEF RowsInv
  <1>13. \A t \in Runs : SealTrue(t)' /\ SealKeep(t) /\ ExecutionKeep(t)
    BY <1>0, <1>8, <1>9 DEF CodexInv, CoreInv, SealTrue, SealKeep, ExecutionKeep
  <1>14. RecoverySettlesExecutions'
    BY <1>0 DEF CodexInv, CoreInv, RecoverySettlesExecutions, Open
  <1>15. CoreInv'
    BY <1>0, <1>13, <1>14, CoreKept DEF CodexInv
  <1>16. TypeOK'
    BY <1>0, <1>6, <1>7 DEF TypeOK
  <1>17. ASSUME NEW t \in Runs
         PROVE  PumpHolds(t)'
    <2>1. PumpHolds(t)
      BY DEF CodexInv, HostInv
    <2>2. CASE pump[t].pc \notin {"claimed", "calling", "report"}
      BY <1>0, <2>1, <2>2 DEF PumpHolds, At
    <2>3. CASE pump[t].pc \in {"claimed", "calling", "report"}
      <3>1. PICK j \in Controls : j = pump[t].control /\ control[t][j].state = "DISPATCHING"
        BY <2>1, <2>3 DEF PumpHolds
      <3>2. CASE t = r /\ j = i
        <4>1. pump[t].pc # "claimed"
          BY <1>0, <2>1, <3>1, <3>2 DEF PumpHolds
        <4>2. ~(pump[t].pc = "report" /\ pump[t].outcome = "NOT_APPLIED")
          BY <1>0, <2>1, <3>1, <3>2 DEF PumpHolds
        <4>3. control'[t][j].applied = 1 /\ j \notin codex'[t].requests
          BY <1>2, <1>3, <1>6, <1>7, <3>2
        <4> QED
          BY <1>0, <1>8, <2>1, <3>1, <4>1, <4>2, <4>3 DEF PumpHolds, At
      <3>3. CASE ~(t = r /\ j = i)
        <4>1. control'[t][j] = control[t][j] /\ (j \in codex'[t].requests <=> j \in codex[t].requests)
          BY <1>3, <1>6, <1>7, <3>3
        <4> QED
          BY <1>0, <2>1, <3>1, <4>1 DEF PumpHolds, At
      <3> QED
        BY <3>2, <3>3
    <2> QED
      BY <2>2, <2>3
  <1>18. \A t \in Runs : AgentKnows(t)'
    BY <1>0, <1>9 DEF CodexInv, HostInv, AgentKnows
  <1>19. \A t \in Runs : CodexKeep(t) /\ RequestsKeep(t) /\ PastKeep(t)
    BY <1>0, <1>9 DEF CodexKeep, RequestsKeep, PastKeep
  <1>20. \A t \in Runs : AppliedKeep(t)
    BY <1>0, <1>6, <1>8 DEF AppliedKeep
  <1>21. LateInv'
    BY <1>0, <1>19, <1>20, LateKept DEF TypeOK
  <1>22. ASSUME NEW t \in Runs
         PROVE  InTurn(t)
    <2> SUFFICES ASSUME NEW k \in Controls, control'[t][k].applied # control[t][k].applied,
                        NEW j \in Controls, j >= k
                 PROVE  control[t][j].applied = 0
      BY DEF InTurn
    <2>1. t = r /\ k = i
      BY <1>6
    <2>2. CASE j = i
      BY <1>1, <2>1, <2>2
    <2>3. CASE j # i
      <3>1. i < j
        BY <2>1, <2>3 DEF Controls
      <3>2. ~control[r][j].dispatched
        BY <1>1, <3>1 DEF CodexInv, RowsInv, RowsInOrder, Terminal
      <3>3. RowTrue(r, j)
        BY DEF CodexInv, RowsInv
      <3> QED
        BY <2>1, <3>2, <3>3 DEF RowTrue
    <2> QED
      BY <2>2, <2>3
  <1>23. CodexInv'
    BY <1>12, <1>15, <1>16, <1>17, <1>18, <1>21 DEF CodexInv, HostInv
  <1> QED
    BY <1>13, <1>22, <1>23 DEF Safe

-----------------------------------------------------------------------------
(* The theorems. *)

LEMMA InitCodex ==
  ASSUME Init
  PROVE  CodexInv
  <1>1. TypeOK
    <2>1. run \in [Runs -> RunRow]
      <3> DEFINE first == [NoRun EXCEPT !.state = "RUNNING"]
      <3>1. first \in RunRow /\ NoRun \in RunRow
        BY NothingTyped, Members DEF NoRun, RunRow
      <3>2. run = [r \in Runs |-> IF r \in FirstRuns THEN first ELSE NoRun]
        BY DEF Init
      <3> HIDE DEF first
      <3> QED
        BY <3>1, <3>2
    <2>2. /\ execution \in [Runs -> ExecutionRow] /\ runtime \in [Runs -> RuntimeRow]
          /\ control \in [Runs -> [Controls -> ControlRow]] /\ checkpoint \in [Runs -> BOOLEAN]
      BY NothingTyped DEF Init
    <2>3. agent \in [Runs -> AgentState] /\ pump \in [Runs -> PumpState] /\ codex \in [Runs -> CodexState]
      BY NothingTyped DEF Init
    <2>4. platform \in [mode : {"NORMAL", "RECOVERY_RECONCILIATION"}, epoch : Epochs] /\ late \subseteq Requests
      BY Members DEF Init
    <2> QED
      BY <2>1, <2>2, <2>3, <2>4 DEF TypeOK
  <1>2. ASSUME NEW r \in Runs
        PROVE  /\ execution[r].state = "ABSENT" /\ runtime[r].state = "ABSENT" /\ run[r].source = None
               /\ agent[r] = NoAgent /\ pump[r] = NoPump /\ codex[r] = NoCodex
               /\ \A i \in Controls : control[r][i] = NoControl
    BY DEF Init, NoExecution, NoRuntime, NoRun
  <1>3. RowsInv
    <2>1. ASSUME NEW r \in Runs, NEW i \in Controls
          PROVE  RowTrue(r, i)
      BY <1>2 DEF RowTrue, NoControl, NoCodex, Waiting, Untouched
    <2>2. ASSUME NEW r \in Runs
          PROVE  RowsInOrder(r)
      <3>1. Queued(r) = {}
        BY <1>2 DEF Queued, NoControl
      <3>2. 0 \in 0 .. MaxControls /\ 1 .. 0 = {}
        BY ControlsAssumption
      <3>3. \A j \in Controls : ~control[r][j].dispatched
        BY <1>2 DEF NoControl
      <3> QED
        BY <3>1, <3>2, <3>3 DEF RowsInOrder
    <2> QED
      BY <2>1, <2>2 DEF RowsInv
  <1>4. HostInv
    BY <1>2 DEF HostInv, PumpHolds, AgentKnows, NoAgent, NoPump, NoCodex
  <1>5. CoreInv
    BY <1>2 DEF CoreInv, SealTrue, ExecutionTrue, RecoverySettlesExecutions, Open
  <1>6. LateInv
    BY DEF Init, LateInv
  <1> QED
    BY <1>1, <1>3, <1>4, <1>5, <1>6 DEF CodexInv

(* Steps of the control plane that the agent has no part in. *)
LEMMA OperatorSafe ==
  ASSUME CodexInv, NEW r \in Runs,
         \/ \E kind \in Kinds : QueueCodexControl(r, kind)
         \/ ExpireLease(r) \/ CompleteRun(r) \/ CreateDelivery(r) \/ AbandonExecution(r)
         \/ \E s \in Runs : ContinueCodex(r, s)
  PROVE  Safe
  <1>1. UNCHANGED <<agent, pump, codex>> /\ late' \subseteq late
    BY DEF QueueCodexControl, ExpireLease, CompleteRun, CreateDelivery, AbandonExecution, ContinueCodex,
       hostVars
  <1>2. CoreStep /\ \A t \in Runs : Hands(t)
    BY QueueStep, ExpireStep, RunStep, ContinueStep
  <1> QED
    BY <1>1, <1>2, PlaneSafe

LEMMA PumpStepSafe ==
  ASSUME CodexInv, NEW r \in Runs, PumpStep(r)
  PROVE  Safe
  <1>1. CASE PumpStopped(r)
    <2>1. /\ pump[r].pc \in {"poll", "acked"} /\ PumpEnds(r, TRUE) /\ UNCHANGED <<agent, codex>>
          /\ Unheard(Call(r, "claim")) \/ UNCHANGED <<coreVars, late>>
      BY <1>1 DEF PumpStopped, PumpAt
    <2> QED
      BY <2>1, PumpStopSafe
  <1>2. CASE PumpClaim(r)
    BY <1>2, PumpClaimSafe
  <1>3. CASE PumpRefuses(r) \/ PumpAnswered(r) \/ PumpCallFails(r)
    BY <1>3, PumpLearnsSafe
  <1>4. CASE PumpCalls(r)
    BY <1>4, PumpCallsSafe
  <1>5. CASE PumpReports(r)
    BY <1>5, PumpReportsSafe
  <1> QED
    BY <1>1, <1>2, <1>3, <1>4, <1>5 DEF PumpStep

LEMMA NextSafe ==
  ASSUME CodexInv, Next
  PROVE  Safe
  <1>1. CASE \E q \in late : LateCall(q)
    BY <1>1, LateSafe
  <1>2. CASE BeginRecovery \/ CompleteRecovery
    <2>1. CoreStep /\ \A t \in Runs : Hands(t)
      BY <1>2, RecoveryStep
    <2>2. UNCHANGED <<agent, pump, codex>> /\ late' \subseteq late
      BY <1>2 DEF BeginRecovery, CompleteRecovery, hostVars
    <2> QED
      BY <2>1, <2>2, PlaneSafe
  <1>3. ASSUME NEW r \in Runs,
               \/ StartCodex(r) \/ LaunchStep(r) \/ TurnObserved(r) \/ ObserverFails(r)
               \/ CancelRun(r) \/ ExitStep(r) \/ Crash(r) \/ PumpStep(r)
               \/ ProcessDies(r) \/ (\E i \in Controls : CodexApplies(r, i))
               \/ (\E s \in {"completed", "interrupted", "failed"} : TurnEnds(r, s))
        PROVE  Safe
    <2>1. CASE StartCodex(r)
      BY <2>1, StartSafe
    <2>2. CASE LaunchStep(r)
      BY <2>2, LaunchSafe, LaunchFailsSafe, AbortSafe, BindSafe DEF LaunchStep
    <2>3. CASE TurnObserved(r)
      BY <2>3, ObservedSafe
    <2>4. CASE ObserverFails(r) \/ StopPolling(r) \/ CancelRun(r)
      BY <2>4, StoppingSafe
    <2>5. CASE ExitStep(r)
      BY <2>4, <2>5, LeaveSafe, StopSafe, CloseSafe, PhaseSafe, ReportSafe, RetainSafe DEF ExitStep
    <2>6. CASE Crash(r)
      BY <2>6, LeaveSafe
    <2>7. CASE PumpStep(r)
      BY <2>7, PumpStepSafe
    <2>8. CASE ProcessDies(r) \/ \E s \in {"completed", "interrupted", "failed"} : TurnEnds(r, s)
      BY <2>8, EndsSafe
    <2>9. CASE \E i \in Controls : CodexApplies(r, i)
      BY <2>9, AppliesSafe
    <2> QED
      BY <1>3, <2>1, <2>2, <2>3, <2>4, <2>5, <2>6, <2>7, <2>8, <2>9
  <1>4. ASSUME NEW r \in Runs,
               \/ (\E kind \in Kinds : QueueCodexControl(r, kind))
               \/ ExpireLease(r) \/ CompleteRun(r) \/ CreateDelivery(r) \/ AbandonExecution(r)
               \/ \E s \in Runs : ContinueCodex(r, s)
        PROVE  Safe
    BY <1>4, OperatorSafe
  <1> QED
    BY <1>1, <1>2, <1>3, <1>4 DEF Next

LEMMA StutterSafe ==
  ASSUME CodexInv, UNCHANGED vars
  PROVE  Safe
  <1>1. UNCHANGED coreVars /\ UNCHANGED <<agent, pump, codex>> /\ late' \subseteq late
    BY DEF vars, coreVars
  <1>2. CoreStep /\ \A t \in Runs : Hands(t)
    BY <1>1, CoreSame
  <1> QED
    BY <1>1, <1>2, PlaneSafe

(* Every reachable state satisfies the inductive invariant. *)
THEOREM CodexInductive == Spec => []CodexInv
  <1>1. Init => CodexInv
    BY InitCodex
  <1>2. CodexInv /\ [Next]_vars => CodexInv'
    BY NextSafe, StutterSafe DEF Safe
  <1> QED
    BY <1>1, <1>2, PTL DEF Spec

(* The rows, the agents and the process states keep their types. *)
THEOREM CodexTyped == Spec => []TypeOK
  <1>1. CodexInv => TypeOK
    BY DEF CodexInv
  <1> QED
    BY <1>1, CodexInductive, PTL

(* What a control row says of its control is true of the Codex process,    *)
(* whatever calls to the control plane are lost, doubled or late.          *)
THEOREM ControlsToldTruly == Spec => []ControlRowsTrue
  <1>1. CodexInv => ControlRowsTrue
    BY DEF CodexInv, RowsInv, RowTrue, ControlRowsTrue, Untouched
  <1> QED
    BY <1>1, CodexInductive, PTL

(* Controls take effect in the order they were queued, each at most once.  *)
THEOREM ControlsTakeTurns == Spec => AppliedInOrder
  <1>1. CodexInv /\ [Next]_vars =>
          [\A r \in Runs, i \in Controls :
             control'[r][i].applied # control[r][i].applied =>
               \A j \in Controls : j >= i => control[r][j].applied = 0]_vars
    BY NextSafe DEF Safe, InTurn
  <1> QED
    BY <1>1, CodexInductive, PTL DEF Spec, AppliedInOrder

(* A FINISHED execution completed its turn, its process tree is gone and   *)
(* every control queued for it took effect; an agent that was told so was  *)
(* told the truth.                                                         *)
THEOREM FinishedExecutionsAreClean == Spec => []FinishedIsClean
  <1>1. ASSUME CodexInv
        PROVE  FinishedIsClean
    <2> SUFFICES ASSUME NEW r \in Runs
                 PROVE  /\ execution[r].state = "FINISHED" =>
                             /\ codex[r].process = "gone" /\ codex[r].turn = "completed"
                             /\ \A i \in Queued(r) : control[r][i].kind = "STEER" /\ control[r][i].applied = 1
                        /\ At(r, "done") => execution[r].state = "FINISHED"
      BY DEF FinishedIsClean
    <2>1. At(r, "done") => execution[r].state = "FINISHED"
      BY <1>1 DEF CodexInv, HostInv, AgentKnows, At
    <2>2. ASSUME execution[r].state = "FINISHED"
          PROVE  /\ codex[r].process = "gone" /\ codex[r].turn = "completed"
                 /\ \A i \in Queued(r) : control[r][i].kind = "STEER" /\ control[r][i].applied = 1
      <3>1. AllowsDelivery(r) /\ SealTrue(r)
        BY <1>1, <2>2 DEF CodexInv, CoreInv, ExecutionTrue
      <3>2. codex[r].process = "gone" /\ codex[r].turn = "completed"
        BY <3>1 DEF AllowsDelivery, SealTrue
      <3>3. ASSUME NEW i \in Queued(r)
            PROVE  control[r][i].kind = "STEER" /\ control[r][i].applied = 1
        <4>1. i \in Controls /\ control[r][i].state = "STEER_ACCEPTED"
          BY <3>1, <3>3 DEF AllowsDelivery, In
        <4>2. RowTrue(r, i)
          BY <1>1, <4>1 DEF CodexInv, RowsInv
        <4> QED
          BY <4>1, <4>2 DEF RowTrue
      <3> QED
        BY <3>2, <3>3
    <2> QED
      BY <2>1, <2>2
  <1> QED
    BY <1>1, CodexInductive, PTL

(* A run is continued only when its own process tree is gone and the fate  *)
(* of every control of it is known.                                        *)
THEOREM ContinuedRunsAreQuiet == Spec => []ContinuedIsQuiet
  <1>1. ASSUME CodexInv
        PROVE  ContinuedIsQuiet
    <2> SUFFICES ASSUME NEW s \in Runs, run[s].source # None, NEW r, r = run[s].source
                 PROVE  /\ codex[r].process = "gone" /\ execution[r].state = "STOPPED_NO_DELIVERY"
                        /\ \A i \in Queued(r) :
                             control[r][i].applied = IF control[r][i].dispatched THEN 1 ELSE 0
      BY DEF ContinuedIsQuiet
    <2>1. r \in Runs
      <3>1. TypeOK
        BY <1>1 DEF CodexInv
      <3> QED
        BY <3>1, Fields DEF RunRow, Sources
    <2>2. execution[r].state = "STOPPED_NO_DELIVERY" /\ Continuable(r) /\ SealTrue(r)
      BY <1>1, <2>1 DEF CodexInv, CoreInv, ExecutionTrue
    <2>3. codex[r].process = "gone"
      BY <2>2 DEF Continuable, SealTrue
    <2>4. ASSUME NEW i \in Queued(r)
          PROVE  control[r][i].applied = IF control[r][i].dispatched THEN 1 ELSE 0
      <3>1. i \in Controls
        BY <2>4 DEF Queued
      <3>2. RowTrue(r, i)
        BY <1>1, <2>1, <3>1 DEF CodexInv, RowsInv
      <3>3. \/ control[r][i].state \in {"STEER_ACCEPTED", "TURN_INTERRUPTED"}
            \/ control[r][i].state = "NOT_APPLIED" /\ ~control[r][i].dispatched
        BY <2>2, <2>4 DEF Continuable
      <3> QED
        BY <3>2, <3>3 DEF RowTrue, Untouched
    <2> QED
      BY <2>2, <2>3, <2>4
  <1> QED
    BY <1>1, CodexInductive, PTL

(* A sealed transcript and a finished, stopped or abandoned execution are  *)
(* never changed, not even by a late call.                                 *)
THEOREM SealedStaysFinal == Spec => SealedIsFinal
  <1>1. CodexInv /\ [Next]_vars =>
          [\A r \in Runs :
             /\ runtime[r].state = "SEALED" =>
                  /\ runtime'[r] = runtime[r]
                  /\ \A i \in Controls : control'[r][i].state = control[r][i].state
             /\ execution[r].state \in {"FINISHED", "STOPPED_NO_DELIVERY", "ABANDONED_RECONCILED"} =>
                  execution'[r].state = execution[r].state]_vars
    BY NextSafe DEF Safe, SealKeep, ExecutionKeep, Final
  <1> QED
    BY <1>1, CodexInductive, PTL DEF Spec, SealedIsFinal

(* Outside a recovery every open execution belongs to the current epoch.   *)
THEOREM RecoveriesSettleExecutions == Spec => []RecoverySettlesExecutions
  <1>1. CodexInv => RecoverySettlesExecutions
    BY DEF CodexInv, CoreInv
  <1> QED
    BY <1>1, CodexInductive, PTL

=============================================================================
