----------------------------- MODULE WorkerLane -----------------------------
(***************************************************************************)
(* How a started run reaches a worker: the transactional outbox with its   *)
(* leases and dispatchers (internal/outbox, outbox_store.go), the relay    *)
(* that moves run.started messages into the worker inbox (worker_relay.go),*)
(* the inbox leases (worker_store.go), preparation and offline execution   *)
(* (preparation_store.go, offline_store.go), and the worker processes that *)
(* hold those leases (internal/workeragent).                               *)
(*                                                                         *)
(* Message n is row n of the outbox; if its topic is run.started, run n,   *)
(* inbox row n and execution n belong to it.  Time is a live flag on every *)
(* lease and an expiry step.  A worker's call is answered, or it fails for *)
(* the worker: applied, not applied, or applied after the worker went on.  *)
(***************************************************************************)
EXTENDS RunModel, Sequences, FiniteSets

CONSTANTS
  Dispatchers,       \* outbox dispatcher processes
  Owner,             \* [Dispatchers -> the worker id it claims with, one of Names]
  Handlers,          \* [Dispatchers -> topics registered with it]
  Workers,           \* worker processes
  Names,             \* identities; two processes may be given the same
  Preparers,         \* the identities with the WorkerPrepare grant
  None,
  MaxMessages,       \* bound: outbox rows
  Limit,             \* DispatchBatch's claim limit
  MaxAttempts,       \* Dispatcher.MaxAttempts
  MaxClaims,         \* bound: claims of one outbox row
  MaxGeneration,     \* bound: leases of one inbox row
  MaxRecoveryEpoch,  \* bound: BeginRecovery may raise the epoch up to this
  MaxLate            \* bound: calls that are applied after they were given up

ASSUME LaneAssumption == Preparers \subseteq Names /\ None \notin Names
(* run.started is the relay's own topic (worker_relay.go); nothing         *)
(* registers a dispatcher handler for it.                                  *)
ASSUME HandlersAssumption == \A d \in Dispatchers : "run.started" \notin Handlers[d]
ASSUME OwnerAssumption == Owner \in [Dispatchers -> Names]
ASSUME AttemptsAssumption == MaxAttempts \in Nat \ {0} /\ Limit \in Nat \ {0}
ASSUME LaneBounds == {MaxMessages, MaxClaims, MaxGeneration, MaxRecoveryEpoch, MaxLate} \subseteq Nat

VARIABLES
  subject,     \* [Workers -> Names], the certificate of a process, never changes
  platform,    \* recovery mode and epoch
  outbox,      \* [Messages -> outbox_events]
  dispatcher,  \* [Dispatchers -> DispatchBatch]
  run,         \* [Messages -> the run row; the session row agrees with it]
  inbox,       \* [Messages -> worker_inbox, with the preparation of it]
  execution,   \* [Messages -> worker_offline_executions]
  worker,      \* [Workers -> the worker process]
  late,        \* calls given up by their caller that the server may still apply
  handled,     \* history: [Messages -> attempts whose handler succeeded]
  engine       \* history: [Messages -> times the sandbox engine ran]

outboxVars == <<outbox, dispatcher, handled>>
laneVars == <<inbox, execution>>
hostVars == <<worker, late, engine>>
vars == <<subject, platform, outbox, dispatcher, run, inbox, execution, worker, late, handled, engine>>

Messages == 1 .. MaxMessages
Topics == {"run.started", "work.created", "custom"}

(* outbox.Classify: the risk a topic demands, or the one it declares. *)
Classify(topic) ==
  CASE topic = "run.started" -> "CONTROLLED_MUTATION"
    [] topic = "work.created" -> "OBSERVE"
    [] OTHER -> "HIGH_RISK"

OutboxStates == {"ABSENT", "PENDING", "LEASED", "DISPATCHED", "DEAD_LETTER"}
InboxStates == {"ABSENT", "PENDING", "LEASED", "INPUT_VALIDATED", "REVOKED"}
ExecutionStates == {"ABSENT", "AUTHORIZED", "UNKNOWN", "FINISHED", "ABANDONED_RECONCILED"}
Holders == Names \cup {None}
Attempts == 0 .. MaxClaims
Generations == 0 .. MaxGeneration
Epochs == 0 .. MaxRecoveryEpoch

(* live: lease_until is not reached.  due: next_attempt_at is. *)
OutboxRow ==
  [state : OutboxStates, topic : Topics, owner : Holders, attempt : Attempts, epoch : Epochs,
   live : BOOLEAN, due : BOOLEAN]

(* The receipt names the worker and the generation that reported. *)
Receipts == [worker : Holders, generation : Generations, prepared : BOOLEAN]
InboxRow ==
  [state : InboxStates, owner : Holders, generation : Generations, epoch : Epochs,
   live : BOOLEAN, receipt : Receipts]

ExecutionRow == [state : ExecutionStates, worker : Holders, epoch : Epochs, live : BOOLEAN]

(* A lease as DispatchBatch holds it: message id and attempt. *)
Leases == [id : Messages, attempt : Attempts]
DispatcherPCs == {"idle", "next", "handling", "detached", "settle"}
Results == {"DISPATCHED", "PENDING", "DEAD_LETTER"}
DispatcherState == [pc : DispatcherPCs, batch : Seq(Leases), result : Results]

WorkerPCs == {"idle", "renew", "prepare", "rerenew", "report", "rereport",
              "admitted", "execute", "refresh", "finish", "refinish", "fail"}

(* The assignment's token: message, generation and recovery epoch. *)
WorkerState == [pc : WorkerPCs, id : Messages \cup {0}, generation : Generations,
                epoch : Epochs]

NoMessage == [state |-> "ABSENT", topic |-> "custom", owner |-> None, attempt |-> 0, epoch |-> 0,
              live |-> FALSE, due |-> TRUE]
NoInbox == [state |-> "ABSENT", owner |-> None, generation |-> 0, epoch |-> 0, live |-> FALSE,
            receipt |-> [worker |-> None, generation |-> 0, prepared |-> FALSE]]
NoExecution == [state |-> "ABSENT", worker |-> None, epoch |-> 0, live |-> FALSE]
NoBatch == [pc |-> "idle", batch |-> <<>>, result |-> "PENDING"]
Idle == [pc |-> "idle", id |-> 0, generation |-> 0, epoch |-> 0]

-----------------------------------------------------------------------------
(* The outbox. *)

Normal == platform.mode = "NORMAL"

(* Inside Store.Dispatch: the platform row is share-locked, the message    *)
(* row locked, until the transaction ends or its connection drops.         *)
InDispatch(d) == dispatcher[d].pc \in {"handling", "settle"}
RowLocked(n) == \E d \in Dispatchers : InDispatch(d) /\ Head(dispatcher[d].batch).id = n

(* Mutate with an outbox message: the business change, here a started run, *)
(* and the row in one transaction.                                         *)
Mutate(n, topic) ==
  /\ outbox[n].state = "ABSENT"
  /\ \A m \in Messages : m < n => outbox[m].state # "ABSENT"
  /\ outbox' = [outbox EXCEPT ![n].state = "PENDING", ![n].topic = topic]
  /\ run' = IF topic = "run.started" THEN [run EXCEPT ![n] = StartAttempt(@)] ELSE run
  /\ UNCHANGED <<platform, dispatcher, handled, laneVars, hostVars>>

(* PENDING or expired, and due; SKIP LOCKED leaves out locked rows. *)
Claimable(n) ==
  /\ outbox[n].state = "PENDING" \/ (outbox[n].state = "LEASED" /\ ~outbox[n].live)
  /\ outbox[n].due
  /\ outbox[n].attempt < MaxClaims
  /\ ~RowLocked(n)

Leased(n, owner) ==
  [outbox[n] EXCEPT !.state = "LEASED", !.owner = owner, !.attempt = @ + 1,
                    !.epoch = platform.epoch, !.live = TRUE]

(* Claim: the first due rows, during a recovery only those of OBSERVE. *)
Claim(d) ==
  LET eligible == {n \in Messages : Claimable(n) /\ (Normal \/ Classify(outbox[n].topic) = "OBSERVE")}
      claimed == {n \in eligible : Cardinality({m \in eligible : m < n}) < Limit}
      inOrder == {ids \in [1 .. Cardinality(claimed) -> claimed] :
                    \A i, j \in DOMAIN ids : i < j => ids[i] < ids[j]}
  IN
  /\ dispatcher[d].pc = "idle"
  /\ claimed # {}
  /\ outbox' = [n \in Messages |-> IF n \in claimed THEN Leased(n, Owner[d]) ELSE outbox[n]]
  /\ \E ids \in inOrder : dispatcher' = [dispatcher EXCEPT ![d] =
       [NoBatch EXCEPT !.pc = "next",
          !.batch = [i \in 1 .. Cardinality(claimed) |->
                       [id |-> ids[i], attempt |-> outbox[ids[i]].attempt + 1]]]]
  /\ UNCHANGED <<platform, run, handled, laneVars, hostVars>>

(* Mutant of ExactLease: the owner's name alone is compared. *)
OwnersLease(d) ==
  LET row == outbox[Head(dispatcher[d].batch).id] IN
  row.state = "LEASED" /\ row.owner = Owner[d]

(* The row is leased to this owner under this attempt. *)
ExactLease(d) ==
  LET lease == Head(dispatcher[d].batch) IN
  /\ outbox[lease.id].state = "LEASED" /\ outbox[lease.id].owner = Owner[d]
  /\ outbox[lease.id].attempt = lease.attempt

(* settleOutbox: only under the exact lease, and while it is live. *)
Settleable(d) == ExactLease(d) /\ outbox[Head(dispatcher[d].batch).id].live

Settle(d, result) ==
  LET n == Head(dispatcher[d].batch).id IN
  outbox' = [outbox EXCEPT ![n].state = result, ![n].owner = None, ![n].live = FALSE,
                           ![n].due = result # "PENDING"]

(* DispatchBatch goes on with the rest of its batch, or returns. *)
NextMessage(d) ==
  LET rest == Tail(dispatcher[d].batch) IN
  dispatcher' = [dispatcher EXCEPT ![d] =
    IF rest = <<>> THEN NoBatch ELSE [NoBatch EXCEPT !.pc = "next", !.batch = rest]]
EndBatch(d) == dispatcher' = [dispatcher EXCEPT ![d] = NoBatch]

(* The next message of the batch, not locked by another Dispatch. *)
AtMessage(d) == dispatcher[d].pc = "next" /\ ~RowLocked(Head(dispatcher[d].batch).id)
Registered(d) == outbox[Head(dispatcher[d].batch).id].topic \in Handlers[d]

(* No handler: MarkDeadLetter, which a lost lease turns into a deferral. *)
DeadLetterUnhandled(d) ==
  /\ AtMessage(d) /\ ~Registered(d)
  /\ IF Settleable(d) THEN Settle(d, "DEAD_LETTER") ELSE UNCHANGED outbox
  /\ NextMessage(d)
  /\ UNCHANGED <<platform, run, handled, laneVars, hostVars>>

(* Dispatch, up to the callback: exact lease, recovery authority for all   *)
(* but OBSERVE, and time left.                                             *)
Admitted(d) ==
  LET row == outbox[Head(dispatcher[d].batch).id] IN
  /\ ExactLease(d) /\ row.live
  /\ Classify(row.topic) = "OBSERVE" \/ (Normal /\ row.epoch = platform.epoch)

Dispatch(d) ==
  /\ AtMessage(d) /\ Registered(d)
  /\ IF Admitted(d)
     THEN dispatcher' = [dispatcher EXCEPT ![d].pc = "handling"]
     ELSE NextMessage(d)
  /\ UNCHANGED <<platform, outbox, run, handled, laneVars, hostVars>>

(* The callback: what the dispatcher makes of the handler's answer.  A     *)
(* message past its budget is not handled any more; an ambiguous effect is *)
(* not retried.                                                            *)
HandlerReturns(d) ==
  LET lease == Head(dispatcher[d].batch)
      Resolve(result) == dispatcher' = [dispatcher EXCEPT ![d].pc = "settle", ![d].result = result]
  IN
  /\ dispatcher[d].pc = "handling"
  /\ \/ /\ lease.attempt <= MaxAttempts
        /\ Resolve("DISPATCHED")
        /\ handled' = [handled EXCEPT ![lease.id] = @ \cup {lease.attempt}]
     \/ lease.attempt < MaxAttempts /\ Resolve("PENDING") /\ UNCHANGED handled
     \/ Resolve("DEAD_LETTER") /\ UNCHANGED handled
  /\ UNCHANGED <<platform, outbox, run, laneVars, hostVars>>

(* The rest of the transaction: settled and committed under the live       *)
(* lease; or the outcome is unknown, the batch stops, and the row is as it *)
(* was or as it was to be.                                                 *)
DispatchReturns(d) ==
  /\ dispatcher[d].pc = "settle"
  /\ \/ Settleable(d) /\ Settle(d, dispatcher[d].result) /\ (NextMessage(d) \/ EndBatch(d))
     \/ UNCHANGED outbox /\ EndBatch(d)
  /\ UNCHANGED <<platform, run, handled, laneVars, hostVars>>

(* The connection drops under a running handler, whose context does not    *)
(* depend on it: PostgreSQL rolls back and releases both locks, and the    *)
(* handler runs on.                                                        *)
ConnectionDrops(d) ==
  /\ dispatcher[d].pc = "handling"
  /\ dispatcher' = [dispatcher EXCEPT ![d].pc = "detached"]
  /\ UNCHANGED <<platform, outbox, run, handled, laneVars, hostVars>>

(* It returns, with its effect or without: settling fails, the outcome is  *)
(* unknown and the batch stops.                                            *)
DetachedReturns(d) ==
  LET lease == Head(dispatcher[d].batch) IN
  /\ dispatcher[d].pc = "detached"
  /\ \/ /\ lease.attempt <= MaxAttempts
        /\ handled' = [handled EXCEPT ![lease.id] = @ \cup {lease.attempt}]
     \/ UNCHANGED handled
  /\ EndBatch(d)
  /\ UNCHANGED <<platform, outbox, run, laneVars, hostVars>>

(* The dispatcher's process dies; PostgreSQL rolls its transaction back. *)
DispatcherDies(d) ==
  /\ dispatcher[d].pc # "idle"
  /\ EndBatch(d)
  /\ UNCHANGED <<platform, outbox, run, handled, laneVars, hostVars>>

ExpireOutboxLease(n) ==
  /\ outbox[n].live
  /\ outbox' = [outbox EXCEPT ![n].live = FALSE]
  /\ UNCHANGED <<platform, dispatcher, run, handled, laneVars, hostVars>>

(* The retry delay is over. *)
RetryDue(n) ==
  /\ ~outbox[n].due
  /\ outbox' = [outbox EXCEPT ![n].due = TRUE]
  /\ UNCHANGED <<platform, dispatcher, run, handled, laneVars, hostVars>>

-----------------------------------------------------------------------------
(* The relay and the inbox. *)

(* workerRunActive against the intent of the first attempt. *)
SameRun(n) == run[n].epoch = 1
RuntimeOwned(n) == run[n].owner = "RUNTIME" /\ run[n].state \in {"RUNNING", "PAUSED"}
RunPaused(n) == SameRun(n) /\ RuntimeOwned(n) /\ run[n].state = "PAUSED"
RunActive(n) == SameRun(n) /\ RuntimeOwned(n) /\ run[n].state # "PAUSED"

(* relayRunStart: lease, insert into the inbox and settle, in one           *)
(* transaction.  A run that moved on has its message dead-lettered.         *)
RelayRunStart ==
  LET due == {n \in Messages : Claimable(n) /\ outbox[n].topic = "run.started"}
      Accepted(n) == SameRun(n) /\ RuntimeOwned(n)
  IN
  /\ Normal
  /\ \E n \in due :
       /\ \A k \in due : n <= k
       /\ outbox' = [outbox EXCEPT ![n] =
            [Leased(n, None) EXCEPT !.state = IF Accepted(n) THEN "DISPATCHED" ELSE "DEAD_LETTER",
                                    !.live = FALSE]]
       /\ inbox' = IF Accepted(n) THEN [inbox EXCEPT ![n].state = "PENDING"] ELSE inbox
  /\ UNCHANGED <<platform, dispatcher, run, handled, execution, hostVars>>

Subject(w) == subject[w]

Busy(w) == \E n \in Messages : inbox[n].state = "LEASED" /\ inbox[n].live /\ inbox[n].owner = Subject(w)

(* The rows a poll may pick; a paused run's stay where they are. *)
Waiting ==
  {n \in Messages : /\ inbox[n].state = "PENDING" \/ (inbox[n].state = "LEASED" /\ ~inbox[n].live)
                    /\ ~RunPaused(n)}

Go(w, pc) == worker' = [worker EXCEPT ![w].pc = pc]
At(w, pc) == worker[w].pc = pc
Rest(w) == worker' = [worker EXCEPT ![w] = Idle]

(* ClaimInput of the first waiting row: leased under a new generation, its *)
(* answer received or lost; or revoked, and the poll goes on.              *)
ClaimInput(w) ==
  /\ At(w, "idle") /\ Normal
  /\ ~Busy(w)
  /\ \E n \in Waiting :
       /\ \A k \in Waiting : n <= k
       /\ \/ /\ RunActive(n) /\ inbox[n].generation < MaxGeneration
             /\ inbox' = [inbox EXCEPT ![n].state = "LEASED", ![n].owner = Subject(w), ![n].live = TRUE,
                                       ![n].generation = @ + 1, ![n].epoch = platform.epoch]
             /\ \/ UNCHANGED worker
                \/ worker' = [worker EXCEPT ![w] = [pc |-> "renew", id |-> n, epoch |-> platform.epoch,
                                                    generation |-> inbox[n].generation + 1]]
          \/ /\ ~RunActive(n)
             /\ inbox' = [inbox EXCEPT ![n].state = "REVOKED", ![n].owner = None, ![n].live = FALSE]
             /\ UNCHANGED worker
  /\ UNCHANGED <<platform, run, outboxVars, execution, late, engine>>

(* A call of a worker process, with what identifies its authority. *)
Call(w, op) == [op |-> op, worker |-> w, id |-> worker[w].id, epoch |-> worker[w].epoch,
                generation |-> worker[w].generation]

(* Mutant of HoldsToken: the generation is not compared. *)
HoldsName(q) == inbox[q.id].owner = Subject(q.worker) /\ inbox[q.id].epoch = q.epoch

(* lockWorkerLease: the row's owner and its whole token. *)
HoldsToken(q) ==
  /\ inbox[q.id].owner = Subject(q.worker)
  /\ inbox[q.id].generation = q.generation /\ inbox[q.id].epoch = q.epoch

(* liveWorkerLease. *)
LeaseLive(q) ==
  /\ Normal /\ inbox[q.id].epoch = platform.epoch
  /\ inbox[q.id].state = "LEASED" /\ inbox[q.id].live
  /\ RunActive(q.id)

RenewInput(q) == HoldsToken(q) /\ LeaseLive(q) /\ UNCHANGED laneVars

(* ReportInput and ReportPrepared: the receipt, once; the identical report *)
(* reads it back, even during a recovery.                                  *)
ReportInput(q) ==
  LET prepared == Subject(q.worker) \in Preparers IN
  /\ HoldsToken(q)
  /\ \/ /\ inbox[q.id].state = "INPUT_VALIDATED"
        /\ prepared => inbox[q.id].receipt.prepared
        /\ UNCHANGED inbox
     \/ /\ LeaseLive(q)
        /\ inbox' = [inbox EXCEPT ![q.id].state = "INPUT_VALIDATED", ![q.id].live = FALSE,
             ![q.id].receipt = [worker |-> Subject(q.worker), generation |-> q.generation,
                                prepared |-> prepared]]
  /\ UNCHANGED execution

ExpireInput(n) ==
  /\ inbox[n].live
  /\ inbox' = [inbox EXCEPT ![n].live = FALSE]
  /\ UNCHANGED <<platform, run, outboxVars, execution, hostVars>>

-----------------------------------------------------------------------------
(* Offline executions. *)

Open(n) == execution[n].state \in {"AUTHORIZED", "UNKNOWN"}

(* Mutant of Unreserved: an execution with an unknown end may be redone. *)
UnreservedOrUnknown(n) == execution[n].state \in {"ABSENT", "UNKNOWN"}

(* run_id is the key of worker_offline_executions. *)
Unreserved(n) == execution[n].state = "ABSENT"

(* StartOffline: a permit for the worker that prepared the run; its answer *)
(* may be lost.                                                            *)
StartOffline(w, n) ==
  /\ At(w, "idle") /\ Subject(w) \in Preparers
  /\ Normal
  /\ \A m \in Messages : ~(execution[m].state = "AUTHORIZED" /\ execution[m].worker = Subject(w))
  /\ inbox[n].state = "INPUT_VALIDATED" /\ inbox[n].owner = Subject(w)
  /\ inbox[n].receipt.prepared
  /\ RunActive(n)
  /\ Unreserved(n)
  /\ execution' = [execution EXCEPT ![n] = [state |-> "AUTHORIZED", worker |-> Subject(w),
                                            epoch |-> platform.epoch, live |-> TRUE]]
  /\ \/ UNCHANGED worker
     \/ worker' = [worker EXCEPT ![w] = [pc |-> "execute", id |-> n, generation |-> 0,
                                         epoch |-> platform.epoch]]
  /\ UNCHANGED <<platform, run, outboxVars, inbox, late, engine>>

(* lockOffline: the identity of the permit, and whether it is live. *)
HoldsPermit(q) ==
  /\ inbox[q.id].owner = Subject(q.worker)
  /\ execution[q.id].worker = Subject(q.worker) /\ execution[q.id].epoch = q.epoch

PermitLive(q) ==
  /\ Normal /\ platform.epoch = q.epoch
  /\ RunActive(q.id)
  /\ execution[q.id].state = "AUTHORIZED" /\ execution[q.id].live

RenewOffline(q) == HoldsPermit(q) /\ PermitLive(q) /\ UNCHANGED laneVars

FinishOffline(q) ==
  /\ HoldsPermit(q)
  /\ \/ execution[q.id].state = "FINISHED" /\ UNCHANGED execution
     \/ PermitLive(q) /\ execution' = [execution EXCEPT ![q.id].state = "FINISHED", ![q.id].live = FALSE]
  /\ UNCHANGED inbox

(* Mutant of FailOffline: the state is not looked at. *)
FailOfflineAnyway(q) ==
  /\ HoldsPermit(q)
  /\ execution' = [execution EXCEPT ![q.id].state = "UNKNOWN"]
  /\ UNCHANGED inbox

FailOffline(q) ==
  /\ HoldsPermit(q)
  /\ execution' = [execution EXCEPT ![q.id].state = IF @ = "AUTHORIZED" THEN "UNKNOWN" ELSE @]
  /\ UNCHANGED inbox

ExpirePermit(n) ==
  /\ execution[n].live /\ Open(n)
  /\ execution' = [execution EXCEPT ![n].live = FALSE]
  /\ UNCHANGED <<platform, run, outboxVars, inbox, hostVars>>

-----------------------------------------------------------------------------
(* The worker process. *)

Serve(q) ==
  \/ q.op = "renew" /\ RenewInput(q)
  \/ q.op = "report" /\ ReportInput(q)
  \/ q.op = "refresh" /\ RenewOffline(q)
  \/ q.op = "finish" /\ FinishOffline(q)
  \/ q.op = "fail" /\ FailOffline(q)

Heard(q) == Serve(q) /\ UNCHANGED late

(* The worker sees an error: refused, lost on the way there or back, or    *)
(* timed out while the server still has the call.                          *)
Unheard(q) ==
  \/ Serve(q) /\ UNCHANGED late
  \/ UNCHANGED <<laneVars, late>>
  \/ UNCHANGED laneVars /\ Cardinality(late) < MaxLate /\ late' = late \cup {q}

LateCall(q) ==
  /\ late' = late \ {q}
  /\ Serve(q) \/ UNCHANGED laneVars
  /\ UNCHANGED <<platform, run, outboxVars, worker, engine>>

(* Once and PrepareOnce: the lease is renewed before the work, and for a   *)
(* preparation again after it; an error ends the attempt.                  *)
RenewStep(w, pc, next) ==
  /\ At(w, pc)
  /\ \/ Heard(Call(w, "renew")) /\ Go(w, next)
     \/ Unheard(Call(w, "renew")) /\ Rest(w)
  /\ UNCHANGED <<platform, run, outboxVars, engine>>

FirstRenew(w) == RenewStep(w, "renew", IF Subject(w) \in Preparers THEN "prepare" ELSE "report")
FinalRenew(w) == RenewStep(w, "rerenew", "report")

(* PrepareWithSource and Recheck on the worker's host; or they fail. *)
Prepare(w) ==
  /\ At(w, "prepare")
  /\ Go(w, "rerenew") \/ Rest(w)
  /\ UNCHANGED <<platform, run, outboxVars, laneVars, late, engine>>

(* The identical report is repeated once if the first was not answered. *)
Report(w) ==
  /\ At(w, "report") \/ At(w, "rereport")
  /\ \/ Heard(Call(w, "report")) /\ Go(w, "admitted")
     \/ Unheard(Call(w, "report")) /\ ((At(w, "report") /\ Go(w, "rereport")) \/ Rest(w))
  /\ UNCHANGED <<platform, run, outboxVars, engine>>

(* The next poll. *)
PollAgain(w) ==
  /\ At(w, "admitted") /\ Rest(w)
  /\ UNCHANGED <<platform, run, outboxVars, laneVars, late, engine>>

(* ExecuteOffline: the engine runs, whatever becomes of the lease          *)
(* meanwhile; an error on the way is settled as a failure.                 *)
Execute(w) ==
  /\ At(w, "execute")
  /\ engine' = [engine EXCEPT ![worker[w].id] = @ + 1]
  /\ Go(w, "refresh") \/ Go(w, "fail")
  /\ UNCHANGED <<platform, run, outboxVars, laneVars, late>>

(* Reopen or the local record fails: nothing ran. *)
ExecuteFails(w) ==
  /\ At(w, "execute") /\ Go(w, "fail")
  /\ UNCHANGED <<platform, run, outboxVars, laneVars, late, engine>>

Refresh(w) ==
  /\ At(w, "refresh")
  /\ \/ Heard(Call(w, "refresh")) /\ Go(w, "finish")
     \/ Unheard(Call(w, "refresh")) /\ Go(w, "fail")
  /\ UNCHANGED <<platform, run, outboxVars, engine>>

Finish(w) ==
  /\ At(w, "finish") \/ At(w, "refinish")
  /\ \/ Heard(Call(w, "finish")) /\ Rest(w)
     \/ Unheard(Call(w, "finish")) /\ ((At(w, "finish") /\ Go(w, "refinish")) \/ Go(w, "fail"))
  /\ UNCHANGED <<platform, run, outboxVars, engine>>

Fail(w) ==
  /\ At(w, "fail") /\ Rest(w)
  /\ Heard(Call(w, "fail")) \/ Unheard(Call(w, "fail"))
  /\ UNCHANGED <<platform, run, outboxVars, engine>>

WorkerDies(w) ==
  /\ ~At(w, "idle") /\ Rest(w)
  /\ UNCHANGED <<platform, run, outboxVars, laneVars, late, engine>>

-----------------------------------------------------------------------------
(* Operators: run controls and recovery. *)

Pause(n) ==
  /\ RunActive(n)
  /\ run' = [run EXCEPT ![n] = PauseRun(@)]
  /\ UNCHANGED <<platform, outboxVars, laneVars, hostVars>>

Resume(n) ==
  /\ RunPaused(n)
  /\ run' = [run EXCEPT ![n] = ResumeRun(@)]
  /\ UNCHANGED <<platform, outboxVars, laneVars, hostVars>>

Takeover(n) ==
  /\ RunActive(n) \/ RunPaused(n)
  /\ run' = [run EXCEPT ![n] = TakeoverRun(@)]
  /\ UNCHANGED <<platform, outboxVars, laneVars, hostVars>>

(* Mutant of PlatformUnlocked: Dispatch does not keep the platform row. *)
PlatformAlwaysUnlocked == TRUE

(* BeginRecovery updates the platform row: it waits for every Dispatch. *)
PlatformUnlocked == \A d \in Dispatchers : ~InDispatch(d)

BeginRecovery ==
  /\ Normal /\ PlatformUnlocked
  /\ platform.epoch < MaxRecoveryEpoch
  /\ platform' = [mode |-> "RECOVERY_RECONCILIATION", epoch |-> platform.epoch + 1]
  /\ UNCHANGED <<run, outboxVars, laneVars, hostVars>>

(* ReconcileExecutionAbandoned, for a run without a delivery. *)
AbandonExecution(n) ==
  /\ ~Normal /\ Open(n) /\ ~execution[n].live
  /\ execution' = [execution EXCEPT ![n].state = "ABANDONED_RECONCILED"]
  /\ UNCHANGED <<platform, run, outboxVars, inbox, hostVars>>

CompleteRecovery ==
  /\ ~Normal /\ PlatformUnlocked
  /\ \A n \in Messages : ~Open(n)
  /\ platform' = [platform EXCEPT !.mode = "NORMAL"]
  /\ UNCHANGED <<run, outboxVars, laneVars, hostVars>>

-----------------------------------------------------------------------------
Init ==
  /\ subject \in [Workers -> Names]
  /\ platform = [mode |-> "NORMAL", epoch |-> 0]
  /\ outbox = [n \in Messages |-> NoMessage]
  /\ dispatcher = [d \in Dispatchers |-> NoBatch]
  /\ run = [n \in Messages |-> NewRun]
  /\ inbox = [n \in Messages |-> NoInbox]
  /\ execution = [n \in Messages |-> NoExecution]
  /\ worker = [w \in Workers |-> Idle]
  /\ late = {}
  /\ handled = [n \in Messages |-> {}]
  /\ engine = [n \in Messages |-> 0]

DispatcherStep(d) ==
  \/ Claim(d) \/ DeadLetterUnhandled(d) \/ Dispatch(d) \/ HandlerReturns(d)
  \/ DispatchReturns(d) \/ ConnectionDrops(d) \/ DetachedReturns(d) \/ DispatcherDies(d)

WorkerStep(w) ==
  \/ ClaimInput(w) \/ FirstRenew(w) \/ Prepare(w) \/ FinalRenew(w) \/ Report(w) \/ PollAgain(w)
  \/ (\E n \in Messages : StartOffline(w, n))
  \/ Execute(w) \/ ExecuteFails(w) \/ Refresh(w) \/ Finish(w) \/ Fail(w) \/ WorkerDies(w)

Next ==
  /\ \/ \E n \in Messages :
          \/ (\E topic \in Topics : Mutate(n, topic))
          \/ ExpireOutboxLease(n) \/ RetryDue(n) \/ ExpireInput(n) \/ ExpirePermit(n)
          \/ Pause(n) \/ Resume(n) \/ Takeover(n) \/ AbandonExecution(n)
     \/ \E d \in Dispatchers : DispatcherStep(d)
     \/ \E w \in Workers : WorkerStep(w)
     \/ \E q \in late : LateCall(q)
     \/ RelayRunStart \/ BeginRecovery \/ CompleteRecovery
  /\ UNCHANGED subject

Spec == Init /\ [][Next]_vars

-----------------------------------------------------------------------------
(* Properties. *)

CallOps == {"renew", "report", "refresh", "finish", "fail"}
Requests == [op : CallOps, worker : Workers,
             id : Messages, epoch : Epochs, generation : Generations]

(* The rows, the processes and the calls under way have their types. *)
TypeOK ==
  /\ subject \in [Workers -> Names]
  /\ platform \in [mode : {"NORMAL", "RECOVERY_RECONCILIATION"}, epoch : Epochs]
  /\ outbox \in [Messages -> OutboxRow]
  /\ dispatcher \in [Dispatchers -> DispatcherState]
  /\ run \in [Messages -> RunRecord]
  /\ inbox \in [Messages -> InboxRow]
  /\ execution \in [Messages -> ExecutionRow]
  /\ worker \in [Workers -> WorkerState]
  /\ late \subseteq Requests
  /\ handled \in [Messages -> SUBSET Attempts]
  /\ engine \in [Messages -> Nat]

(* A message is DISPATCHED only by the attempt whose handler succeeded,    *)
(* and a run.started one exactly when its run is in the inbox: a           *)
(* dispatcher whose lease ran out while its handler was still running      *)
(* never settles the row of the next holder, not even one of its own name. *)
SettledByHolder ==
  \A n \in Messages :
    /\ inbox[n].state # "ABSENT" <=> outbox[n].state = "DISPATCHED" /\ outbox[n].topic = "run.started"
    /\ outbox[n].state = "DISPATCHED" =>
         outbox[n].topic = "run.started" \/ outbox[n].attempt \in handled[n]

(* What Dispatch promises of a handler with side effects while it has its  *)
(* connection: the platform is not in recovery and has not been since the  *)
(* message was leased.                                                     *)
UnderAuthority ==
  \A d \in Dispatchers : InDispatch(d) =>
    LET row == outbox[Head(dispatcher[d].batch).id] IN
    Classify(row.topic) # "OBSERVE" => Normal /\ row.epoch = platform.epoch

(* A handler runs into a recovery, or beside another handler of its        *)
(* message, only if its database connection dropped under it: as long as   *)
(* Dispatch holds the platform row, BeginRecovery waits, and as long as it *)
(* holds the message's row, nobody claims it again, expired or not.  A     *)
(* handler that lost its connection may do both; recipients must           *)
(* deduplicate, and it settles nothing (SettledByHolder).                  *)
NoStaleDelivery ==
  /\ UnderAuthority
  /\ \A d, e \in Dispatchers :
       /\ d # e /\ dispatcher[d].pc \in {"handling", "detached"}
       /\ dispatcher[e].pc \in {"handling", "detached"}
       /\ Head(dispatcher[d].batch).id = Head(dispatcher[e].batch).id
       => "detached" \in {dispatcher[d].pc, dispatcher[e].pc}

(* The admission receipt of a run is the one of the worker and the lease   *)
(* generation that hold the row, and a worker that was told so was told    *)
(* the truth: a worker whose lease expired and was claimed by another      *)
(* cannot report, however late its report arrives.                         *)
ReceiptIsHolders ==
  /\ \A n \in Messages : inbox[n].state = "INPUT_VALIDATED" =>
       /\ inbox[n].receipt.worker = inbox[n].owner
       /\ inbox[n].receipt.generation = inbox[n].generation
  /\ \A w \in Workers : At(w, "admitted") =>
       LET n == worker[w].id IN
       /\ inbox[n].state = "INPUT_VALIDATED"
       /\ inbox[n].receipt = [worker |-> Subject(w), generation |-> worker[w].generation,
                              prepared |-> Subject(w) \in Preparers]

(* The sandbox engine runs at most once for a run, for the worker that     *)
(* prepared it; no failure, lost answer, crash or recovery makes it run    *)
(* again.  What is FINISHED did run, and outside a recovery every open     *)
(* execution is of the current epoch.                                      *)
ExecutedOnce ==
  \A n \in Messages :
    /\ engine[n] <= 1
    /\ execution[n].state = "FINISHED" => engine[n] = 1
    /\ execution[n].state # "ABSENT" =>
         inbox[n].receipt.prepared /\ inbox[n].receipt.worker = execution[n].worker
    /\ Normal /\ Open(n) => execution[n].epoch = platform.epoch

(* Settled messages, admission receipts and ended executions never change, *)
(* whatever late call or stale lease arrives.                              *)
SettledIsFinal ==
  [][\A n \in Messages :
       /\ outbox[n].state \in {"DISPATCHED", "DEAD_LETTER"} => outbox'[n] = outbox[n]
       /\ inbox[n].state \in {"INPUT_VALIDATED", "REVOKED"} => inbox'[n] = inbox[n]
       /\ execution[n].state \in {"FINISHED", "ABANDONED_RECONCILED"} =>
            execution'[n] = execution[n]]_vars
=============================================================================
