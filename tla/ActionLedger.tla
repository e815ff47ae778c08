---------------------------- MODULE ActionLedger ----------------------------
(***************************************************************************)
(* The external-action ledger of the control plane: action.Service on the  *)
(* PostgreSQL store, the Recovery transactions that settle what it leaves  *)
(* open, the Run/Session authority it is admitted under, and the Publisher *)
(* whose effect it accounts for.                                           *)
(*                                                                         *)
(* A process (an HTTP caller, a reconcile worker, a principal) is a small  *)
(* program counter; one action is one transaction, one read, or one remote *)
(* call.  Authority is read, then used later: everything between two       *)
(* actions of one process may be an action of another.                     *)
(*                                                                         *)
(* Losing a process (client disconnect seen by a ctx.Err() check, a crash, *)
(* a failed or ambiguous COMMIT reported as an error) is LoseCall and      *)
(* LoseReconcile.  A COMMIT that was applied but whose answer was lost is  *)
(* the committed step followed by the loss.                                *)
(***************************************************************************)
EXTENDS Integers, FiniteSets, RunModel, PublicationWitness

CONSTANTS
  Callers,            \* POST .../actions requests, one Execute call each
  Workers,            \* POST .../reconcile requests, reusable
  Principals,         \* authenticated subjects of the Recovery endpoints
  Requests,           \* the Execute requests clients may send
  None,               \* no request, no receipt, no principal
  MaxRecoveryEpoch,   \* bound: BeginRecovery may raise the epoch up to this
  MaxExecutionEpoch,  \* bound: Takeover and Continue may raise it up to this
  LosePoints,         \* program counters at which a caller may be lost
  CodexProfiles       \* whether the run has a codex tool profile: {TRUE}, {FALSE} or both

Risks == {"OBSERVE", "CONTROLLED_MUTATION", "HIGH_RISK"}

(* A request: operation id, idempotency key, risk class, execution epoch,  *)
(* recovery epoch, parameters.                                             *)
RequestShape == [id : Ids, key : Nat, risk : Risks, xe : Nat, re : Nat, par : Nat]

ASSUME RequestsAssumption == Requests \subseteq RequestShape /\ None \notin Requests
ASSUME PrincipalsAssumption == None \notin Principals
ASSUME ProfilesAssumption == CodexProfiles \subseteq BOOLEAN
ASSUME BoundsAssumption == MaxRecoveryEpoch \in Nat /\ MaxExecutionEpoch \in Nat

LedgerStates == {"PLANNED", "DISPATCHED", "CONFIRMED", "UNKNOWN",
                 "RECONCILING", "SAFE_TO_RETRY", "MANUAL", "ABANDONED_RECONCILED"}

VARIABLES
  row,          \* [Ids -> external_operations row and its audit marker]
  platform,     \* platform_state: recovery epoch and mode
  run, session, \* the run row and its session row
  codex,        \* does the run use a codex tool profile
  continued,    \* is the run the source of a continuation
  call,         \* the Execute calls
  recon,        \* the Reconcile calls
  proof,        \* recovery_reconciliation_proofs: the reconciler, per epoch
  reconcilers,  \* the policy: who holds recovery:reconcile
  completing,   \* completion requests past their authorization, 0 if none
  evident,      \* would the Publisher's evidence routes answer for the operation now
  calls,        \* history: provider.Dispatch calls per operation
  completedBy   \* history: who completed each recovery epoch

authorityVars == <<run, session, codex, continued>>
recoveryVars  == <<platform, proof, reconcilers, completing, evident, completedBy>>
vars == <<row, pub, call, recon, calls, authorityVars, recoveryVars>>

-----------------------------------------------------------------------------
(* Rows, requests and program counters. *)

Epochs == 0..MaxRecoveryEpoch

Settlement == [epoch : Nat, by : Principals]
Abandonment == [kind : {"PLANNED_ABANDONMENT", "NOT_INVOKED"}, epoch : Nat, by : Principals]

ASSUME SettlementAssumption == None \notin Settlement

Row == [state : LedgerStates \cup {"ABSENT"}, req : Requests \cup {None},
        ref : BOOLEAN, marker : BOOLEAN,
        receipt : Settlement \cup {None}, reconciliation : Abandonment \cup {None}]

AbsentRow == [state |-> "ABSENT", req |-> None, ref |-> FALSE, marker |-> FALSE,
              receipt |-> None, reconciliation |-> None]

PlannedRow(r) == [AbsentRow EXCEPT !.state = "PLANNED", !.req = r]

CallPCs == {"idle", "lookup", "checkRun", "checkRecovery", "create", "reread",
            "planned", "invoke", "await", "settle", "done", "lost"}

Replies == LedgerStates \cup {"", "CONFLICT", "DENIED", "ERROR", "UNRESOLVED"}

Call  == [pc : CallPCs, req : Requests \cup {None}, out : Replies, ref : BOOLEAN]
Recon == [pc : {"idle", "mark", "observe", "settle"}, id : Ids \cup {None},
          out : {"", "CONFIRMED", "MANUAL"}, ref : BOOLEAN]

(* The request digest covers everything but the idempotency key. *)
RequestDigest(r) == <<r.id, r.risk, r.xe, r.re, r.par>>

(* githubpublish.Provider takes controlled mutations only.  The other risk *)
(* classes are for other implementations of action.Provider: they return   *)
(* either outcome and leave no trace in this model.                        *)
Publishes(r) == r.risk = "CONTROLLED_MUTATION"

(* The operations reserved under an idempotency key: unique in the schema. *)
ByKey(k) == {i \in Ids : row[i].state # "ABSENT" /\ row[i].req.key = k}

-----------------------------------------------------------------------------
(* Authority. *)

(* gateway.Authority: advisory reads made before the reservation. *)
RunEpochCurrent(r) ==
  /\ CheckEpoch(run, r.xe)
  /\ SessionEpoch(session, r.xe)

RecoveryEpochCurrent(r) ==
  /\ r.re = platform.epoch
  /\ r.risk # "OBSERVE" => platform.mode = "NORMAL"

(* Mutant of Admitted: the recovery epoch of the request is not compared. *)
AdmittedInAnyEpoch(r) ==
  /\ r.risk # "OBSERVE" => platform.mode = "NORMAL"
  /\ run.epoch = r.xe /\ session.epoch = run.epoch
  /\ run.owner = "RUNTIME" /\ session.owner = "RUNTIME"
  /\ run.state = "RUNNING"
  /\ ~continued

(* checkActionAdmission: inside the transaction that reserves an operation *)
(* or marks it DISPATCHED, under share locks.                              *)
Admitted(r) ==
  /\ r.re = platform.epoch
  /\ r.risk # "OBSERVE" => platform.mode = "NORMAL"
  /\ run.epoch = r.xe /\ session.epoch = run.epoch
  /\ run.owner = "RUNTIME" /\ session.owner = "RUNTIME"
  /\ IF r.risk = "OBSERVE"
     THEN run.state \in {"RUNNING", "PAUSED"}
     ELSE run.state = "RUNNING" /\ ~session.paused
  /\ ~continued

(* Mutant of PreviousStates: a late UNKNOWN may overwrite a confirmation. *)
PreviousStatesLate(target, risk) ==
  CASE target = "DISPATCHED"  -> {"PLANNED"}
    [] target = "CONFIRMED"   -> {"DISPATCHED"}
    [] target = "UNKNOWN"     -> {"DISPATCHED", "CONFIRMED"}
    [] target = "RECONCILING" -> {"UNKNOWN"}
    [] target = "MANUAL"      -> {"RECONCILING"}

(* previousStates, narrowed for the confirmation of a possible effect. *)
PreviousStates(target, risk) ==
  CASE target = "DISPATCHED"  -> {"PLANNED"}
    [] target = "CONFIRMED"   -> IF risk = "OBSERVE" THEN {"DISPATCHED", "RECONCILING"}
                                                     ELSE {"DISPATCHED"}
    [] target = "UNKNOWN"     -> {"DISPATCHED"}
    [] target = "RECONCILING" -> {"UNKNOWN"}
    [] target = "MANUAL"      -> {"RECONCILING"}

(* UpdateContext: the compare-and-set that every ordinary ledger step is.  *)
Updatable(r, target) ==
  /\ row[r.id].req = r
  /\ row[r.id].state \in PreviousStates(target, r.risk)

(* Mutant of Stepped: the audit marker of a confirmation is not written. *)
SteppedUnmarked(x, r, target, ref) == [x EXCEPT !.state = target, !.ref = ref]

(* The row after the step: with the confirmation of a possible effect goes *)
(* the audit marker, in the same transaction.                              *)
Stepped(x, r, target, ref) ==
  [x EXCEPT !.state = target, !.ref = ref,
            !.marker = @ \/ (target = "CONFIRMED" /\ r.risk # "OBSERVE")]

Updated(r, target, ref) == [row EXCEPT ![r.id] = Stepped(row[r.id], r, target, ref)]

-----------------------------------------------------------------------------
(* action.Service.Execute, one caller. *)

Goto(c, pc) == call' = [call EXCEPT ![c].pc = pc]
Reply(c, out) == call' = [call EXCEPT ![c].pc = "done", ![c].out = out, ![c].ref = FALSE]

Return(c, out, ref) ==
  call' = [call EXCEPT ![c] = [pc |-> "settle", req |-> call[c].req, out |-> out, ref |-> ref]]

At(c, pc) == call[c].pc = pc

Submit(c, r) ==
  /\ At(c, "idle")
  /\ call' = [call EXCEPT ![c] = [pc |-> "lookup", req |-> r, out |-> "", ref |-> FALSE]]
  /\ UNCHANGED <<row, pub, recon, calls, authorityVars, recoveryVars>>

(* Mutant of ReplayReply: the request digests are not compared. *)
ReplayReplyUnbound(i, r) ==
  IF row[i].state \in {"ABANDONED_RECONCILED", "SAFE_TO_RETRY"} THEN "DENIED"
  ELSE row[i].state

(* What Execute answers when the key is already reserved: no replay. *)
ReplayReply(i, r) ==
  IF RequestDigest(row[i].req) # RequestDigest(r) THEN "CONFLICT"
  ELSE IF row[i].state \in {"ABANDONED_RECONCILED", "SAFE_TO_RETRY"} THEN "DENIED"
  ELSE row[i].state

Lookup(c) ==
  /\ At(c, "lookup")
  /\ \/ \E i \in ByKey(call[c].req.key) : Reply(c, ReplayReply(i, call[c].req))
     \/ ByKey(call[c].req.key) = {} /\ Goto(c, "checkRun")
  /\ UNCHANGED <<row, pub, recon, calls, authorityVars, recoveryVars>>

CheckRun(c) ==
  /\ At(c, "checkRun")
  /\ IF RunEpochCurrent(call[c].req) THEN Goto(c, "checkRecovery") ELSE Reply(c, "DENIED")
  /\ UNCHANGED <<row, pub, recon, calls, authorityVars, recoveryVars>>

CheckRecovery(c) ==
  /\ At(c, "checkRecovery")
  /\ IF RecoveryEpochCurrent(call[c].req) THEN Goto(c, "create") ELSE Reply(c, "DENIED")
  /\ UNCHANGED <<row, pub, recon, calls, authorityVars, recoveryVars>>

(* Mutant of Reservable: the idempotency key has no unique index. *)
ReservableUnderAnyKey(r) == row[r.id].state = "ABSENT"

(* The primary key and the unique idempotency key of external_operations. *)
Reservable(r) == row[r.id].state = "ABSENT" /\ ByKey(r.key) = {}

(* The reservation: admission, then an INSERT that the unique operation id *)
(* and the unique idempotency key may refuse.                              *)
Create(c) ==
  LET r == call[c].req IN
  /\ At(c, "create")
  /\ Admitted(r)
  /\ Reservable(r)
  /\ row' = [row EXCEPT ![r.id] = PlannedRow(r)]
  /\ Goto(c, "planned")
  /\ UNCHANGED <<pub, recon, calls, authorityVars, recoveryVars>>

CreateRefused(c) ==
  LET r == call[c].req IN
  /\ At(c, "create")
  /\ IF ~Admitted(r) THEN Reply(c, "DENIED")
     ELSE ~Reservable(r) /\ Goto(c, "reread")
  /\ UNCHANGED <<row, pub, recon, calls, authorityVars, recoveryVars>>

Reread(c) ==
  LET r == call[c].req IN
  /\ At(c, "reread")
  /\ \/ \E i \in ByKey(r.key) :
          Reply(c, IF ReplayReply(i, r) = "CONFLICT" THEN "ERROR" ELSE ReplayReply(i, r))
     \/ ByKey(r.key) = {} /\ Reply(c, "ERROR")
  /\ UNCHANGED <<row, pub, recon, calls, authorityVars, recoveryVars>>

(* PLANNED -> DISPATCHED, with the admission decided again. *)
MarkDispatched(c) ==
  LET r == call[c].req IN
  /\ At(c, "planned")
  /\ IF Admitted(r) /\ Updatable(r, "DISPATCHED")
     THEN row' = Updated(r, "DISPATCHED", FALSE) /\ Goto(c, "invoke")
     ELSE row' = row /\ Reply(c, "ERROR")
  /\ UNCHANGED <<pub, recon, calls, authorityVars, recoveryVars>>

(* provider.Dispatch is called; no lock is held. *)
Invoke(c) ==
  LET r == call[c].req IN
  /\ At(c, "invoke")
  /\ calls' = [calls EXCEPT ![r.id] = @ + 1]
  /\ IF Publishes(r) /\ pub[r.id].witness = "none"
     THEN PublishRequested(r.id)
     ELSE UNCHANGED pub
  /\ Goto(c, "await")
  /\ UNCHANGED <<row, recon, authorityVars, recoveryVars>>

(* The provider returns.  A success is bound to the frozen plan and only   *)
(* follows a durable completion; an error, a timeout, a malformed or an    *)
(* UNKNOWN outcome can come at any time, whatever the Publisher does.      *)
ProviderReturns(c) ==
  LET r == call[c].req IN
  /\ At(c, "await")
  /\ \/ /\ Publishes(r) => pub[r.id].witness = "completed"
        /\ Return(c, "CONFIRMED", Publishes(r))
     \/ \E ref \in BOOLEAN :
          /\ ref => pub[r.id].effect
          /\ Return(c, "UNKNOWN", ref)
  /\ UNCHANGED <<row, pub, recon, calls, authorityVars, recoveryVars>>

(* settleExternalEffect: detached from the caller's cancellation.  When    *)
(* the ledger refuses, the caller is told the effect is unresolved.        *)
Settle(c) ==
  LET r == call[c].req IN
  /\ At(c, "settle")
  /\ IF Updatable(r, call[c].out)
     THEN row' = Updated(r, call[c].out, call[c].ref) /\ Reply(c, call[c].out)
     ELSE row' = row /\ Reply(c, "UNRESOLVED")
  /\ UNCHANGED <<pub, recon, calls, authorityVars, recoveryVars>>

LoseCall(c) ==
  /\ call[c].pc \in LosePoints
  /\ Goto(c, "lost")
  /\ UNCHANGED <<row, pub, recon, calls, authorityVars, recoveryVars>>

Execute(c) ==
  \/ Lookup(c) \/ CheckRun(c) \/ CheckRecovery(c) \/ Create(c) \/ CreateRefused(c)
  \/ Reread(c) \/ MarkDispatched(c) \/ Invoke(c) \/ ProviderReturns(c) \/ Settle(c)

-----------------------------------------------------------------------------
(* action.Service.Reconcile, one worker. *)

IdleRecon == [pc |-> "idle", id |-> None, out |-> "", ref |-> FALSE]

ReconcileRead(w, i) ==
  /\ recon[w].pc = "idle"
  /\ row[i].state = "UNKNOWN"
  /\ recon' = [recon EXCEPT ![w] = [pc |-> "mark", id |-> i, out |-> "", ref |-> row[i].ref]]
  /\ UNCHANGED <<row, pub, call, calls, authorityVars, recoveryVars>>

MarkReconciling(w) ==
  LET i == recon[w].id IN
  /\ recon[w].pc = "mark"
  /\ IF Updatable(row[i].req, "RECONCILING")
     THEN /\ row' = Updated(row[i].req, "RECONCILING", recon[w].ref)
          /\ recon' = [recon EXCEPT ![w].pc = "observe"]
     ELSE row' = row /\ recon' = [recon EXCEPT ![w] = IdleRecon]
  /\ UNCHANGED <<pub, call, calls, authorityVars, recoveryVars>>

(* Whatever verdict the provider returns, an operation that may have an    *)
(* effect goes to MANUAL; only an observation may be CONFIRMED.            *)
ReconcileObserve(w) ==
  LET i == recon[w].id IN
  /\ recon[w].pc = "observe"
  /\ \E verdict \in {"CONFIRMED", "MANUAL", "UNQUALIFIED", "ERROR"}, ref \in BOOLEAN :
       /\ ref => pub[i].effect
       /\ verdict = "UNQUALIFIED" => ~ref
       /\ verdict = "ERROR" => ref = recon[w].ref
       /\ verdict = "CONFIRMED" /\ row[i].req.risk # "OBSERVE" => ~ref
       /\ LET out == IF verdict = "CONFIRMED" /\ row[i].req.risk = "OBSERVE"
                     THEN "CONFIRMED" ELSE "MANUAL"
          IN  recon' = [recon EXCEPT ![w] = [pc |-> "settle", id |-> i, out |-> out, ref |-> ref]]
  /\ UNCHANGED <<row, pub, call, calls, authorityVars, recoveryVars>>

ReconcileSettle(w) ==
  LET i == recon[w].id IN
  /\ recon[w].pc = "settle"
  /\ row' = IF Updatable(row[i].req, recon[w].out)
            THEN Updated(row[i].req, recon[w].out, recon[w].ref)
            ELSE row
  /\ recon' = [recon EXCEPT ![w] = IdleRecon]
  /\ UNCHANGED <<pub, call, calls, authorityVars, recoveryVars>>

LoseReconcile(w) ==
  /\ recon[w].pc # "idle"
  /\ recon' = [recon EXCEPT ![w] = IdleRecon]
  /\ UNCHANGED <<row, pub, call, calls, authorityVars, recoveryVars>>

Reconcile(w) ==
  \/ \E i \in Ids : ReconcileRead(w, i)
  \/ MarkReconciling(w) \/ ReconcileObserve(w) \/ ReconcileSettle(w)

-----------------------------------------------------------------------------
(* Recovery. *)

Recovering == platform.mode = "RECOVERY_RECONCILIATION"

BeginRecovery ==
  /\ platform.mode = "NORMAL"
  /\ platform.epoch < MaxRecoveryEpoch
  /\ platform' = [epoch |-> platform.epoch + 1, mode |-> "RECOVERY_RECONCILIATION"]
  /\ UNCHANGED <<row, pub, call, recon, calls, authorityVars,
                 proof, reconcilers, completing, evident, completedBy>>

(* The rows the settlement transactions write. *)
Abandoned(x, kind, p) ==
  [x EXCEPT !.state = "ABANDONED_RECONCILED",
            !.reconciliation = [kind |-> kind, epoch |-> platform.epoch, by |-> p]]

Recovered(x, p) ==
  [x EXCEPT !.state = "CONFIRMED", !.ref = TRUE,
            !.receipt = [epoch |-> platform.epoch, by |-> p]]

(* What the three settlement requests must name: an operation reserved     *)
(* under an earlier recovery epoch, while this epoch is being reconciled.  *)
FromEarlierEpoch(i) == Recovering /\ row[i].req.re < platform.epoch

(* Mutant of CanAbandonPlanned: a DISPATCHED row is taken for untouched. *)
CanAbandonDispatched(i) ==
  /\ row[i].state \in {"PLANNED", "DISPATCHED"}
  /\ FromEarlierEpoch(i)
  /\ ~row[i].ref /\ row[i].receipt = None /\ row[i].reconciliation = None

(* ReconcilePlannedActionAbandoned. *)
CanAbandonPlanned(i) ==
  /\ row[i].state = "PLANNED"
  /\ FromEarlierEpoch(i)
  /\ ~row[i].ref /\ row[i].receipt = None /\ row[i].reconciliation = None

AbandonPlanned(p, i) ==
  /\ p \in reconcilers
  /\ CanAbandonPlanned(i)
  /\ row' = [row EXCEPT ![i] = Abandoned(row[i], "PLANNED_ABANDONMENT", p)]
  /\ UNCHANGED <<pub, call, recon, calls, authorityVars, recoveryVars>>

(* Mutant of RecoverablePublicationState: only rows nobody settled. *)
RecoverableDispatchedOnly(s) == s = "DISPATCHED"

RecoverablePublicationState(s) ==
  s \in {"DISPATCHED", "UNKNOWN", "RECONCILING", "MANUAL", "SAFE_TO_RETRY"}

IsPublication(i) == row[i].state # "ABSENT" /\ row[i].req.risk = "CONTROLLED_MUTATION"

(* Mutant of CompletionEvidence: the entry into Publish counts as success. *)
EntryEvidence(i) == pub[i].witness \in {"entered", "completed"} /\ evident[i]

(* What the Publisher's evidence routes answer with depends on more than   *)
(* the witness files.  A completion is only given out with a fresh         *)
(* observation of the same pull request, open, on the planned base; a seal *)
(* only from the slot's own boot and inode.  People merge, close and       *)
(* reopen the pull request, the base moves, the host reboots: at any time, *)
(* and it matters only while Recovery may still ask.  A change after the   *)
(* answer and before the settlement's commit is as good as none.           *)
EvidenceChanges(i) ==
  /\ Recovering
  /\ row[i].receipt = None /\ row[i].reconciliation = None
  /\ pub[i].witness \in {"started", "sealed", "completed"}
  /\ evident' = [evident EXCEPT ![i] = ~@]
  /\ UNCHANGED <<row, pub, call, recon, calls, authorityVars,
                 platform, proof, reconcilers, completing, completedBy>>

(* The Publisher's own durable completion of the exact dispatch, confirmed *)
(* by a fresh observation.                                                 *)
CompletionEvidence(i) == pub[i].witness = "completed" /\ evident[i]

(* The seal of a slot that never entered Publish. *)
NonInvocationEvidence(i) == pub[i].witness = "sealed" /\ evident[i]

(* ConfirmRecoveredPublication: the Publisher's own completion is the      *)
(* evidence; it also enriches a bare confirmation.                         *)
ConfirmPublication(p, i) ==
  /\ p \in reconcilers
  /\ IsPublication(i)
  /\ FromEarlierEpoch(i)
  /\ RecoverablePublicationState(row[i].state) \/ row[i].state = "CONFIRMED"
  /\ row[i].receipt = None /\ row[i].reconciliation = None
  /\ CompletionEvidence(i)
  /\ row' = [row EXCEPT ![i] = Recovered(row[i], p)]
  /\ UNCHANGED <<pub, call, recon, calls, authorityVars, recoveryVars>>

(* AbandonUninvokedPublication: the evidence is the Publisher's seal. *)
AbandonUninvoked(p, i) ==
  /\ p \in reconcilers
  /\ IsPublication(i)
  /\ FromEarlierEpoch(i)
  /\ RecoverablePublicationState(row[i].state)
  /\ ~row[i].ref /\ row[i].receipt = None /\ row[i].reconciliation = None
  /\ NonInvocationEvidence(i)
  /\ row' = [row EXCEPT ![i] = Abandoned(row[i], "NOT_INVOKED", p)]
  /\ UNCHANGED <<pub, call, recon, calls, authorityVars, recoveryVars>>

(* Mutant of Resolved: MANUAL is not counted as open. *)
ResolvedOrManual(i) ==
  row[i].state \in {"ABSENT", "CONFIRMED", "ABANDONED_RECONCILED", "MANUAL"}

Resolved(i) == row[i].state \in {"ABSENT", "CONFIRMED", "ABANDONED_RECONCILED"}

(* validateOrdinaryConfirmations: a confirmation that may have an effect   *)
(* carries a recovery receipt or the original settlement's audit marker.   *)
Qualified(i) ==
  row[i].receipt = None =>
    /\ row[i].state = "CONFIRMED" /\ row[i].req.risk # "OBSERVE" => row[i].marker
    /\ row[i].marker => row[i].state = "CONFIRMED"

(* recoveryFacts(...).Clear() as far as this module's state goes. *)
FactsClear == \A i \in Ids : Resolved(i) /\ Qualified(i)

CreateProof(p) ==
  /\ p \in reconcilers
  /\ Recovering
  /\ proof[platform.epoch] = None
  /\ FactsClear
  /\ proof' = [proof EXCEPT ![platform.epoch] = p]
  /\ UNCHANGED <<row, pub, call, recon, calls, authorityVars,
                 platform, reconcilers, completing, evident, completedBy>>

(* Who settled an operation under a recovery epoch. *)
Participated(p, e) ==
  \E i \in Ids : \/ row[i].receipt # None /\ row[i].receipt.epoch = e /\ row[i].receipt.by = p
                 \/ /\ row[i].reconciliation # None
                    /\ row[i].reconciliation.epoch = e /\ row[i].reconciliation.by = p

(* Mutant of Independent: only the author of the proof is excluded. *)
NotTheProver(p, e) == proof[e] # None /\ proof[e] # p

(* The completer neither proved this epoch nor settled an operation in it. *)
Independent(p, e) == proof[e] # None /\ proof[e] # p /\ ~Participated(p, e)

(* AuthorizeCompletion, a read-only transaction before the completion. *)
AuthorizeCompletion(p, e) ==
  /\ p \notin reconcilers
  /\ completing[p] = 0
  /\ e > 0
  /\ Independent(p, e)
  /\ completing' = [completing EXCEPT ![p] = e]
  /\ UNCHANGED <<row, pub, call, recon, calls, authorityVars,
                 platform, proof, reconcilers, evident, completedBy>>

(* CompleteRecoveryContext rechecks the epoch, the proof and the facts. *)
CompleteRecovery(p) ==
  /\ completing[p] # 0
  /\ completing' = [completing EXCEPT ![p] = 0]
  /\ IF Recovering /\ completing[p] = platform.epoch /\ proof[platform.epoch] # None /\ FactsClear
     THEN /\ platform' = [platform EXCEPT !.mode = "NORMAL"]
          /\ completedBy' = [completedBy EXCEPT ![platform.epoch] = p]
     ELSE UNCHANGED <<platform, completedBy>>
  /\ UNCHANGED <<row, pub, call, recon, calls, authorityVars, proof, reconcilers, evident>>

(* A policy revision is a restart of the control plane: no completion      *)
(* request survives it.  A reconciler holds no completion capability.      *)
RevisePolicy(s) ==
  /\ \A p \in Principals : completing[p] = 0
  /\ s # reconcilers
  /\ reconcilers' = s
  /\ UNCHANGED <<row, pub, call, recon, calls, authorityVars,
                 platform, proof, completing, evident, completedBy>>

-----------------------------------------------------------------------------
(* The run under whose authority operations are admitted.  Each handler's  *)
(* read and commit are one step: the commit is guarded by the version read.*)

HoldRun == UNCHANGED <<row, pub, call, recon, calls, codex, continued, recoveryVars>>

Pause ==
  /\ ~codex
  /\ CheckEpoch(run, run.epoch) /\ SessionEpoch(session, run.epoch)
  /\ run' = PauseRun(run) /\ session' = PauseSession(session)
  /\ HoldRun

Resume ==
  /\ ~codex
  /\ CheckEpoch(run, run.epoch) /\ SessionEpoch(session, run.epoch)
  /\ run' = ResumeRun(run) /\ session' = ResumeSession(session)
  /\ HoldRun

Takeover ==
  /\ ~codex
  /\ run.epoch < MaxExecutionEpoch
  /\ CheckEpoch(run, run.epoch) /\ SessionEpoch(session, run.epoch)
  /\ run' = TakeoverRun(run) /\ session' = TakeoverSession(session)
  /\ HoldRun

Complete ==
  /\ CheckEpoch(run, run.epoch)
  /\ run' = CompleteRun(run) /\ session' = session
  /\ HoldRun

(* Mutant of ContinuationSafe: reservations not yet dispatched are ignored. *)
ContinuationIgnoresPlanned(i) == row[i].state \in {"ABSENT", "PLANNED", "CONFIRMED"}

ContinuationSafe(i) == row[i].state \in {"ABSENT", "CONFIRMED"}

(* ContinueCodex: the source run is aborted in favour of a successor, only *)
(* when none of its operations is open.                                    *)
Continue ==
  /\ codex /\ ~continued
  /\ platform.mode = "NORMAL"
  /\ run.epoch < MaxExecutionEpoch
  /\ run.state = "RUNNING" /\ run.owner = "RUNTIME"
  /\ session.epoch = run.epoch /\ session.owner = "RUNTIME" /\ ~session.paused
  /\ \A i \in Ids : ContinuationSafe(i)
  /\ run' = SupersedeRun(run) /\ session' = SupersedeSession(session)
  /\ continued' = TRUE
  /\ UNCHANGED <<row, pub, call, recon, calls, codex, recoveryVars>>

RunStep == Pause \/ Resume \/ Takeover \/ Complete \/ Continue

-----------------------------------------------------------------------------

Init ==
  /\ row = [i \in Ids |-> AbsentRow]
  /\ PubInit
  /\ platform = [epoch |-> 0, mode |-> "NORMAL"]
  /\ run = StartAttempt(NewRun)
  /\ session = NewSession(1)
  /\ codex \in CodexProfiles
  /\ continued = FALSE
  /\ call = [c \in Callers |-> [pc |-> "idle", req |-> None, out |-> "", ref |-> FALSE]]
  /\ recon = [w \in Workers |-> IdleRecon]
  /\ proof = [e \in Epochs |-> None]
  /\ reconcilers \in SUBSET Principals
  /\ completing = [p \in Principals |-> 0]
  /\ evident = [i \in Ids |-> TRUE]
  /\ calls = [i \in Ids |-> 0]
  /\ completedBy = [e \in Epochs |-> None]

(* A step of the Publisher; sealUninvoked is one of its evidence routes. *)
PublisherMove(i) ==
  /\ PublisherStep(i)
  /\ SealUninvoked(i) => evident[i]
  /\ UNCHANGED <<row, call, recon, calls, authorityVars, recoveryVars>>

PublisherMoves == \E i \in Ids : PublisherMove(i)

RecoveryStep ==
  \/ BeginRecovery
  \/ \E p \in Principals :
       \/ \E i \in Ids : AbandonPlanned(p, i) \/ ConfirmPublication(p, i) \/ AbandonUninvoked(p, i)
       \/ CreateProof(p)
       \/ \E e \in Epochs : AuthorizeCompletion(p, e)
       \/ CompleteRecovery(p)
  \/ \E s \in SUBSET Principals : RevisePolicy(s)

Next ==
  \/ \E c \in Callers : (\E r \in Requests : Submit(c, r)) \/ Execute(c) \/ LoseCall(c)
  \/ \E w \in Workers : Reconcile(w) \/ LoseReconcile(w)
  \/ PublisherMoves
  \/ \E i \in Ids : EvidenceChanges(i)
  \/ RecoveryStep
  \/ RunStep

Spec == Init /\ [][Next]_vars
-----------------------------------------------------------------------------
(* Properties. *)

(* Every variable has the shape the schema and the code give it. *)
TypeOK ==
  /\ row \in [Ids -> Row]
  /\ PublicationType
  /\ platform \in [epoch : Epochs, mode : {"NORMAL", "RECOVERY_RECONCILIATION"}]
  /\ run \in RunRecord /\ session \in SessionRecord
  /\ codex \in BOOLEAN /\ continued \in BOOLEAN
  /\ call \in [Callers -> Call] /\ recon \in [Workers -> Recon]
  /\ proof \in [Epochs -> Principals \cup {None}]
  /\ completedBy \in [Epochs -> Principals \cup {None}]
  /\ completing \in [Principals -> Epochs]
  /\ evident \in [Ids -> BOOLEAN]
  /\ reconcilers \in SUBSET Principals
  /\ calls \in [Ids -> Nat]

(* An operation, and an idempotency key, reaches the provider at most once *)
(* however many callers, retries, crashes and recoveries there are: only   *)
(* the caller whose INSERT won may mark the row DISPATCHED, once.          *)
AtMostOneDispatch ==
  /\ \A i \in Ids : calls[i] <= 1
  /\ \A i, j \in Ids :
       calls[i] > 0 /\ calls[j] > 0 /\ row[i].req.key = row[j].req.key => i = j

(* ABANDONED_RECONCILED means no effect, now or later: the publication was *)
(* never requested, or its slot is sealed.  An executor still in flight    *)
(* when Recovery abandons the row must not get through.                    *)
AbandonedHasNoEffect ==
  \A i \in Ids : row[i].state = "ABANDONED_RECONCILED" =>
    /\ pub[i].witness \in {"none", "sealed"}
    /\ ~pub[i].effect

(* CONFIRMED on an operation that publishes means that the effect happened: *)
(* no observation or provider verdict alone can confirm it.                 *)
ConfirmedHasEffect ==
  \A i \in Ids : row[i].state = "CONFIRMED" /\ Publishes(row[i].req) => pub[i].effect

(* The ledger never produces a confirmation that Recovery would refuse to  *)
(* count: each carries the original settlement's marker or a receipt.      *)
ConfirmationsQualified == \A i \in Ids : Qualified(i)

(* Once a recovery epoch is completed nothing reserved under an earlier    *)
(* epoch is open, although callers of that epoch may still be running.     *)
RecoveryClosesEarlierEpochs ==
  platform.mode = "NORMAL" =>
    \A i \in Ids : row[i].state # "ABSENT" /\ row[i].req.re < platform.epoch => Resolved(i)

(* No external effect of an operation from before a recovery happens after *)
(* that recovery completed.                                                *)
NoLateEffect ==
  [][\A i \in Ids :
       ~pub[i].effect /\ pub'[i].effect =>
         ~(platform.mode = "NORMAL" /\ row[i].req.re < platform.epoch)]_vars

(* A resolved row is final and a reservation's identity is immutable: a    *)
(* late settlement, a reconcile worker or a second Recovery request may    *)
(* only add a receipt to a bare confirmation.                              *)
ResolvedRowsFinal ==
  [][\A i \in Ids : row[i].state # "ABSENT" =>
       /\ row'[i].req = row[i].req
       /\ row[i].state \in {"CONFIRMED", "ABANDONED_RECONCILED"} =>
            /\ row'[i].state = row[i].state
            /\ row'[i].reconciliation = row[i].reconciliation
            /\ row[i].receipt # None => row'[i].receipt = row[i].receipt]_vars

(* Who completes a recovery epoch neither proved it nor settled any        *)
(* operation in it, whatever policy revisions happen in between.           *)
IndependentCompletion ==
  \A e \in Epochs : completedBy[e] # None =>
    completedBy[e] # proof[e] /\ ~Participated(completedBy[e], e)

(* A client that was told CONFIRMED, first or on replay, was told so about *)
(* its own request, and the ledger agrees from then on.                    *)
HonestReceipt ==
  \A c \in Callers : At(c, "done") /\ call[c].out = "CONFIRMED" =>
    LET i == call[c].req.id IN
    /\ row[i].state = "CONFIRMED"
    /\ RequestDigest(row[i].req) = RequestDigest(call[c].req)

(* A run that was continued by a successor never again has an open         *)
(* operation: no caller admitted before can slip one in afterwards.        *)
ContinuedRunIsSettled ==
  continued => \A i \in Ids : row[i].state \in {"ABSENT", "CONFIRMED"}

(* What Execute relies on when it stops after the reservation: a PLANNED   *)
(* row whose caller is gone can be abandoned during Recovery.              *)
PlannedRowsRecoverable ==
  \A i \in Ids :
    Recovering /\ row[i].state = "PLANNED"
      /\ (\A c \in Callers : call[c].req = row[i].req => At(c, "lost"))
    => CanAbandonPlanned(i)

-----------------------------------------------------------------------------
(* Progress.  Request handlers and the Publisher keep running, and the     *)
(* operators keep asking for whatever the Recovery endpoints would grant.  *)

Fairness ==
  /\ \A c \in Callers : WF_vars(Execute(c))
  /\ \A i \in Ids : WF_vars(PublisherMove(i) /\ ~ReleaseSlot(i))
  /\ \A p \in Principals :
       /\ \A i \in Ids : /\ WF_vars(AbandonPlanned(p, i))
                         /\ WF_vars(ConfirmPublication(p, i))
                         /\ WF_vars(AbandonUninvoked(p, i))
       /\ WF_vars(CreateProof(p))
       /\ WF_vars(\E e \in Epochs : AuthorizeCompletion(p, e))
       /\ WF_vars(CompleteRecovery(p))

FairSpec == Spec /\ Fairness

(* The open rows no endpoint can settle now: rows reserved during this very *)
(* recovery; rows past PLANNED that no route would take evidence for;       *)
(* publications without a witness either way; and publications whose        *)
(* witness the Publisher does not vouch for: the pull request was merged or *)
(* closed, the base moved, or the slot is of an earlier boot.               *)
DeadEnd(i) ==
  /\ ~Resolved(i)
  /\ \/ row[i].req.re = platform.epoch
     \/ row[i].state # "PLANNED" /\ row[i].req.risk # "CONTROLLED_MUTATION"
     \/ row[i].state # "PLANNED" /\ pub[i].witness \in {"none", "armed", "entered"}
     \/ row[i].state # "PLANNED" /\ ~evident[i]

(* Somebody may reconcile, and somebody else is still free to complete. *)
Staffed ==
  /\ reconcilers # {}
  /\ \E p \in Principals \ reconcilers :
       proof[platform.epoch] # p /\ ~Participated(p, platform.epoch)

(* A recovery that never ends, under a policy that has settled and leaves  *)
(* an independent completer, is held up by dead-end rows again and again   *)
(* (again and again, and not for ever: a closed pull request can be        *)
(* reopened); if from some time on there is none, it completes.            *)
RecoveryEndsOrDeadEnds ==
  \A s \in SUBSET Principals :
    <>[](Recovering /\ reconcilers = s /\ Staffed) => []<>(\E i \in Ids : DeadEnd(i))

=============================================================================
