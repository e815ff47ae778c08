------------------------- MODULE ActionLedgerProofs -------------------------
(***************************************************************************)
(* Proofs about the external-action ledger, for every set of callers,      *)
(* workers, principals, operations and requests and for every bound.       *)
(*                                                                         *)
(* TypeInv is the type invariant with what it needs to be inductive.  The  *)
(* inductive invariant IInv adds who owns a reservation and what was       *)
(* dispatched (DispatchInv), which recovery epoch a reservation belongs to *)
(* (EpochInv), how the ledger and the Publisher's slots correspond         *)
(* (SlotInv, AbandonInv, ConfirmInv), which confirmations carry their marker*)
(* (MarkerInv), and what a completion request was authorized on            *)
(* (CompletionInv).                                                        *)
(***************************************************************************)
EXTENDS ActionLedger, TLAPS

(* A reserved row holds a request for its own operation id. *)
RowsWF ==
  \A i \in Ids :
    /\ row[i].state = "ABSENT" => row[i] = AbsentRow
    /\ row[i].state # "ABSENT" => row[i].req \in Requests /\ row[i].req.id = i

(* A running call has a request; what it is about to settle is CONFIRMED   *)
(* or UNKNOWN.                                                             *)
CallsWF ==
  \A c \in Callers :
    /\ call[c].pc \notin {"idle", "lost"} => call[c].req \in Requests
    /\ call[c].pc = "settle" => call[c].out \in {"CONFIRMED", "UNKNOWN"}

ReconWF ==
  \A w \in Workers : recon[w].pc # "idle" =>
    /\ recon[w].id \in Ids /\ row[recon[w].id].state # "ABSENT"
    /\ recon[w].pc = "settle" => recon[w].out \in {"CONFIRMED", "MANUAL"}

TypeInv == TypeOK /\ RowsWF /\ CallsWF /\ ReconWF

-----------------------------------------------------------------------------
(* The shapes that TypeOK talks about. *)

LEMMA RequestFields ==
  ASSUME NEW r \in Requests
  PROVE  /\ r \in RequestShape /\ r # None
         /\ r.id \in Ids /\ r.key \in Nat /\ r.risk \in Risks
         /\ r.xe \in Nat /\ r.re \in Nat /\ r.par \in Nat
BY RequestsAssumption DEF RequestShape

(* The three ways a reserved row is rewritten keep its identity. *)
LEMMA SteppedRow ==
  ASSUME NEW x \in Row, NEW r \in Requests,
         NEW target \in LedgerStates, NEW ref \in BOOLEAN
  PROVE  /\ Stepped(x, r, target, ref) \in Row
         /\ Stepped(x, r, target, ref).state = target
         /\ Stepped(x, r, target, ref).req = x.req
         /\ Stepped(x, r, target, ref).receipt = x.receipt
         /\ Stepped(x, r, target, ref).reconciliation = x.reconciliation
         /\ Stepped(x, r, target, ref).marker =
              (x.marker \/ (target = "CONFIRMED" /\ r.risk # "OBSERVE"))
<1> DEFINE m == x.marker \/ (target = "CONFIRMED" /\ r.risk # "OBSERVE")
<1>1. m \in BOOLEAN OBVIOUS
<1>2. Stepped(x, r, target, ref) = [x EXCEPT !.state = target, !.ref = ref, !.marker = m]
  BY DEF Stepped, Row
<1> HIDE DEF m
<1>3. /\ Stepped(x, r, target, ref) \in Row
      /\ Stepped(x, r, target, ref).state = target
      /\ Stepped(x, r, target, ref).req = x.req
      /\ Stepped(x, r, target, ref).receipt = x.receipt
      /\ Stepped(x, r, target, ref).reconciliation = x.reconciliation
      /\ Stepped(x, r, target, ref).marker = m
  BY <1>1, <1>2 DEF Row
<1> QED BY <1>3 DEF m

LEMMA AbandonedRow ==
  ASSUME NEW x \in Row, NEW p \in Principals, platform.epoch \in Nat,
         NEW kind \in {"PLANNED_ABANDONMENT", "NOT_INVOKED"}
  PROVE  /\ Abandoned(x, kind, p) \in Row
         /\ Abandoned(x, kind, p).state = "ABANDONED_RECONCILED"
         /\ Abandoned(x, kind, p).req = x.req
         /\ Abandoned(x, kind, p).receipt = x.receipt
         /\ Abandoned(x, kind, p).marker = x.marker
         /\ Abandoned(x, kind, p).reconciliation =
              [kind |-> kind, epoch |-> platform.epoch, by |-> p]
BY DEF Row, Abandoned, Abandonment, LedgerStates

LEMMA RecoveredRow ==
  ASSUME NEW x \in Row, NEW p \in Principals, platform.epoch \in Nat
  PROVE  /\ Recovered(x, p) \in Row
         /\ Recovered(x, p).state = "CONFIRMED"
         /\ Recovered(x, p).req = x.req
         /\ Recovered(x, p).receipt = [epoch |-> platform.epoch, by |-> p]
         /\ Recovered(x, p).reconciliation = x.reconciliation
         /\ Recovered(x, p).marker = x.marker
BY DEF Row, Recovered, Settlement, LedgerStates

LEMMA FreshRow ==
  ASSUME NEW r \in Requests
  PROVE  /\ PlannedRow(r) \in Row
         /\ PlannedRow(r).state = "PLANNED" /\ PlannedRow(r).req = r
         /\ PlannedRow(r).receipt = None /\ PlannedRow(r).reconciliation = None
         /\ ~PlannedRow(r).marker
BY DEF Row, PlannedRow, AbsentRow, LedgerStates

(* UpdateContext on the table. *)
LEMMA UpdatedRows ==
  ASSUME TypeInv, NEW r \in Requests, NEW target \in LedgerStates, NEW ref \in BOOLEAN
  PROVE  /\ Updated(r, target, ref) \in [Ids -> Row]
         /\ \A i \in Ids : i # r.id => Updated(r, target, ref)[i] = row[i]
         /\ Updated(r, target, ref)[r.id].state = target
         /\ Updated(r, target, ref)[r.id].req = row[r.id].req
         /\ Updated(r, target, ref)[r.id].receipt = row[r.id].receipt
         /\ Updated(r, target, ref)[r.id].reconciliation = row[r.id].reconciliation
         /\ Updated(r, target, ref)[r.id].marker =
              (row[r.id].marker \/ (target = "CONFIRMED" /\ r.risk # "OBSERVE"))
<1>1. r.id \in Ids BY RequestFields
<1>2. row \in [Ids -> Row] BY DEF TypeInv, TypeOK
<1>3. row[r.id] \in Row BY <1>1, <1>2
<1> QED BY <1>1, <1>2, <1>3, SteppedRow DEF Updated

(* A row that a guarded step may rewrite is open, and it is the request's. *)
LEMMA UpdatableRow ==
  ASSUME TypeInv, NEW r \in Requests,
         NEW target \in {"DISPATCHED", "CONFIRMED", "UNKNOWN", "RECONCILING", "MANUAL"},
         Updatable(r, target)
  PROVE  /\ row[r.id].req = r
         /\ row[r.id].state \in {"PLANNED", "DISPATCHED", "UNKNOWN", "RECONCILING"}
         /\ target = "DISPATCHED" <=> row[r.id].state = "PLANNED"
BY DEF Updatable, PreviousStates

LEMMA UpdatedWF ==
  ASSUME TypeInv, NEW r \in Requests, NEW ref \in BOOLEAN,
         NEW target \in {"DISPATCHED", "CONFIRMED", "UNKNOWN", "RECONCILING", "MANUAL"},
         Updatable(r, target), row' = Updated(r, target, ref)
  PROVE  row' \in [Ids -> Row] /\ RowsWF' /\ (\A i \in Ids : row[i].state # "ABSENT" => row'[i].state # "ABSENT")
<1>1. r.id \in Ids /\ target \in LedgerStates BY RequestFields DEF LedgerStates
<1>2. row[r.id].req = r BY UpdatableRow
<1>3. /\ row' \in [Ids -> Row]
      /\ \A i \in Ids : i # r.id => row'[i] = row[i]
      /\ row'[r.id].state = target /\ row'[r.id].req = r
  BY <1>1, <1>2, UpdatedRows
<1>4. \A i \in Ids : row[i].state # "ABSENT" => row'[i].state # "ABSENT" BY <1>1, <1>3
<1>5. RowsWF'
  <2> SUFFICES ASSUME NEW i \in Ids
               PROVE  /\ row'[i].state = "ABSENT" => row'[i] = AbsentRow
                      /\ row'[i].state # "ABSENT" => row'[i].req \in Requests /\ row'[i].req.id = i
    BY DEF RowsWF
  <2>1. CASE i = r.id BY <1>1, <1>3, <2>1
  <2>2. CASE i # r.id BY <1>3, <2>2 DEF TypeInv, RowsWF
  <2> QED BY <2>1, <2>2
<1> QED BY <1>3, <1>4, <1>5

(* What a step of one call does to the calls. *)
LEMMA GotoCall ==
  ASSUME TypeInv, NEW c \in Callers, NEW pc \in CallPCs, Goto(c, pc)
  PROVE  /\ call' \in [Callers -> Call]
         /\ call'[c].pc = pc /\ call'[c].req = call[c].req
         /\ call'[c].out = call[c].out /\ call'[c].ref = call[c].ref
         /\ \A d \in Callers : d # c => call'[d] = call[d]
BY DEF TypeInv, TypeOK, Call, Goto

LEMMA ReplyCall ==
  ASSUME TypeInv, NEW c \in Callers, NEW out \in Replies, Reply(c, out)
  PROVE  /\ call' \in [Callers -> Call]
         /\ call'[c].pc = "done" /\ call'[c].req = call[c].req /\ call'[c].out = out
         /\ \A d \in Callers : d # c => call'[d] = call[d]
BY ZenonT(40) DEF TypeInv, TypeOK, Call, Reply, CallPCs

-----------------------------------------------------------------------------
(* Types. *)

LEMMA RunMethods ==
  ASSUME NEW r \in RunRecord
  PROVE  /\ StartAttempt(r) \in RunRecord /\ PauseRun(r) \in RunRecord
         /\ ResumeRun(r) \in RunRecord /\ TakeoverRun(r) \in RunRecord
         /\ CompleteRun(r) \in RunRecord /\ SupersedeRun(r) \in RunRecord
<1>1. r.epoch + 1 \in Nat BY DEF RunRecord
<1>2. StartAttempt(r) \in RunRecord BY <1>1 DEF RunRecord, RunStates, Owners, StartAttempt
<1>3. PauseRun(r) \in RunRecord BY DEF RunRecord, RunStates, PauseRun
<1>4. ResumeRun(r) \in RunRecord BY DEF RunRecord, RunStates, ResumeRun
<1>5. TakeoverRun(r) \in RunRecord BY <1>1 DEF RunRecord, RunStates, Owners, TakeoverRun
<1>6. CompleteRun(r) \in RunRecord BY DEF RunRecord, RunStates, CompleteRun
<1>7. SupersedeRun(r) \in RunRecord BY <1>1 DEF RunRecord, RunStates, SupersedeRun
<1> QED BY <1>2, <1>3, <1>4, <1>5, <1>6, <1>7

LEMMA SessionMethods ==
  ASSUME NEW s \in SessionRecord
  PROVE  /\ PauseSession(s) \in SessionRecord /\ ResumeSession(s) \in SessionRecord
         /\ TakeoverSession(s) \in SessionRecord /\ SupersedeSession(s) \in SessionRecord
<1>1. s.epoch + 1 \in Nat BY DEF SessionRecord
<1>2. PauseSession(s) \in SessionRecord BY DEF SessionRecord, PauseSession
<1>3. ResumeSession(s) \in SessionRecord BY DEF SessionRecord, ResumeSession
<1>4. TakeoverSession(s) \in SessionRecord BY <1>1 DEF SessionRecord, Owners, TakeoverSession
<1>5. SupersedeSession(s) \in SessionRecord BY <1>1 DEF SessionRecord, SupersedeSession
<1> QED BY <1>2, <1>3, <1>4, <1>5

LEMMA TypeInit == Init => TypeInv
<1> SUFFICES ASSUME Init PROVE TypeInv OBVIOUS
<1>1. AbsentRow \in Row BY DEF AbsentRow, Row
<1>2. row \in [Ids -> Row] /\ RowsWF BY <1>1 DEF Init, RowsWF, AbsentRow
<1>3. PublicationType BY DEF Init, PubInit, PublicationType, Witnesses
<1>4. run \in RunRecord /\ session \in SessionRecord
  <2>1. NewRun \in RunRecord BY DEF NewRun, RunRecord, RunStates, Owners
  <2>2. NewSession(1) \in SessionRecord BY DEF NewSession, SessionRecord, Owners
  <2> QED BY <2>1, <2>2, RunMethods DEF Init
<1>5. call \in [Callers -> Call] /\ CallsWF
  BY DEF Init, Call, CallPCs, Replies, CallsWF
<1>6. recon \in [Workers -> Recon] /\ ReconWF
  BY DEF Init, Recon, IdleRecon, ReconWF
<1>7. 0 \in Epochs BY BoundsAssumption DEF Epochs
<1>8. /\ platform \in [epoch : Epochs, mode : {"NORMAL", "RECOVERY_RECONCILIATION"}]
      /\ proof \in [Epochs -> Principals \cup {None}]
      /\ completedBy \in [Epochs -> Principals \cup {None}]
      /\ completing \in [Principals -> Epochs]
      /\ evident \in [Ids -> BOOLEAN]
      /\ reconcilers \in SUBSET Principals
      /\ calls \in [Ids -> Nat]
  BY <1>7 DEF Init
<1>9. codex \in BOOLEAN /\ continued \in BOOLEAN BY ProfilesAssumption DEF Init
<1> QED BY <1>2, <1>3, <1>4, <1>5, <1>6, <1>8, <1>9 DEF TypeInv, TypeOK

(* A step that only moves one call. *)
LEMMA CallOnly ==
  ASSUME TypeInv, NEW c \in Callers, call' \in [Callers -> Call],
         \A d \in Callers : d # c => call'[d] = call[d],
         call'[c].pc \notin {"idle", "lost"} => call'[c].req \in Requests,
         call'[c].pc = "settle" => call'[c].out \in {"CONFIRMED", "UNKNOWN"},
         UNCHANGED <<row, pub, recon, calls, authorityVars, recoveryVars>>
  PROVE  TypeInv'
BY DEF TypeInv, TypeOK, RowsWF, CallsWF, ReconWF, PublicationType, authorityVars, recoveryVars

LEMMA ReplayReplyType ==
  ASSUME TypeInv, NEW r \in Requests, NEW i \in ByKey(r.key)
  PROVE  ReplayReply(i, r) \in Replies
<1>1. row[i] \in Row /\ row[i].state # "ABSENT" BY DEF TypeInv, TypeOK, ByKey
<1>2. row[i].state \in LedgerStates BY <1>1 DEF Row
<1> QED BY <1>2 DEF ReplayReply, Replies

LEMMA ExecuteReadsType ==
  ASSUME TypeInv, NEW c \in Callers,
         \/ \E r \in Requests : Submit(c, r)
         \/ Lookup(c) \/ CheckRun(c) \/ CheckRecovery(c) \/ CreateRefused(c) \/ Reread(c)
         \/ ProviderReturns(c) \/ LoseCall(c)
  PROVE  TypeInv'
<1>1. CASE \E r \in Requests : Submit(c, r)
  <2>1. PICK r \in Requests : Submit(c, r) BY <1>1
  <2>2. [pc |-> "lookup", req |-> r, out |-> "", ref |-> FALSE] \in Call
    BY DEF Call, CallPCs, Replies
  <2>3. call \in [Callers -> Call] BY DEF TypeInv, TypeOK
  <2> QED BY <2>1, <2>2, <2>3, CallOnly DEF Submit
<1>2. CASE Lookup(c)
  <2>1. call[c].req \in Requests BY <1>2 DEF Lookup, At, TypeInv, CallsWF
  <2>2. CASE \E i \in ByKey(call[c].req.key) : Reply(c, ReplayReply(i, call[c].req))
    BY <1>2, <2>1, <2>2, ReplayReplyType, ReplyCall, CallOnly DEF Lookup
  <2>3. CASE Goto(c, "checkRun")
    BY <1>2, <2>1, <2>3, GotoCall, CallOnly DEF Lookup, CallPCs
  <2> QED BY <1>2, <2>2, <2>3 DEF Lookup
<1>3. CASE CheckRun(c)
  <2>1. call[c].req \in Requests BY <1>3 DEF CheckRun, At, TypeInv, CallsWF
  <2> QED BY <1>3, <2>1, GotoCall, ReplyCall, CallOnly DEF CheckRun, CallPCs, Replies
<1>4. CASE CheckRecovery(c)
  <2>1. call[c].req \in Requests BY <1>4 DEF CheckRecovery, At, TypeInv, CallsWF
  <2> QED BY <1>4, <2>1, GotoCall, ReplyCall, CallOnly DEF CheckRecovery, CallPCs, Replies
<1>5. CASE CreateRefused(c)
  <2>1. call[c].req \in Requests BY <1>5 DEF CreateRefused, At, TypeInv, CallsWF
  <2>2. Goto(c, "reread") \/ Reply(c, "DENIED") BY <1>5 DEF CreateRefused
  <2> QED BY <1>5, <2>1, <2>2, GotoCall, ReplyCall, CallOnly DEF CreateRefused, CallPCs, Replies
<1>6. CASE Reread(c)
  <2>1. call[c].req \in Requests BY <1>6 DEF Reread, At, TypeInv, CallsWF
  <2>2. \E out \in Replies : Reply(c, out)
    BY <1>6, <2>1, ReplayReplyType DEF Reread, Replies
  <2> QED BY <1>6, <2>1, <2>2, ReplyCall, CallOnly DEF Reread
<1>7. CASE ProviderReturns(c)
  <2>1. call[c].req \in Requests BY <1>7 DEF ProviderReturns, At, TypeInv, CallsWF
  <2>2. PICK out \in {"CONFIRMED", "UNKNOWN"}, ref \in BOOLEAN :
          Return(c, out, ref)
    BY <1>7 DEF ProviderReturns, Publishes
  <2> DEFINE x == [pc |-> "settle", req |-> call[c].req, out |-> out, ref |-> ref]
  <2>3. call \in [Callers -> Call] BY DEF TypeInv, TypeOK
  <2>4. x \in Call BY <2>1 DEF Call, CallPCs, Replies, LedgerStates
  <2>5. call' = [call EXCEPT ![c] = x] BY <2>2 DEF Return
  <2>6. x.req = call[c].req /\ x.out = out OBVIOUS
  <2> HIDE DEF x
  <2> QED BY <1>7, <2>1, <2>3, <2>4, <2>5, <2>6, CallOnly DEF ProviderReturns
<1>8. CASE LoseCall(c)
  BY <1>8, GotoCall, CallOnly DEF LoseCall, CallPCs
<1> QED BY <1>1, <1>2, <1>3, <1>4, <1>5, <1>6, <1>7, <1>8

LEMMA ExecuteWritesType ==
  ASSUME TypeInv, NEW c \in Callers,
         Create(c) \/ MarkDispatched(c) \/ Invoke(c) \/ Settle(c)
  PROVE  TypeInv'
<1> DEFINE r == call[c].req
<1>1. r \in Requests
  BY DEF Create, MarkDispatched, Invoke, Settle, At, TypeInv, CallsWF
<1>2. r.id \in Ids BY <1>1, RequestFields
<1>3. row \in [Ids -> Row] /\ RowsWF /\ ReconWF /\ CallsWF BY DEF TypeInv, TypeOK
<1> HIDE DEF r
<1>4. CASE Create(c)
  <2>1. /\ row' = [row EXCEPT ![r.id] = PlannedRow(r)] /\ Goto(c, "planned")
        /\ UNCHANGED <<pub, recon, calls, authorityVars, recoveryVars>>
    BY <1>4 DEF Create, r
  <2>2. row' \in [Ids -> Row] BY <1>1, <1>2, <1>3, <2>1, FreshRow
  <2>3. RowsWF' /\ ReconWF' BY <1>1, <1>2, <1>3, <2>1, FreshRow DEF RowsWF, ReconWF
  <2>4. call' \in [Callers -> Call] /\ CallsWF'
    BY <1>1, <1>3, <2>1, GotoCall DEF CallsWF, CallPCs, r
  <2> QED BY <2>1, <2>2, <2>3, <2>4 DEF TypeInv, TypeOK, PublicationType, authorityVars, recoveryVars
<1>5. CASE MarkDispatched(c) /\ row' # row
  <2>1. /\ row' = Updated(r, "DISPATCHED", FALSE) /\ Goto(c, "invoke")
        /\ Updatable(r, "DISPATCHED")
        /\ UNCHANGED <<pub, recon, calls, authorityVars, recoveryVars>>
    BY <1>5 DEF MarkDispatched, r
  <2>2. row' \in [Ids -> Row] /\ RowsWF' BY <1>1, <2>1, UpdatedWF
  <2>3. ReconWF' BY <1>1, <1>3, <2>1, UpdatedWF DEF ReconWF
  <2>5. call' \in [Callers -> Call] /\ CallsWF'
    BY <1>1, <1>3, <2>1, GotoCall DEF CallsWF, CallPCs, r
  <2> QED BY <2>1, <2>2, <2>3, <2>5 DEF TypeInv, TypeOK, PublicationType, authorityVars, recoveryVars
<1>6. CASE Settle(c) /\ row' # row
  <2>1. /\ row' = Updated(r, call[c].out, call[c].ref) /\ Reply(c, call[c].out)
        /\ Updatable(r, call[c].out)
        /\ UNCHANGED <<pub, recon, calls, authorityVars, recoveryVars>>
    BY <1>6 DEF Settle, r
  <2>2. call[c].out \in {"CONFIRMED", "UNKNOWN"} /\ call[c].ref \in BOOLEAN
    BY <1>3, <1>6 DEF Settle, At, CallsWF, TypeInv, TypeOK, Call
  <2>4. row' \in [Ids -> Row] /\ RowsWF' BY <1>1, <2>1, <2>2, UpdatedWF
  <2>5. ReconWF' BY <1>1, <1>3, <2>1, <2>2, UpdatedWF DEF ReconWF
  <2>6. call' \in [Callers -> Call] /\ CallsWF'
    BY <1>1, <1>3, <2>1, <2>2, ReplyCall DEF CallsWF, Replies, LedgerStates, r
  <2> QED BY <2>1, <2>4, <2>5, <2>6 DEF TypeInv, TypeOK, PublicationType, authorityVars, recoveryVars
<1>7. CASE (MarkDispatched(c) \/ Settle(c)) /\ row' = row
  <2>1. (\E out \in Replies : Reply(c, out)) \/ Goto(c, "invoke")
    <3>1. call[c].out \in Replies BY DEF TypeInv, TypeOK, Call
    <3> QED BY <1>7, <3>1 DEF MarkDispatched, Settle, Replies
  <2>2. UNCHANGED <<row, pub, recon, calls, authorityVars, recoveryVars>>
    BY <1>7 DEF MarkDispatched, Settle
  <2> QED BY <1>1, <2>1, <2>2, GotoCall, ReplyCall, CallOnly DEF CallPCs, r
<1>8. CASE Invoke(c)
  <2>1. /\ calls' = [calls EXCEPT ![r.id] = @ + 1] /\ Goto(c, "await")
        /\ pub' = pub \/ pub' = [pub EXCEPT ![r.id].witness = "requested"]
        /\ UNCHANGED <<row, recon, authorityVars, recoveryVars>>
    BY <1>8 DEF Invoke, PublishRequested, r
  <2>2. PublicationType' BY <1>2, <2>1 DEF TypeInv, TypeOK, PublicationType, Witnesses
  <2>3. calls' \in [Ids -> Nat] BY <1>2, <2>1 DEF TypeInv, TypeOK
  <2>4. call' \in [Callers -> Call] /\ CallsWF'
    BY <1>1, <1>3, <2>1, GotoCall DEF CallsWF, CallPCs, r
  <2>5. RowsWF' /\ ReconWF' BY <1>3, <2>1 DEF RowsWF, ReconWF
  <2> QED BY <2>1, <2>2, <2>3, <2>4, <2>5 DEF TypeInv, TypeOK, authorityVars, recoveryVars
<1> QED BY <1>4, <1>5, <1>6, <1>7, <1>8

LEMMA ReconcileType ==
  ASSUME TypeInv, NEW w \in Workers, Reconcile(w) \/ LoseReconcile(w)
  PROVE  TypeInv'
<1>1. /\ row \in [Ids -> Row] /\ RowsWF /\ ReconWF /\ CallsWF
      /\ recon \in [Workers -> Recon]
  BY DEF TypeInv, TypeOK
<1>2. UNCHANGED <<pub, call, calls, authorityVars, recoveryVars>>
  BY DEF Reconcile, ReconcileRead, MarkReconciling, ReconcileObserve, ReconcileSettle, LoseReconcile
<1>3. IdleRecon \in Recon /\ IdleRecon.pc = "idle" BY DEF IdleRecon, Recon
<1>4. CallsWF' BY <1>1, <1>2 DEF CallsWF
<1>5. ASSUME row' \in [Ids -> Row], RowsWF', recon' \in [Workers -> Recon], ReconWF'
      PROVE  TypeInv'
  BY <1>2, <1>4, <1>5 DEF TypeInv, TypeOK, PublicationType, authorityVars, recoveryVars
<1>6. ASSUME NEW i \in Ids, ReconcileRead(w, i) PROVE TypeInv'
  <2>1. row[i].ref \in BOOLEAN BY <1>1 DEF Row
  <2>2. [pc |-> "mark", id |-> i, out |-> "", ref |-> row[i].ref] \in Recon
    BY <2>1 DEF Recon
  <2>3. recon' \in [Workers -> Recon] BY <1>1, <1>6, <2>2 DEF ReconcileRead
  <2>4. ReconWF' BY <1>1, <1>6 DEF ReconcileRead, ReconWF
  <2> QED BY <1>1, <1>5, <1>6, <2>3, <2>4 DEF ReconcileRead, RowsWF
<1> DEFINE i == recon[w].id
<1>7. ASSUME recon[w].pc # "idle"
      PROVE  i \in Ids /\ row[i].req \in Requests /\ row[i].req.id = i
  BY <1>1, <1>7 DEF ReconWF, RowsWF
<1>8. CASE MarkReconciling(w)
  <2>1. recon[w].pc = "mark" /\ recon[w].ref \in BOOLEAN BY <1>1, <1>8 DEF MarkReconciling, Recon
  <2>2. row' \in [Ids -> Row] /\ RowsWF'
        /\ (\A j \in Ids : row[j].state # "ABSENT" => row'[j].state # "ABSENT")
    <3>1. CASE row' = row BY <1>1, <3>1 DEF RowsWF
    <3>2. CASE row' # row BY <1>7, <1>8, <2>1, <3>2, UpdatedWF DEF MarkReconciling
    <3> QED BY <3>1, <3>2
  <2>3. recon' = [recon EXCEPT ![w].pc = "observe"] \/ recon' = [recon EXCEPT ![w] = IdleRecon]
    BY <1>8 DEF MarkReconciling
  <2>4. recon' \in [Workers -> Recon]
    <3>1. CASE recon' = [recon EXCEPT ![w].pc = "observe"] BY <1>1, <3>1 DEF Recon
    <3>2. CASE recon' = [recon EXCEPT ![w] = IdleRecon] BY <1>1, <1>3, <3>2
    <3> QED BY <2>3, <3>1, <3>2
  <2>5. ReconWF'
    <3>1. \A v \in Workers : v # w => recon'[v] = recon[v] BY <1>1, <2>3
    <3>2. CASE recon' = [recon EXCEPT ![w].pc = "observe"]
      <4>1. recon'[w].pc = "observe" /\ recon'[w].id = recon[w].id BY <1>1, <3>2 DEF Recon
      <4> QED BY <1>1, <2>1, <2>2, <3>1, <4>1 DEF ReconWF
    <3>3. CASE recon' = [recon EXCEPT ![w] = IdleRecon]
      BY <1>1, <1>3, <2>2, <3>1, <3>3 DEF ReconWF
    <3> QED BY <2>3, <3>2, <3>3
  <2> QED BY <1>5, <2>2, <2>4, <2>5
<1>9. CASE ReconcileObserve(w)
  <2>1. PICK out \in {"CONFIRMED", "MANUAL"}, ref \in BOOLEAN :
          recon' = [recon EXCEPT ![w] = [pc |-> "settle", id |-> i, out |-> out, ref |-> ref]]
    BY <1>9 DEF ReconcileObserve
  <2>2. recon' \in [Workers -> Recon]
    <3>1. i \in Ids BY <1>7, <1>9 DEF ReconcileObserve
    <3>2. [pc |-> "settle", id |-> i, out |-> out, ref |-> ref] \in Recon BY <3>1 DEF Recon
    <3> QED BY <1>1, <2>1, <3>2
  <2>3. row' = row /\ recon[w].pc = "observe" BY <1>9 DEF ReconcileObserve
  <2>4. ReconWF' BY <1>1, <2>1, <2>3 DEF ReconWF, Recon
  <2> QED BY <1>1, <1>5, <2>2, <2>3, <2>4 DEF RowsWF
<1>10. CASE ReconcileSettle(w)
  <2>1. /\ recon[w].pc = "settle" /\ recon[w].ref \in BOOLEAN
        /\ recon[w].out \in {"CONFIRMED", "MANUAL"}
    BY <1>1, <1>10 DEF ReconcileSettle, Recon, ReconWF
  <2>2. row' \in [Ids -> Row] /\ RowsWF'
        /\ (\A j \in Ids : row[j].state # "ABSENT" => row'[j].state # "ABSENT")
    <3>1. CASE row' = row BY <1>1, <3>1 DEF RowsWF
    <3>2. CASE row' # row BY <1>7, <1>10, <2>1, <3>2, UpdatedWF DEF ReconcileSettle
    <3> QED BY <3>1, <3>2
  <2>3. recon' = [recon EXCEPT ![w] = IdleRecon] BY <1>10 DEF ReconcileSettle
  <2>4. recon' \in [Workers -> Recon] /\ ReconWF'
    BY <1>1, <1>3, <2>2, <2>3 DEF ReconWF
  <2> QED BY <1>5, <2>2, <2>4
<1>11. CASE LoseReconcile(w)
  <2>1. recon' = [recon EXCEPT ![w] = IdleRecon] /\ row' = row BY <1>11 DEF LoseReconcile
  <2>2. recon' \in [Workers -> Recon] /\ ReconWF' BY <1>1, <1>3, <2>1 DEF ReconWF
  <2> QED BY <1>1, <1>5, <2>1, <2>2 DEF RowsWF
<1> QED BY <1>6, <1>8, <1>9, <1>10, <1>11 DEF Reconcile

(* The settlement transactions of Recovery rewrite one open row. *)
LEMMA SettlementRows ==
  ASSUME TypeInv, NEW p \in Principals, NEW i \in Ids,
         AbandonPlanned(p, i) \/ ConfirmPublication(p, i) \/ AbandonUninvoked(p, i)
  PROVE  /\ row' \in [Ids -> Row] /\ RowsWF'
         /\ row[i].state # "ABSENT" /\ row'[i].req = row[i].req
         /\ row'[i].state = IF ConfirmPublication(p, i) THEN "CONFIRMED" ELSE "ABANDONED_RECONCILED"
         /\ \A j \in Ids : j # i => row'[j] = row[j]
         /\ UNCHANGED <<pub, call, recon, calls, authorityVars, recoveryVars>>
<1>1. row \in [Ids -> Row] /\ RowsWF /\ row[i] \in Row /\ platform.epoch \in Nat
  BY BoundsAssumption DEF TypeInv, TypeOK, Epochs
<1>2. UNCHANGED <<pub, call, recon, calls, authorityVars, recoveryVars>>
  BY DEF AbandonPlanned, ConfirmPublication, AbandonUninvoked
<1>3. row[i].state # "ABSENT"
  BY DEF AbandonPlanned, CanAbandonPlanned, ConfirmPublication, AbandonUninvoked, IsPublication
<1>4. PICK x \in Row : /\ row' = [row EXCEPT ![i] = x] /\ x.req = row[i].req
                       /\ x.state = IF ConfirmPublication(p, i)
                                    THEN "CONFIRMED" ELSE "ABANDONED_RECONCILED"
  <2>1. CASE ConfirmPublication(p, i)
    BY <1>1, <2>1, RecoveredRow DEF ConfirmPublication
  <2>2. CASE ~ConfirmPublication(p, i) /\ AbandonPlanned(p, i)
    BY <1>1, <2>2, AbandonedRow DEF AbandonPlanned
  <2>3. CASE ~ConfirmPublication(p, i) /\ AbandonUninvoked(p, i)
    BY <1>1, <2>3, AbandonedRow DEF AbandonUninvoked
  <2> QED BY <2>1, <2>2, <2>3
<1>5. RowsWF' BY <1>1, <1>3, <1>4 DEF RowsWF
<1> QED BY <1>1, <1>2, <1>3, <1>4, <1>5

LEMMA RecoveryType ==
  ASSUME TypeInv, RecoveryStep
  PROVE  TypeInv'
<1> USE DEF Epochs
<1>1. CASE BeginRecovery
  <2>1. platform' \in [epoch : Epochs, mode : {"NORMAL", "RECOVERY_RECONCILIATION"}]
    BY <1>1, BoundsAssumption DEF BeginRecovery, TypeInv, TypeOK
  <2> QED BY <1>1, <2>1 DEF BeginRecovery, TypeInv, TypeOK, RowsWF, CallsWF, ReconWF,
             PublicationType, authorityVars
<1>2. ASSUME NEW p \in Principals, NEW i \in Ids,
             AbandonPlanned(p, i) \/ ConfirmPublication(p, i) \/ AbandonUninvoked(p, i)
      PROVE  TypeInv'
  <2>1. /\ row' \in [Ids -> Row] /\ RowsWF'
        /\ \A j \in Ids : row[j].state # "ABSENT" => row'[j].state # "ABSENT"
        /\ UNCHANGED <<pub, call, recon, calls, authorityVars, recoveryVars>>
    BY <1>2, SettlementRows
  <2>2. CallsWF' /\ ReconWF' BY <2>1 DEF TypeInv, CallsWF, ReconWF
  <2> QED BY <2>1, <2>2 DEF TypeInv, TypeOK, PublicationType, authorityVars, recoveryVars
<1>3. ASSUME NEW p \in Principals, CreateProof(p) PROVE TypeInv'
  <2>1. proof' \in [Epochs -> Principals \cup {None}]
    BY <1>3 DEF CreateProof, TypeInv, TypeOK
  <2> QED BY <1>3, <2>1 DEF CreateProof, TypeInv, TypeOK, RowsWF, CallsWF, ReconWF,
             PublicationType, authorityVars
<1>4. ASSUME NEW p \in Principals, NEW e \in Epochs, AuthorizeCompletion(p, e) PROVE TypeInv'
  <2>1. completing' \in [Principals -> Epochs]
    BY <1>4 DEF AuthorizeCompletion, TypeInv, TypeOK
  <2> QED BY <1>4, <2>1 DEF AuthorizeCompletion, TypeInv, TypeOK, RowsWF, CallsWF, ReconWF,
             PublicationType, authorityVars
<1>5. ASSUME NEW p \in Principals, CompleteRecovery(p) PROVE TypeInv'
  <2>1. completing' \in [Principals -> Epochs]
    BY <1>5, BoundsAssumption DEF CompleteRecovery, TypeInv, TypeOK
  <2>2. /\ platform' \in [epoch : Epochs, mode : {"NORMAL", "RECOVERY_RECONCILIATION"}]
        /\ completedBy' \in [Epochs -> Principals \cup {None}]
    BY <1>5 DEF CompleteRecovery, TypeInv, TypeOK
  <2> QED BY <1>5, <2>1, <2>2 DEF CompleteRecovery, TypeInv, TypeOK, RowsWF, CallsWF, ReconWF,
             PublicationType, authorityVars
<1>6. ASSUME NEW s \in SUBSET Principals, RevisePolicy(s) PROVE TypeInv'
  BY <1>6 DEF RevisePolicy, TypeInv, TypeOK, RowsWF, CallsWF, ReconWF, PublicationType, authorityVars
<1> QED BY <1>1, <1>2, <1>3, <1>4, <1>5, <1>6 DEF RecoveryStep

(* A Publisher step changes one slot, to one of the slot states. *)
LEMMA PublisherType ==
  ASSUME TypeInv, PublisherMoves
  PROVE  TypeInv'
<1>1. PICK i \in Ids : PublisherStep(i) BY DEF PublisherMoves, PublisherMove
<1>2. PublicationType'
  <2>1. PublicationType BY DEF TypeInv, TypeOK
  <2>2. CASE RefusePublish(i) BY <2>1, <2>2 DEF RefusePublish, PublicationType, Witnesses
  <2>3. CASE BeginSlot(i) BY <2>1, <2>3 DEF BeginSlot, PublicationType, Witnesses
  <2>4. CASE ArmInvocation(i) BY <2>1, <2>4 DEF ArmInvocation, PublicationType, Witnesses
  <2>5. CASE RetainArmedCancellation(i)
    BY <2>1, <2>5 DEF RetainArmedCancellation, PublicationType, Witnesses
  <2>6. CASE EnterPublish(i) BY <2>1, <2>6 DEF EnterPublish, PublicationType, Witnesses
  <2>7. CASE ExternalEffect(i) BY <2>1, <2>7 DEF ExternalEffect, PublicationType, Witnesses
  <2>8. CASE CompletePublish(i) BY <2>1, <2>8 DEF CompletePublish, PublicationType, Witnesses
  <2>9. CASE ReleaseSlot(i) BY <2>1, <2>9 DEF ReleaseSlot, PublicationType, Witnesses
  <2>10. CASE SealUninvoked(i) BY <2>1, <2>10 DEF SealUninvoked, PublicationType, Witnesses
  <2> QED BY <1>1, <2>2, <2>3, <2>4, <2>5, <2>6, <2>7, <2>8, <2>9, <2>10 DEF PublisherStep
<1> QED BY <1>2 DEF PublisherMoves, PublisherMove, TypeInv, TypeOK, RowsWF, CallsWF, ReconWF,
           authorityVars, recoveryVars

EvidenceMoves == \E i \in Ids : EvidenceChanges(i)

(* What the Publisher would answer with now is nobody's state but its own. *)
LEMMA EvidenceQuiet ==
  ASSUME EvidenceMoves
  PROVE  UNCHANGED <<row, pub, call, recon, calls, authorityVars,
                     platform, proof, reconcilers, completing, completedBy>>
BY DEF EvidenceMoves, EvidenceChanges

LEMMA EvidenceType ==
  ASSUME TypeInv, EvidenceMoves
  PROVE  TypeInv'
<1>1. evident' \in [Ids -> BOOLEAN] BY DEF EvidenceMoves, EvidenceChanges, TypeInv, TypeOK
<1> QED BY <1>1, EvidenceQuiet DEF TypeInv, TypeOK, RowsWF, CallsWF, ReconWF, PublicationType,
           authorityVars

LEMMA RunType ==
  ASSUME TypeInv, RunStep
  PROVE  TypeInv'
<1>1. run' \in RunRecord /\ session' \in SessionRecord /\ continued' \in BOOLEAN /\ codex' = codex
  BY RunMethods, SessionMethods
     DEF RunStep, Pause, Resume, Takeover, Complete, Continue, HoldRun, TypeInv, TypeOK
<1>2. UNCHANGED <<row, pub, call, recon, calls, recoveryVars>>
  BY DEF RunStep, Pause, Resume, Takeover, Complete, Continue, HoldRun
<1> QED BY <1>1, <1>2 DEF TypeInv, TypeOK, RowsWF, CallsWF, ReconWF, PublicationType, recoveryVars

LEMMA TypeStep == TypeInv /\ [Next]_vars => TypeInv'
<1> SUFFICES ASSUME TypeInv, [Next]_vars PROVE TypeInv' OBVIOUS
<1>1. CASE UNCHANGED vars
  BY <1>1 DEF vars, authorityVars, recoveryVars, TypeInv, TypeOK, RowsWF, CallsWF, ReconWF,
              PublicationType
<1>2. ASSUME NEW c \in Callers,
             (\E r \in Requests : Submit(c, r)) \/ Execute(c) \/ LoseCall(c)
      PROVE  TypeInv'
  BY <1>2, ExecuteReadsType, ExecuteWritesType DEF Execute
<1>3. ASSUME NEW w \in Workers, Reconcile(w) \/ LoseReconcile(w) PROVE TypeInv'
  BY <1>3, ReconcileType
<1> QED BY <1>1, <1>2, <1>3, PublisherType, EvidenceType, RecoveryType, RunType
        DEF Next, EvidenceMoves

(* Every variable of the ledger keeps the shape the schema and the code    *)
(* give it, whatever the callers, workers and principals do.               *)
THEOREM TypeCorrect == Spec => []TypeOK
<1>1. TypeInv => TypeOK BY DEF TypeInv
<1> QED BY <1>1, TypeInit, TypeStep, PTL DEF Spec

-----------------------------------------------------------------------------
(* The program counters of a caller whose INSERT won. *)
OwningPCs == {"planned", "invoke", "await", "settle"}

Owning(c) == call[c].pc \in OwningPCs

(* A reservation has one owner, and only the owner dispatches, once. *)
DispatchInv ==
  /\ \A c \in Callers : Owning(c) =>
       row[call[c].req.id].req = call[c].req /\ row[call[c].req.id].state # "ABSENT"
  /\ \A c, d \in Callers :
       Owning(c) /\ Owning(d) /\ call[c].req.id = call[d].req.id => c = d
  /\ \A c \in Callers : call[c].pc = "invoke" =>
       /\ calls[call[c].req.id] = 0
       /\ row[call[c].req.id].state # "PLANNED"
  /\ \A i \in Ids : row[i].state \in {"ABSENT", "PLANNED"} => calls[i] = 0
  /\ \A i \in Ids : calls[i] <= 1
  /\ \A i, j \in Ids :
       row[i].state # "ABSENT" /\ row[j].state # "ABSENT" /\ row[i].req.key = row[j].req.key
         => i = j

-----------------------------------------------------------------------------
(* The kinds of steps, by what they do to rows, calls and slots. *)

(* A call that owns nothing afterwards; nothing else moves. *)
Retires(c) ==
  /\ call' \in [Callers -> Call]
  /\ call'[c].pc \notin OwningPCs
  /\ \A d \in Callers : d # c => call'[d] = call[d]
  /\ UNCHANGED <<row, pub, recon, calls, platform>>

(* The ledger's compare-and-set on an open row that stays reserved; the    *)
(* Publisher, the dispatch counter and the recovery state are left alone.  *)
Advances(r, target) ==
  /\ r \in Requests
  /\ target \in {"DISPATCHED", "CONFIRMED", "UNKNOWN", "RECONCILING", "MANUAL"}
  /\ row[r.id].req = r
  /\ row[r.id].state \in {"PLANNED", "DISPATCHED", "UNKNOWN", "RECONCILING"}
  /\ target = "DISPATCHED" <=> row[r.id].state = "PLANNED"
  /\ row'[r.id].state = target /\ row'[r.id].req = r
  /\ row'[r.id].receipt = row[r.id].receipt
  /\ row'[r.id].reconciliation = row[r.id].reconciliation
  /\ row'[r.id].marker = (row[r.id].marker \/ (target = "CONFIRMED" /\ r.risk # "OBSERVE"))
  /\ \A i \in Ids : i # r.id => row'[i] = row[i]
  /\ UNCHANGED <<pub, calls, platform>>

(* The request of a running call is a request. *)
LEMMA RunningRequest ==
  ASSUME TypeInv, NEW c \in Callers, call[c].pc \notin {"idle", "lost"}
  PROVE  call[c].req \in Requests /\ call[c].req.id \in Ids
BY RequestFields DEF TypeInv, CallsWF

LEMMA ReadsRetire ==
  ASSUME TypeInv, NEW c \in Callers,
         \/ \E r \in Requests : Submit(c, r)
         \/ Lookup(c) \/ CheckRun(c) \/ CheckRecovery(c) \/ CreateRefused(c) \/ Reread(c)
         \/ LoseCall(c)
         \/ (MarkDispatched(c) \/ Settle(c)) /\ row' = row /\ call'[c].pc # "invoke"
  PROVE  Retires(c)
<1>1. TypeInv' BY ExecuteReadsType, ExecuteWritesType
<1>2. call \in [Callers -> Call] /\ call' \in [Callers -> Call] BY <1>1 DEF TypeInv, TypeOK
<1>3. UNCHANGED <<row, pub, recon, calls, platform>>
  BY DEF Submit, Lookup, CheckRun, CheckRecovery, CreateRefused, Reread, LoseCall,
         MarkDispatched, Settle, recoveryVars
<1>4. \/ \E out \in Replies : Reply(c, out)
      \/ \E pc \in CallPCs : Goto(c, pc) /\ pc \notin OwningPCs
      \/ \E r \in Requests : call' = [call EXCEPT ![c] =
           [pc |-> "lookup", req |-> r, out |-> "", ref |-> FALSE]]
  <2>1. CASE Lookup(c)
    <3>1. call[c].req \in Requests BY <2>1, RunningRequest DEF Lookup, At
    <3> QED BY <2>1, <3>1, ReplayReplyType DEF Lookup, CallPCs, OwningPCs
  <2>2. CASE Reread(c)
    <3>1. call[c].req \in Requests BY <2>2, RunningRequest DEF Reread, At
    <3> QED BY <2>2, <3>1, ReplayReplyType DEF Reread, Replies
  <2>3. CASE CheckRun(c) \/ CheckRecovery(c) \/ CreateRefused(c) \/ LoseCall(c)
    BY <2>3 DEF CheckRun, CheckRecovery, CreateRefused, LoseCall, CallPCs, OwningPCs, Replies
  <2>4. CASE \E r \in Requests : Submit(c, r) BY <2>4 DEF Submit
  <2>5. CASE (MarkDispatched(c) \/ Settle(c)) /\ row' = row /\ call'[c].pc # "invoke"
    <3>1. call[c].out \in Replies BY <1>2 DEF Call
    <3>2. Goto(c, "invoke") => call'[c].pc = "invoke" BY GotoCall DEF CallPCs
    <3> QED BY <2>5, <3>1, <3>2 DEF MarkDispatched, Settle, Replies
  <2> QED BY <2>1, <2>2, <2>3, <2>4, <2>5
<1>5. call'[c].pc \notin OwningPCs /\ \A d \in Callers : d # c => call'[d] = call[d]
  <2>1. CASE \E out \in Replies : Reply(c, out) BY <2>1, ReplyCall DEF OwningPCs
  <2>2. CASE \E pc \in CallPCs : Goto(c, pc) /\ pc \notin OwningPCs BY <2>2, GotoCall
  <2>3. CASE \E r \in Requests : call' = [call EXCEPT ![c] =
               [pc |-> "lookup", req |-> r, out |-> "", ref |-> FALSE]]
    <3>1. PICK r \in Requests : call' = [call EXCEPT ![c] =
            [pc |-> "lookup", req |-> r, out |-> "", ref |-> FALSE]]
      BY <2>3
    <3>2. call'[c].pc = "lookup" BY <1>2, <3>1
    <3> QED BY <1>2, <3>1, <3>2 DEF OwningPCs
  <2> QED BY <1>4, <2>1, <2>2, <2>3
<1> QED BY <1>2, <1>3, <1>5 DEF Retires

LEMMA UpdateAdvances ==
  ASSUME TypeInv, NEW r \in Requests, NEW ref \in BOOLEAN,
         NEW target \in {"DISPATCHED", "CONFIRMED", "UNKNOWN", "RECONCILING", "MANUAL"},
         Updatable(r, target), row' = Updated(r, target, ref),
         UNCHANGED <<pub, calls, platform>>
  PROVE  Advances(r, target)
<1>1. target \in LedgerStates BY DEF LedgerStates
<1> QED BY <1>1, UpdatableRow, UpdatedRows DEF Advances

LEMMA ReconcileAdvances ==
  ASSUME TypeInv, NEW w \in Workers, Reconcile(w) \/ LoseReconcile(w)
  PROVE  /\ UNCHANGED <<pub, call, calls, platform>>
         /\ row' # row =>
              /\ recon[w].pc \in {"mark", "settle"}
              /\ \E target \in {"RECONCILING", "CONFIRMED", "MANUAL"} :
                   /\ recon[w].pc = "settle" => target = recon[w].out
                   /\ target = "CONFIRMED" => recon[w].pc = "settle"
                   /\ Advances(row[recon[w].id].req, target)
<1>1. UNCHANGED <<pub, call, calls, platform>>
  BY DEF Reconcile, ReconcileRead, MarkReconciling, ReconcileObserve, ReconcileSettle,
         LoseReconcile, recoveryVars
<1> SUFFICES ASSUME row' # row
             PROVE  /\ recon[w].pc \in {"mark", "settle"}
                    /\ \E target \in {"RECONCILING", "CONFIRMED", "MANUAL"} :
                         /\ recon[w].pc = "settle" => target = recon[w].out
                         /\ target = "CONFIRMED" => recon[w].pc = "settle"
                         /\ Advances(row[recon[w].id].req, target)
  BY <1>1
<1>2. MarkReconciling(w) \/ ReconcileSettle(w)
  BY DEF Reconcile, ReconcileRead, ReconcileObserve, LoseReconcile
<1>3. /\ recon[w].pc \in {"mark", "settle"}
      /\ recon[w].pc = "settle" => recon[w].out \in {"CONFIRMED", "MANUAL"}
      /\ row[recon[w].id].req \in Requests /\ recon[w].ref \in BOOLEAN
  BY <1>2 DEF MarkReconciling, ReconcileSettle, TypeInv, TypeOK, ReconWF, RowsWF, Recon
<1>4. CASE MarkReconciling(w)
  <2>1. /\ recon[w].pc = "mark" /\ Updatable(row[recon[w].id].req, "RECONCILING")
        /\ row' = Updated(row[recon[w].id].req, "RECONCILING", recon[w].ref)
    BY <1>4 DEF MarkReconciling
  <2> QED BY <1>1, <1>3, <2>1, UpdateAdvances
<1>5. CASE ReconcileSettle(w)
  <2>1. /\ recon[w].pc = "settle" /\ Updatable(row[recon[w].id].req, recon[w].out)
        /\ row' = Updated(row[recon[w].id].req, recon[w].out, recon[w].ref)
    BY <1>5 DEF ReconcileSettle
  <2> QED BY <1>1, <1>3, <2>1, UpdateAdvances
<1> QED BY <1>2, <1>4, <1>5

-----------------------------------------------------------------------------
(* At most one dispatch. *)

(* A step that rewrites open rows in place, keeps their identity, makes    *)
(* none PLANNED again and gives no call a reservation preserves            *)
(* DispatchInv.                                                            *)
LEMMA RewriteKeepsDispatch ==
  ASSUME DispatchInv, calls' = calls,
         \A c \in Callers : call'[c] = call[c] \/ call'[c].pc \notin OwningPCs,
         \A i \in Ids : row'[i] = row[i] \/
           /\ row[i].state # "ABSENT" /\ row'[i].state \notin {"ABSENT", "PLANNED"}
           /\ row'[i].req = row[i].req,
         \A c \in Callers : Owning(c) => call[c].req.id \in Ids
  PROVE  DispatchInv'
<1>1. \A i \in Ids : /\ row'[i].state = "ABSENT" <=> row[i].state = "ABSENT"
                     /\ row'[i].state = "PLANNED" => row[i].state = "PLANNED"
                     /\ row'[i].req = row[i].req
  OBVIOUS
<1> QED BY <1>1 DEF DispatchInv, Owning, OwningPCs

LEMMA DispatchStep == TypeInv /\ DispatchInv /\ [Next]_vars => DispatchInv'
<1> SUFFICES ASSUME TypeInv, DispatchInv, [Next]_vars PROVE DispatchInv' OBVIOUS
<1>1. \A c \in Callers : Owning(c) => call[c].req \in Requests /\ call[c].req.id \in Ids
  BY RunningRequest DEF Owning, OwningPCs
<1>2. CASE UNCHANGED <<row, call, calls>>
  BY <1>2 DEF DispatchInv, Owning
<1>3. ASSUME NEW c \in Callers, Retires(c) PROVE DispatchInv'
  BY <1>3 DEF Retires, DispatchInv, Owning, OwningPCs
<1>4. ASSUME NEW c \in Callers, Create(c) PROVE DispatchInv'
  <2> DEFINE r == call[c].req
  <2>1. r \in Requests /\ r.id \in Ids BY <1>4, RunningRequest DEF Create, At
  <2>2. /\ row[r.id].state = "ABSENT" /\ ByKey(r.key) = {}
        /\ row' = [row EXCEPT ![r.id] = PlannedRow(r)] /\ calls' = calls /\ Goto(c, "planned")
    BY <1>4 DEF Create, Reservable
  <2>3. /\ row'[r.id].state = "PLANNED" /\ row'[r.id].req = r
        /\ \A i \in Ids : i # r.id => row'[i] = row[i]
    BY <2>1, <2>2, FreshRow DEF TypeInv, TypeOK
  <2>4. /\ call'[c].pc = "planned" /\ call'[c].req = r
        /\ \A d \in Callers : d # c => call'[d] = call[d]
    BY <2>2, GotoCall DEF CallPCs
  <2>5. \A i \in Ids : row[i].state # "ABSENT" => row[i].req.key # r.key
    BY <2>2 DEF ByKey
  <2>6. \A d \in Callers : d # c /\ Owning(d) => call[d].req.id # r.id
    BY <2>2 DEF DispatchInv
  <2> HIDE DEF r
  <2>7. /\ \A d \in Callers : Owning(d)' =>
             row'[call'[d].req.id].req = call'[d].req /\ row'[call'[d].req.id].state # "ABSENT"
        /\ \A d, e \in Callers :
             Owning(d)' /\ Owning(e)' /\ call'[d].req.id = call'[e].req.id => d = e
    BY <1>1, <2>1, <2>3, <2>4, <2>6 DEF DispatchInv, Owning
  <2>8. \A d \in Callers : call'[d].pc = "invoke" =>
          calls'[call'[d].req.id] = 0 /\ row'[call'[d].req.id].state # "PLANNED"
    BY <1>1, <2>1, <2>2, <2>3, <2>4, <2>6 DEF DispatchInv, Owning, OwningPCs
  <2>9. \A i \in Ids : /\ row'[i].state \in {"ABSENT", "PLANNED"} => calls'[i] = 0
                       /\ calls'[i] <= 1
    BY <2>2, <2>3 DEF DispatchInv
  <2>10. \A i, j \in Ids :
           row'[i].state # "ABSENT" /\ row'[j].state # "ABSENT" /\ row'[i].req.key = row'[j].req.key
             => i = j
    BY <2>3, <2>5 DEF DispatchInv
  <2> QED BY <2>7, <2>8, <2>9, <2>10 DEF DispatchInv
<1>5. ASSUME NEW c \in Callers, MarkDispatched(c), call'[c].pc = "invoke" PROVE DispatchInv'
  <2> DEFINE r == call[c].req
  <2>1. r \in Requests /\ r.id \in Ids /\ Owning(c)
    BY <1>5, RunningRequest DEF MarkDispatched, At, Owning, OwningPCs
  <2>2. ~Reply(c, "ERROR") BY <1>5, ReplyCall DEF Replies
  <2>3. /\ Updatable(r, "DISPATCHED") /\ row' = Updated(r, "DISPATCHED", FALSE)
        /\ Goto(c, "invoke") /\ UNCHANGED <<pub, calls, platform>>
    BY <1>5, <2>2 DEF MarkDispatched, recoveryVars
  <2>4. Advances(r, "DISPATCHED") BY <2>1, <2>3, UpdateAdvances
  <2>5. /\ call'[c].pc = "invoke" /\ call'[c].req = r
        /\ \A d \in Callers : d # c => call'[d] = call[d]
    BY <2>3, GotoCall DEF CallPCs
  <2>6. calls[r.id] = 0 /\ calls' = calls BY <2>1, <2>4 DEF DispatchInv, Advances
  <2>7. /\ row'[r.id].state = "DISPATCHED" /\ row'[r.id].req = r /\ row[r.id].req = r
        /\ row[r.id].state = "PLANNED"
        /\ \A i \in Ids : i # r.id => row'[i] = row[i]
    BY <2>4 DEF Advances
  <2> HIDE DEF r
  <2>8. /\ \A d \in Callers : Owning(d)' =>
             row'[call'[d].req.id].req = call'[d].req /\ row'[call'[d].req.id].state # "ABSENT"
        /\ \A d, e \in Callers :
             Owning(d)' /\ Owning(e)' /\ call'[d].req.id = call'[e].req.id => d = e
    BY <1>1, <2>1, <2>5, <2>7 DEF DispatchInv, Owning, r
  <2>9. \A d \in Callers : call'[d].pc = "invoke" =>
          calls'[call'[d].req.id] = 0 /\ row'[call'[d].req.id].state # "PLANNED"
    BY <1>1, <2>1, <2>5, <2>6, <2>7 DEF DispatchInv, Owning, OwningPCs
  <2>10. \A i \in Ids : /\ row'[i].state \in {"ABSENT", "PLANNED"} => calls'[i] = 0
                        /\ calls'[i] <= 1
    BY <2>6, <2>7 DEF DispatchInv
  <2>11. \A i, j \in Ids :
           row'[i].state # "ABSENT" /\ row'[j].state # "ABSENT" /\ row'[i].req.key = row'[j].req.key
             => i = j
    BY <2>7 DEF DispatchInv
  <2> QED BY <2>8, <2>9, <2>10, <2>11 DEF DispatchInv
<1>6. ASSUME NEW c \in Callers, Invoke(c) PROVE DispatchInv'
  <2> DEFINE r == call[c].req
  <2>1. r \in Requests /\ r.id \in Ids /\ Owning(c) /\ call[c].pc = "invoke"
    BY <1>6, RunningRequest DEF Invoke, At, Owning, OwningPCs
  <2>2. calls' = [calls EXCEPT ![r.id] = @ + 1] /\ Goto(c, "await") /\ row' = row
    BY <1>6 DEF Invoke
  <2>3. /\ call'[c].pc = "await" /\ call'[c].req = r
        /\ \A d \in Callers : d # c => call'[d] = call[d]
    BY <2>2, GotoCall DEF CallPCs
  <2>4. calls[r.id] = 0 /\ row[r.id].state \notin {"ABSENT", "PLANNED"} BY <2>1 DEF DispatchInv
  <2>5. calls'[r.id] = 1 /\ \A i \in Ids : i # r.id => calls'[i] = calls[i]
    BY <2>1, <2>2, <2>4 DEF TypeInv, TypeOK
  <2>6. \A d \in Callers : d # c /\ Owning(d) => call[d].req.id # r.id BY <2>1 DEF DispatchInv
  <2> HIDE DEF r
  <2>7. \A d \in Callers : call'[d].pc = "invoke" =>
          calls'[call'[d].req.id] = 0 /\ row'[call'[d].req.id].state # "PLANNED"
    BY <1>1, <2>2, <2>3, <2>5, <2>6 DEF DispatchInv, Owning, OwningPCs
  <2>8. \A i \in Ids : /\ row'[i].state \in {"ABSENT", "PLANNED"} => calls'[i] = 0
                       /\ calls'[i] <= 1
    BY <2>2, <2>4, <2>5 DEF DispatchInv
  <2>9. /\ \A d \in Callers : Owning(d)' =>
             row'[call'[d].req.id].req = call'[d].req /\ row'[call'[d].req.id].state # "ABSENT"
        /\ \A d, e \in Callers :
             Owning(d)' /\ Owning(e)' /\ call'[d].req.id = call'[e].req.id => d = e
    BY <2>1, <2>2, <2>3 DEF DispatchInv, Owning, r
  <2> QED BY <2>2, <2>7, <2>8, <2>9 DEF DispatchInv
<1>7. ASSUME NEW c \in Callers, ProviderReturns(c) PROVE DispatchInv'
  <2>1. /\ call[c].pc = "await" /\ row' = row /\ calls' = calls
        /\ \E out \in {"CONFIRMED", "UNKNOWN"}, ref \in BOOLEAN : Return(c, out, ref)
    BY <1>7 DEF ProviderReturns, At, Publishes
  <2>2. /\ call'[c].pc = "settle" /\ call'[c].req = call[c].req
        /\ \A d \in Callers : d # c => call'[d] = call[d]
    BY <2>1 DEF Return, TypeInv, TypeOK
  <2> QED BY <2>1, <2>2 DEF DispatchInv, Owning, OwningPCs
<1>8. ASSUME NEW c \in Callers, Settle(c), row' # row PROVE DispatchInv'
  <2> DEFINE r == call[c].req
  <2>1. r \in Requests /\ r.id \in Ids
    BY <1>8, RunningRequest DEF Settle, At
  <2>2. call[c].out \in {"CONFIRMED", "UNKNOWN"} /\ call[c].ref \in BOOLEAN
    BY <1>8 DEF Settle, At, TypeInv, CallsWF, TypeOK, Call
  <2>3. /\ Updatable(r, call[c].out) /\ row' = Updated(r, call[c].out, call[c].ref)
        /\ Reply(c, call[c].out) /\ UNCHANGED <<pub, calls, platform>>
    BY <1>8 DEF Settle, recoveryVars
  <2>4. Advances(r, call[c].out) BY <2>1, <2>2, <2>3, UpdateAdvances
  <2>5. call'[c].pc = "done" /\ \A d \in Callers : d # c => call'[d] = call[d]
    BY <2>2, <2>3, ReplyCall DEF Replies, LedgerStates
  <2>6. \A i \in Ids : row'[i] = row[i] \/
          /\ row[i].state # "ABSENT" /\ row'[i].state \notin {"ABSENT", "PLANNED"}
          /\ row'[i].req = row[i].req
    BY <2>2, <2>4 DEF Advances
  <2>7. calls' = calls /\ \A d \in Callers : call'[d] = call[d] \/ call'[d].pc \notin OwningPCs
    BY <2>3, <2>5 DEF OwningPCs
  <2> QED BY <1>1, <2>6, <2>7, RewriteKeepsDispatch
<1>9. ASSUME NEW w \in Workers, Reconcile(w) \/ LoseReconcile(w) PROVE DispatchInv'
  BY <1>1, <1>9, ReconcileAdvances, RewriteKeepsDispatch DEF Advances
<1>10. ASSUME NEW p \in Principals, NEW i \in Ids,
              AbandonPlanned(p, i) \/ ConfirmPublication(p, i) \/ AbandonUninvoked(p, i)
       PROVE  DispatchInv'
  BY <1>1, <1>10, SettlementRows, RewriteKeepsDispatch
<1>11. CASE RecoveryStep
  <2>1. ASSUME NEW p \in Principals, NEW e \in Epochs,
               CreateProof(p) \/ AuthorizeCompletion(p, e) \/ CompleteRecovery(p)
        PROVE  UNCHANGED <<row, call, calls>>
    BY <2>1 DEF CreateProof, AuthorizeCompletion, CompleteRecovery
  <2>2. ASSUME NEW s \in SUBSET Principals, BeginRecovery \/ RevisePolicy(s)
        PROVE  UNCHANGED <<row, call, calls>>
    BY <2>2 DEF BeginRecovery, RevisePolicy
  <2>3. 0 \in Epochs BY BoundsAssumption DEF Epochs
  <2> QED BY <1>2, <1>10, <1>11, <2>1, <2>2, <2>3 DEF RecoveryStep
<1>12. CASE PublisherMoves \/ EvidenceMoves \/ RunStep \/ UNCHANGED vars
  BY <1>2, <1>12, EvidenceQuiet DEF PublisherMoves, PublisherMove, RunStep, Pause, Resume, Takeover,
                       Complete, Continue, HoldRun, vars
<1>13. ASSUME NEW c \in Callers,
              (\E r \in Requests : Submit(c, r)) \/ Execute(c) \/ LoseCall(c)
       PROVE  DispatchInv'
  <2>1. ASSUME MarkDispatched(c), call'[c].pc # "invoke" PROVE row' = row
    <3>1. Goto(c, "invoke") => call'[c].pc = "invoke" BY GotoCall DEF CallPCs
    <3> QED BY <2>1, <3>1 DEF MarkDispatched
  <2>2. ASSUME Settle(c), row' = row PROVE call'[c].pc # "invoke"
    <3>1. call[c].out \in Replies BY DEF TypeInv, TypeOK, Call
    <3>2. \E out \in Replies : Reply(c, out) BY <2>2, <3>1 DEF Settle, Replies
    <3> QED BY <3>2, ReplyCall
  <2> QED BY <1>3, <1>4, <1>5, <1>6, <1>7, <1>8, <1>13, <2>1, <2>2, ReadsRetire DEF Execute
<1> QED BY <1>9, <1>11, <1>12, <1>13 DEF Next, EvidenceMoves

LEMMA DispatchInit == Init => DispatchInv
<1> SUFFICES ASSUME Init PROVE DispatchInv OBVIOUS
<1>1. \A c \in Callers : call[c].pc = "idle" BY DEF Init
<1>2. \A i \in Ids : row[i].state = "ABSENT" /\ calls[i] = 0 BY DEF Init, AbsentRow
<1> QED BY <1>1, <1>2 DEF DispatchInv, Owning, OwningPCs

(* However many callers retry, race, disconnect or are reconciled away, an *)
(* operation and an idempotency key reach the provider at most once.       *)
THEOREM DispatchedAtMostOnce == Spec => []AtMostOneDispatch
<1>1. DispatchInv => AtMostOneDispatch
  <2> SUFFICES ASSUME DispatchInv PROVE AtMostOneDispatch OBVIOUS
  <2>1. \A i \in Ids : calls[i] > 0 => row[i].state # "ABSENT" BY DEF DispatchInv
  <2> QED BY <2>1 DEF DispatchInv, AtMostOneDispatch
<1> QED BY <1>1, TypeInit, TypeStep, DispatchInit, DispatchStep, PTL DEF Spec

-----------------------------------------------------------------------------
(* Recovery epochs. *)

(* No reservation is ahead of the recovery epoch, and in NORMAL mode none  *)
(* of an earlier epoch is open.                                            *)
EpochInv ==
  /\ \A i \in Ids : row[i].state # "ABSENT" => row[i].req.re <= platform.epoch
  /\ RecoveryClosesEarlierEpochs

(* What a step may do to the rows without disturbing EpochInv. *)
LEMMA RowsKeepEpochs ==
  ASSUME EpochInv, platform' = platform, platform.epoch \in Nat,
         \A i \in Ids : \/ row'[i] = row[i]
                        \/ row'[i].state # "ABSENT" /\ row'[i].req.re = platform.epoch
                        \/ /\ row[i].state # "ABSENT" /\ row'[i].req = row[i].req
                           /\ platform.mode = "NORMAL" => ~Resolved(i)
  PROVE  EpochInv'
<1>1. ASSUME NEW i \in Ids, row'[i].state # "ABSENT"
      PROVE  /\ row'[i].req.re <= platform.epoch
             /\ platform.mode = "NORMAL" /\ row'[i].req.re < platform.epoch => row'[i] = row[i]
  <2>1. CASE row'[i] = row[i] BY <1>1, <2>1 DEF EpochInv
  <2>2. CASE row'[i].state # "ABSENT" /\ row'[i].req.re = platform.epoch
    BY <2>2
  <2>3. CASE /\ row[i].state # "ABSENT" /\ row'[i].req = row[i].req
             /\ platform.mode = "NORMAL" => ~Resolved(i)
    BY <2>3 DEF EpochInv, RecoveryClosesEarlierEpochs
  <2> QED BY <2>1, <2>2, <2>3
<1>2. \A i \in Ids : row'[i] = row[i] => (Resolved(i) <=> Resolved(i)') BY DEF Resolved
<1> QED BY <1>1, <1>2 DEF EpochInv, RecoveryClosesEarlierEpochs

LEMMA EpochStep == TypeInv /\ EpochInv /\ [Next]_vars => EpochInv'
<1> SUFFICES ASSUME TypeInv, EpochInv, [Next]_vars PROVE EpochInv' OBVIOUS
<1>0. platform.epoch \in Nat BY BoundsAssumption DEF TypeInv, TypeOK, Epochs
<1>1. CASE UNCHANGED <<row, platform>>
  BY <1>1 DEF EpochInv, RecoveryClosesEarlierEpochs, Resolved
<1>2. ASSUME NEW r \in Requests,
             NEW target \in {"DISPATCHED", "CONFIRMED", "UNKNOWN", "RECONCILING", "MANUAL"},
             Advances(r, target)
      PROVE  EpochInv'
  BY <1>0, <1>2, RowsKeepEpochs DEF Advances, Resolved
<1>3. ASSUME NEW c \in Callers, Create(c) PROVE EpochInv'
  <2> DEFINE r == call[c].req
  <2>1. r \in Requests /\ r.id \in Ids /\ r.re \in Nat
    BY <1>3, RunningRequest, RequestFields DEF Create, At
  <2>2. /\ row' = [row EXCEPT ![r.id] = PlannedRow(r)] /\ r.re = platform.epoch
        /\ platform' = platform
    BY <1>3 DEF Create, Admitted, recoveryVars
  <2>3. \A i \in Ids : \/ row'[i] = row[i]
                       \/ row'[i].state # "ABSENT" /\ row'[i].req.re = platform.epoch
    BY <2>1, <2>2, FreshRow DEF TypeInv, TypeOK
  <2> QED BY <1>0, <2>2, <2>3, RowsKeepEpochs
<1>4. ASSUME NEW c \in Callers,
             (\E r \in Requests : Submit(c, r)) \/ Execute(c) \/ LoseCall(c)
      PROVE  EpochInv'
  <2>1. CASE row' = row
    <3>1. platform' = platform
      BY <1>4 DEF Execute, Submit, Lookup, CheckRun, CheckRecovery, Create, CreateRefused, Reread,
           MarkDispatched, Invoke, ProviderReturns, Settle, LoseCall, recoveryVars
    <3> QED BY <1>1, <2>1, <3>1
  <2>2. CASE row' # row /\ (MarkDispatched(c) \/ Settle(c))
    <3>1. call[c].req \in Requests BY <2>2, RunningRequest DEF MarkDispatched, Settle, At
    <3>2. PICK target \in {"DISPATCHED", "CONFIRMED", "UNKNOWN"}, ref \in BOOLEAN :
            /\ Updatable(call[c].req, target) /\ row' = Updated(call[c].req, target, ref)
            /\ UNCHANGED <<pub, calls, platform>>
      <4>1. /\ call[c].ref \in BOOLEAN
            /\ call[c].pc = "settle" => call[c].out \in {"CONFIRMED", "UNKNOWN"}
        BY DEF TypeInv, TypeOK, CallsWF, Call
      <4> QED BY <2>2, <4>1 DEF MarkDispatched, Settle, At, recoveryVars
    <3> QED BY <1>2, <3>1, <3>2, UpdateAdvances
  <2>3. CASE Create(c) BY <1>3, <2>3
  <2> QED BY <1>4, <2>1, <2>2, <2>3
          DEF Execute, Submit, Lookup, CheckRun, CheckRecovery, CreateRefused, Reread,
              Invoke, ProviderReturns, LoseCall
<1>5. ASSUME NEW w \in Workers, Reconcile(w) \/ LoseReconcile(w) PROVE EpochInv'
  BY <1>1, <1>2, <1>5, ReconcileAdvances DEF Advances
<1>6. ASSUME NEW p \in Principals, NEW i \in Ids,
             AbandonPlanned(p, i) \/ ConfirmPublication(p, i) \/ AbandonUninvoked(p, i)
      PROVE  EpochInv'
  <2>1. platform.mode # "NORMAL"
    BY <1>6 DEF AbandonPlanned, CanAbandonPlanned, ConfirmPublication, AbandonUninvoked,
                FromEarlierEpoch, Recovering
  <2> QED BY <1>0, <1>6, <2>1, SettlementRows, RowsKeepEpochs DEF recoveryVars
<1>7. CASE BeginRecovery
  <2>1. platform'.epoch = platform.epoch + 1 /\ platform'.mode # "NORMAL" /\ row' = row
    BY <1>7 DEF BeginRecovery
  <2>2. \A i \in Ids : row[i].state # "ABSENT" => row[i].req.re \in Nat
    BY RequestFields DEF TypeInv, RowsWF
  <2> QED BY <1>0, <2>1, <2>2 DEF EpochInv, RecoveryClosesEarlierEpochs
<1>8. ASSUME NEW p \in Principals, CompleteRecovery(p) PROVE EpochInv'
  <2>1. CASE UNCHANGED platform BY <1>1, <1>8, <2>1 DEF CompleteRecovery
  <2>2. CASE ~UNCHANGED platform
    <3>1. FactsClear /\ row' = row /\ platform' = [platform EXCEPT !.mode = "NORMAL"]
      BY <1>8, <2>2 DEF CompleteRecovery
    <3>2. platform'.epoch = platform.epoch BY <3>1 DEF TypeInv, TypeOK
    <3>3. \A i \in Ids : Resolved(i)' BY <3>1 DEF FactsClear, Resolved
    <3> QED BY <3>1, <3>2, <3>3 DEF EpochInv, RecoveryClosesEarlierEpochs
  <2> QED BY <2>1, <2>2
<1>9. CASE RecoveryStep
  <2>1. ASSUME NEW p \in Principals, NEW e \in Epochs, CreateProof(p) \/ AuthorizeCompletion(p, e)
        PROVE  UNCHANGED <<row, platform>>
    BY <2>1 DEF CreateProof, AuthorizeCompletion
  <2>2. ASSUME NEW s \in SUBSET Principals, RevisePolicy(s) PROVE UNCHANGED <<row, platform>>
    BY <2>2 DEF RevisePolicy
  <2>3. 0 \in Epochs BY BoundsAssumption DEF Epochs
  <2> QED BY <1>1, <1>6, <1>7, <1>8, <1>9, <2>1, <2>2, <2>3 DEF RecoveryStep
<1>10. CASE PublisherMoves \/ EvidenceMoves \/ RunStep \/ UNCHANGED vars
  BY <1>1, <1>10, EvidenceQuiet DEF PublisherMoves, PublisherMove, RunStep, Pause,
                       Resume, Takeover, Complete, Continue,
                     HoldRun, vars, recoveryVars
<1> QED BY <1>4, <1>5, <1>9, <1>10 DEF Next, EvidenceMoves

LEMMA EpochInit == Init => EpochInv
<1> SUFFICES ASSUME Init PROVE EpochInv OBVIOUS
<1>1. \A i \in Ids : row[i].state = "ABSENT" BY DEF Init, AbsentRow
<1> QED BY <1>1 DEF EpochInv, RecoveryClosesEarlierEpochs

(* When a recovery has completed, nothing reserved before it is open: the  *)
(* late callers of an earlier epoch can reserve nothing and reopen nothing.*)
THEOREM RecoveryIsComplete == Spec => []RecoveryClosesEarlierEpochs
<1>1. EpochInv => RecoveryClosesEarlierEpochs BY DEF EpochInv
<1> QED BY <1>1, TypeInit, TypeStep, EpochInit, EpochStep, PTL DEF Spec

-----------------------------------------------------------------------------
(* The ledger and the Publisher's slots. *)

(* A slot is used only by a dispatch of an operation that publishes, and   *)
(* what it says about the effect is true.                                  *)
SlotInv ==
  \A i \in Ids :
    /\ calls[i] = 0 => pub[i].witness = "none"
    /\ pub[i].effect => pub[i].witness \in {"entered", "completed"}
    /\ pub[i].witness = "completed" => pub[i].effect

(* An abandoned operation has no open slot and nobody about to open one. *)
AbandonInv ==
  /\ \A i \in Ids : row[i].state = "ABANDONED_RECONCILED" => pub[i].witness \in {"none", "sealed"}
  /\ \A c \in Callers : call[c].pc = "invoke" =>
       row[call[c].req.id].state # "ABANDONED_RECONCILED"

(* Who is about to confirm, and what is confirmed, has the effect. *)
ConfirmInv ==
  /\ \A c \in Callers :
       call[c].pc = "settle" /\ call[c].out = "CONFIRMED" /\ Publishes(call[c].req)
         => pub[call[c].req.id].witness = "completed"
  /\ \A w \in Workers :
       recon[w].pc = "settle" /\ recon[w].out = "CONFIRMED" => ~Publishes(row[recon[w].id].req)
  /\ \A i \in Ids : pub[i].witness # "none" => Publishes(row[i].req)
  /\ ConfirmedHasEffect

(* A slot that is unused, completed or sealed stays so, and an effect is   *)
(* not undone.                                                             *)
SlotMoves ==
  \A i \in Ids :
    /\ pub[i].witness \in {"none", "completed", "sealed"} => pub'[i].witness = pub[i].witness
    /\ pub[i].effect => pub'[i].effect
    /\ pub'[i].effect /\ ~pub[i].effect => pub[i].witness = "entered"
    /\ pub'[i].effect => pub'[i].witness \in {"entered", "completed"}
    /\ pub'[i].witness = "completed" => pub'[i].effect

LEMMA PublisherSlots ==
  ASSUME TypeInv, SlotInv, PublisherMoves
  PROVE  SlotMoves
<1>1. PICK i \in Ids : PublisherStep(i) BY DEF PublisherMoves, PublisherMove
<1>2. pub \in [Ids -> [witness : Witnesses, held : BOOLEAN, effect : BOOLEAN]]
  BY DEF TypeInv, TypeOK, PublicationType
<1> SUFFICES ASSUME NEW j \in Ids
             PROVE  /\ pub[j].witness \in {"none", "completed", "sealed"}
                         => pub'[j].witness = pub[j].witness
                    /\ pub[j].effect => pub'[j].effect
                    /\ pub'[j].effect /\ ~pub[j].effect => pub[j].witness = "entered"
                    /\ pub'[j].effect => pub'[j].witness \in {"entered", "completed"}
                    /\ pub'[j].witness = "completed" => pub'[j].effect
  BY DEF SlotMoves
<1>3. CASE RefusePublish(i) BY <1>2, <1>3 DEF RefusePublish, SlotInv
<1>4. CASE BeginSlot(i) BY <1>2, <1>4 DEF BeginSlot, SlotInv
<1>5. CASE ArmInvocation(i) BY <1>2, <1>5 DEF ArmInvocation, SlotInv
<1>6. CASE RetainArmedCancellation(i) BY <1>2, <1>6 DEF RetainArmedCancellation, SlotInv
<1>7. CASE EnterPublish(i) BY <1>2, <1>7 DEF EnterPublish, SlotInv
<1>8. CASE ExternalEffect(i) BY <1>2, <1>8 DEF ExternalEffect, SlotInv
<1>9. CASE CompletePublish(i) BY <1>2, <1>9 DEF CompletePublish, SlotInv
<1>10. CASE ReleaseSlot(i) BY <1>2, <1>10 DEF ReleaseSlot, SlotInv
<1>11. CASE SealUninvoked(i) BY <1>2, <1>11 DEF SealUninvoked, SlotInv
<1> QED BY <1>1, <1>3, <1>4, <1>5, <1>6, <1>7, <1>8, <1>9, <1>10, <1>11 DEF PublisherStep

(* Invoke hands the operation to the Publisher or leaves the slots alone. *)
LEMMA InvokeSlots ==
  ASSUME TypeInv, NEW c \in Callers, Invoke(c)
  PROVE  LET i == call[c].req.id IN
         /\ i \in Ids
         /\ calls'[i] = calls[i] + 1 /\ \A j \in Ids : j # i => calls'[j] = calls[j]
         /\ \A j \in Ids : j # i => pub'[j] = pub[j]
         /\ \/ pub'[i] = pub[i]
            \/ /\ pub[i].witness = "none" /\ pub'[i].witness = "requested"
               /\ pub'[i].effect = pub[i].effect /\ Publishes(call[c].req)
<1>1. call[c].req \in Requests /\ call[c].req.id \in Ids
  BY RunningRequest DEF Invoke, At
<1>2. /\ pub \in [Ids -> [witness : Witnesses, held : BOOLEAN, effect : BOOLEAN]]
      /\ calls \in [Ids -> Nat]
  BY DEF TypeInv, TypeOK, PublicationType
<1>3. /\ calls' = [calls EXCEPT ![call[c].req.id] = @ + 1]
      /\ \/ pub' = pub
         \/ /\ pub[call[c].req.id].witness = "none" /\ Publishes(call[c].req)
            /\ pub' = [pub EXCEPT ![call[c].req.id].witness = "requested"]
  BY DEF Invoke, PublishRequested
<1>4. CASE pub' = pub BY <1>1, <1>2, <1>3, <1>4
<1>5. CASE pub' # pub BY <1>1, <1>2, <1>3, <1>5
<1> QED BY <1>4, <1>5

(* Which steps touch what: everything but a dispatch and the Publisher     *)
(* leaves the slots and the dispatch counters alone.                       *)
LEMMA QuietSteps ==
  ASSUME TypeInv, [Next]_vars, \A c \in Callers : ~Invoke(c), ~PublisherMoves
  PROVE  UNCHANGED <<pub, calls>>
<1>1. ASSUME NEW c \in Callers,
             (\E r \in Requests : Submit(c, r)) \/ Execute(c) \/ LoseCall(c)
      PROVE  UNCHANGED <<pub, calls>>
  BY <1>1 DEF Execute, Submit, Lookup, CheckRun, CheckRecovery, Create, CreateRefused, Reread,
              MarkDispatched, ProviderReturns, Settle, LoseCall
<1>2. ASSUME NEW w \in Workers, Reconcile(w) \/ LoseReconcile(w) PROVE UNCHANGED <<pub, calls>>
  BY <1>2, ReconcileAdvances
<1>3. CASE RecoveryStep
  <2>1. 0 \in Epochs BY BoundsAssumption DEF Epochs
  <2> QED BY <1>3, <2>1 DEF RecoveryStep, BeginRecovery, AbandonPlanned, ConfirmPublication,
             AbandonUninvoked, CreateProof, AuthorizeCompletion, CompleteRecovery, RevisePolicy
<1>4. CASE EvidenceMoves \/ RunStep \/ UNCHANGED vars
  BY <1>4, EvidenceQuiet DEF RunStep, Pause, Resume, Takeover, Complete, Continue, HoldRun, vars
<1> QED BY <1>1, <1>2, <1>3, <1>4 DEF Next, EvidenceMoves

LEMMA SlotStep == TypeInv /\ SlotInv /\ [Next]_vars => SlotInv'
<1> SUFFICES ASSUME TypeInv, SlotInv, [Next]_vars PROVE SlotInv' OBVIOUS
<1>1. ASSUME NEW c \in Callers, Invoke(c) PROVE SlotInv'
  <2>1. calls \in [Ids -> Nat] BY DEF TypeInv, TypeOK
  <2> QED BY <1>1, <2>1, InvokeSlots DEF SlotInv
<1>2. CASE PublisherMoves BY <1>2, PublisherSlots DEF SlotInv, SlotMoves, PublisherMoves, PublisherMove
<1>3. CASE UNCHANGED <<pub, calls>> BY <1>3 DEF SlotInv
<1> QED BY <1>1, <1>2, <1>3, QuietSteps

LEMMA AbandonStep ==
  TypeInv /\ DispatchInv /\ SlotInv /\ AbandonInv /\ [Next]_vars => AbandonInv'
<1> SUFFICES ASSUME TypeInv, DispatchInv, SlotInv, AbandonInv, [Next]_vars PROVE AbandonInv'
  OBVIOUS
<1>1. \A c \in Callers : call[c].pc = "invoke" => call[c].req.id \in Ids
  BY RunningRequest
<1>2. CASE UNCHANGED <<row, pub, call>> BY <1>2 DEF AbandonInv
<1>3. ASSUME NEW c \in Callers, Retires(c) PROVE AbandonInv'
  BY <1>3 DEF Retires, AbandonInv, OwningPCs
<1>4. ASSUME NEW c \in Callers, Create(c) PROVE AbandonInv'
  <2>1. call[c].req \in Requests /\ call[c].req.id \in Ids
    BY <1>4, RunningRequest DEF Create, At
  <2>2. /\ row' = [row EXCEPT ![call[c].req.id] = PlannedRow(call[c].req)]
        /\ Goto(c, "planned") /\ pub' = pub
    BY <1>4 DEF Create
  <2>3. /\ row'[call[c].req.id].state = "PLANNED"
        /\ \A i \in Ids : i # call[c].req.id => row'[i] = row[i]
    BY <2>1, <2>2, FreshRow DEF TypeInv, TypeOK
  <2>4. call'[c].pc = "planned" /\ \A d \in Callers : d # c => call'[d] = call[d]
    BY <2>2, GotoCall DEF CallPCs
  <2> QED BY <1>1, <2>1, <2>2, <2>3, <2>4 DEF AbandonInv
<1>5. ASSUME NEW r \in Requests,
             NEW target \in {"DISPATCHED", "CONFIRMED", "UNKNOWN", "RECONCILING", "MANUAL"},
             Advances(r, target),
             \A d \in Callers : call'[d].pc = "invoke" =>
               call'[d].req.id = r.id \/ (call'[d] = call[d])
      PROVE  AbandonInv'
  <2>1. r.id \in Ids BY RequestFields
  <2>2. /\ row'[r.id].state # "ABANDONED_RECONCILED" /\ pub' = pub
        /\ \A i \in Ids : i # r.id => row'[i] = row[i]
    BY <1>5 DEF Advances
  <2> QED BY <1>1, <1>5, <2>1, <2>2 DEF AbandonInv
<1>6. ASSUME NEW c \in Callers, MarkDispatched(c) PROVE AbandonInv'
  <2>1. call[c].req \in Requests BY <1>6, RunningRequest DEF MarkDispatched, At
  <2>2. CASE Reply(c, "ERROR") /\ row' = row
    <3>1. call'[c].pc = "done" BY <2>2, ReplyCall DEF Replies
    <3> QED BY <1>3, <1>6, <2>2, <3>1, ReadsRetire
  <2>3. CASE /\ Updatable(call[c].req, "DISPATCHED") /\ Goto(c, "invoke")
             /\ row' = Updated(call[c].req, "DISPATCHED", FALSE)
    <3>1. UNCHANGED <<pub, calls, platform>> BY <1>6 DEF MarkDispatched, recoveryVars
    <3>2. Advances(call[c].req, "DISPATCHED") BY <2>1, <2>3, <3>1, UpdateAdvances
    <3>3. call'[c].req = call[c].req /\ \A d \in Callers : d # c => call'[d] = call[d]
      BY <2>3, GotoCall DEF CallPCs
    <3> QED BY <1>5, <2>1, <3>2, <3>3
  <2> QED BY <1>6, <2>2, <2>3 DEF MarkDispatched
<1>7. ASSUME NEW c \in Callers, Settle(c) PROVE AbandonInv'
  <2>1. call[c].req \in Requests BY <1>7, RunningRequest DEF Settle, At
  <2>2. call[c].out \in {"CONFIRMED", "UNKNOWN"} /\ call[c].ref \in BOOLEAN
    BY <1>7 DEF Settle, At, TypeInv, CallsWF, TypeOK, Call
  <2>3. call'[c].pc = "done" /\ \A d \in Callers : d # c => call'[d] = call[d]
    BY <1>7, <2>2, ReplyCall DEF Settle, Replies, LedgerStates
  <2>4. CASE row' = row BY <1>3, <1>7, <2>3, <2>4, ReadsRetire
  <2>5. CASE Updatable(call[c].req, call[c].out)
    <3>1. /\ row' = Updated(call[c].req, call[c].out, call[c].ref)
          /\ UNCHANGED <<pub, calls, platform>>
      BY <1>7, <2>5 DEF Settle, recoveryVars
    <3>2. Advances(call[c].req, call[c].out) BY <2>1, <2>2, <2>5, <3>1, UpdateAdvances
    <3> QED BY <1>5, <2>1, <2>2, <2>3, <3>2
  <2> QED BY <1>7, <2>4, <2>5 DEF Settle
<1>8. ASSUME NEW c \in Callers, Invoke(c) PROVE AbandonInv'
  <2>1. /\ call[c].pc = "invoke" /\ row' = row /\ Goto(c, "await")
    BY <1>8 DEF Invoke, At
  <2>2. call'[c].pc = "await" /\ \A d \in Callers : d # c => call'[d] = call[d]
    BY <2>1, GotoCall DEF CallPCs
  <2>3. \A i \in Ids : row[i].state = "ABANDONED_RECONCILED" => pub'[i] = pub[i]
    BY <1>8, <2>1, InvokeSlots DEF AbandonInv
  <2> QED BY <2>1, <2>2, <2>3 DEF AbandonInv
<1>9. ASSUME NEW c \in Callers, ProviderReturns(c) PROVE AbandonInv'
  <2>1. /\ row' = row /\ pub' = pub
        /\ \E out \in {"CONFIRMED", "UNKNOWN"}, ref \in BOOLEAN : Return(c, out, ref)
    BY <1>9 DEF ProviderReturns, Publishes
  <2>2. call'[c].pc = "settle" /\ \A d \in Callers : d # c => call'[d] = call[d]
    BY <2>1 DEF Return, TypeInv, TypeOK
  <2> QED BY <2>1, <2>2 DEF AbandonInv
<1>10. ASSUME NEW w \in Workers, Reconcile(w) \/ LoseReconcile(w) PROVE AbandonInv'
  BY <1>2, <1>5, <1>10, ReconcileAdvances DEF Advances
<1>11. ASSUME NEW p \in Principals, NEW i \in Ids,
              AbandonPlanned(p, i) \/ ConfirmPublication(p, i) \/ AbandonUninvoked(p, i)
       PROVE  AbandonInv'
  <2>1. /\ \A j \in Ids : j # i => row'[j] = row[j]
        /\ row'[i].state = IF ConfirmPublication(p, i) THEN "CONFIRMED" ELSE "ABANDONED_RECONCILED"
        /\ pub' = pub /\ call' = call
    BY <1>11, SettlementRows
  <2>2. CASE ConfirmPublication(p, i) BY <1>1, <2>1, <2>2 DEF AbandonInv
  <2>3. CASE AbandonPlanned(p, i)
    <3>1. row[i].state = "PLANNED" BY <2>3 DEF AbandonPlanned, CanAbandonPlanned
    <3>2. pub[i].witness = "none" BY <3>1 DEF DispatchInv, SlotInv
    <3>3. \A c \in Callers : call[c].pc = "invoke" => call[c].req.id # i
      BY <3>1 DEF DispatchInv
    <3> QED BY <1>1, <2>1, <3>2, <3>3 DEF AbandonInv
  <2>4. CASE AbandonUninvoked(p, i)
    <3>1. pub[i].witness = "sealed" BY <2>4 DEF AbandonUninvoked, NonInvocationEvidence
    <3>2. \A c \in Callers : call[c].pc = "invoke" => call[c].req.id # i
      BY <3>1 DEF DispatchInv, SlotInv
    <3> QED BY <1>1, <2>1, <3>1, <3>2 DEF AbandonInv
  <2> QED BY <1>11, <2>2, <2>3, <2>4
<1>12. CASE PublisherMoves
  <2>1. SlotMoves /\ row' = row /\ call' = call BY <1>12, PublisherSlots DEF PublisherMoves, PublisherMove
  <2> QED BY <2>1 DEF AbandonInv, SlotMoves
<1>13. CASE RecoveryStep
  <2>1. ASSUME NEW p \in Principals, NEW e \in Epochs,
               CreateProof(p) \/ AuthorizeCompletion(p, e) \/ CompleteRecovery(p)
        PROVE  UNCHANGED <<row, pub, call>>
    BY <2>1 DEF CreateProof, AuthorizeCompletion, CompleteRecovery
  <2>2. ASSUME NEW s \in SUBSET Principals, BeginRecovery \/ RevisePolicy(s)
        PROVE  UNCHANGED <<row, pub, call>>
    BY <2>2 DEF BeginRecovery, RevisePolicy
  <2>3. 0 \in Epochs BY BoundsAssumption DEF Epochs
  <2> QED BY <1>2, <1>11, <1>13, <2>1, <2>2, <2>3 DEF RecoveryStep
<1>14. CASE EvidenceMoves \/ RunStep \/ UNCHANGED vars
  BY <1>2, <1>14, EvidenceQuiet DEF RunStep, Pause, Resume, Takeover, Complete, Continue, HoldRun, vars
<1> QED BY <1>3, <1>4, <1>6, <1>7, <1>8, <1>9, <1>10, <1>12, <1>13, <1>14, ReadsRetire
        DEF Next, EvidenceMoves, Execute

-----------------------------------------------------------------------------
(* What a step can do to one row. *)

Settles(p, i) == AbandonPlanned(p, i) \/ ConfirmPublication(p, i) \/ AbandonUninvoked(p, i)

LEMMA RowSteps ==
  ASSUME TypeInv, [Next]_vars, NEW i \in Ids, row'[i] # row[i]
  PROVE  \/ \E c \in Callers : Create(c) /\ i = call[c].req.id /\ row[i].state = "ABSENT"
         \/ \E r \in Requests :
              \E target \in {"DISPATCHED", "CONFIRMED", "UNKNOWN", "RECONCILING", "MANUAL"} :
                /\ Advances(r, target) /\ i = r.id
                /\ target = "CONFIRMED" =>
                     \/ \E c \in Callers : Settle(c) /\ r = call[c].req /\ call[c].out = "CONFIRMED"
                     \/ \E w \in Workers : /\ recon[w].pc = "settle" /\ recon[w].out = "CONFIRMED"
                                           /\ r = row[recon[w].id].req
         \/ \E p \in Principals : Settles(p, i)
<1>1. ASSUME NEW c \in Callers, Create(c)
      PROVE  i = call[c].req.id /\ row[i].state = "ABSENT"
  <2>1. call[c].req \in Requests /\ call[c].req.id \in Ids
    BY <1>1, RunningRequest DEF Create, At
  <2>2. /\ row[call[c].req.id].state = "ABSENT"
        /\ \A j \in Ids : j # call[c].req.id => row'[j] = row[j]
    BY <1>1, <2>1 DEF Create, Reservable, TypeInv, TypeOK
  <2> QED BY <2>2
<1>2. ASSUME NEW r \in Requests, NEW target, Advances(r, target)
      PROVE  i = r.id
  BY <1>2 DEF Advances
<1>3. ASSUME NEW c \in Callers, MarkDispatched(c)
      PROVE  \E r \in Requests : Advances(r, "DISPATCHED")
  <2>1. call[c].req \in Requests BY <1>3, RunningRequest DEF MarkDispatched, At
  <2>2. /\ Updatable(call[c].req, "DISPATCHED") /\ row' = Updated(call[c].req, "DISPATCHED", FALSE)
        /\ UNCHANGED <<pub, calls, platform>>
    BY <1>3 DEF MarkDispatched, recoveryVars
  <2> QED BY <2>1, <2>2, UpdateAdvances
<1>4. ASSUME NEW c \in Callers, Settle(c)
      PROVE  /\ call[c].req \in Requests /\ call[c].out \in {"CONFIRMED", "UNKNOWN"}
             /\ Advances(call[c].req, call[c].out)
  <2>1. call[c].req \in Requests BY <1>4, RunningRequest DEF Settle, At
  <2>2. call[c].out \in {"CONFIRMED", "UNKNOWN"} /\ call[c].ref \in BOOLEAN
    BY <1>4 DEF Settle, At, TypeInv, CallsWF, TypeOK, Call
  <2>3. /\ Updatable(call[c].req, call[c].out) /\ row' = Updated(call[c].req, call[c].out, call[c].ref)
        /\ UNCHANGED <<pub, calls, platform>>
    BY <1>4 DEF Settle, recoveryVars
  <2> QED BY <2>1, <2>2, <2>3, UpdateAdvances
<1>5. ASSUME NEW c \in Callers,
             (\E r \in Requests : Submit(c, r)) \/ Execute(c) \/ LoseCall(c)
      PROVE  Create(c) \/ MarkDispatched(c) \/ Settle(c)
  BY <1>5 DEF Execute, Submit, Lookup, CheckRun, CheckRecovery, CreateRefused, Reread,
              Invoke, ProviderReturns, LoseCall
<1>6. ASSUME NEW w \in Workers, Reconcile(w) \/ LoseReconcile(w)
      PROVE  \E r \in Requests : \E target \in {"RECONCILING", "CONFIRMED", "MANUAL"} :
               /\ Advances(r, target)
               /\ target = "CONFIRMED" => /\ recon[w].pc = "settle" /\ recon[w].out = "CONFIRMED"
                                          /\ r = row[recon[w].id].req
  <2>1. row' # row OBVIOUS
  <2>2. PICK target \in {"RECONCILING", "CONFIRMED", "MANUAL"} :
          /\ recon[w].pc = "settle" => target = recon[w].out
          /\ target = "CONFIRMED" => recon[w].pc = "settle"
          /\ Advances(row[recon[w].id].req, target)
    BY <1>6, <2>1, ReconcileAdvances
  <2>3. row[recon[w].id].req \in Requests BY <2>2 DEF Advances
  <2> QED BY <2>2, <2>3
<1>7. ASSUME RecoveryStep PROVE \E p \in Principals : Settles(p, i)
  <2>1. ASSUME NEW p \in Principals, NEW j \in Ids, Settles(p, j) PROVE i = j
    BY <2>1, SettlementRows DEF Settles
  <2>2. \E p \in Principals : \E j \in Ids : Settles(p, j)
    BY <1>7 DEF RecoveryStep, Settles, BeginRecovery, CreateProof, AuthorizeCompletion,
                CompleteRecovery, RevisePolicy
  <2> QED BY <2>1, <2>2
<1>8. ~(PublisherMoves \/ EvidenceMoves \/ RunStep \/ UNCHANGED vars)
  BY EvidenceQuiet DEF PublisherMoves, PublisherMove, RunStep, Pause, Resume, Takeover,
                       Complete, Continue, HoldRun, vars
<1>9. CASE \E c \in Callers : (\E r \in Requests : Submit(c, r)) \/ Execute(c) \/ LoseCall(c)
  <2>1. PICK c \in Callers : Create(c) \/ MarkDispatched(c) \/ Settle(c) BY <1>5, <1>9
  <2>2. CASE Create(c) BY <1>1, <2>2
  <2>3. CASE MarkDispatched(c) BY <1>2, <1>3, <2>3
  <2>4. CASE Settle(c) BY <1>2, <1>4, <2>4
  <2> QED BY <2>1, <2>2, <2>3, <2>4
<1>10. CASE \E w \in Workers : Reconcile(w) \/ LoseReconcile(w)
  BY <1>2, <1>6, <1>10
<1> QED BY <1>7, <1>8, <1>9, <1>10 DEF Next, EvidenceMoves

(* What a step may do to a reserved row. *)
LEMMA RowIsFinal ==
  ASSUME TypeInv, [Next]_vars, NEW i \in Ids, row[i].state # "ABSENT"
  PROVE  /\ row'[i].req = row[i].req
         /\ row[i].state \in {"CONFIRMED", "ABANDONED_RECONCILED"} =>
              /\ row'[i].state = row[i].state
              /\ row'[i].reconciliation = row[i].reconciliation
              /\ row[i].receipt # None => row'[i].receipt = row[i].receipt
<1>1. CASE row'[i] = row[i] BY <1>1
<1>2. ASSUME NEW r \in Requests, NEW target, Advances(r, target), i = r.id
      PROVE  row'[i].req = row[i].req /\ row[i].state \notin {"CONFIRMED", "ABANDONED_RECONCILED"}
  BY <1>2 DEF Advances
<1>3. ASSUME NEW p \in Principals, ConfirmPublication(p, i)
      PROVE  /\ row'[i].req = row[i].req /\ row[i].state # "ABANDONED_RECONCILED"
             /\ row'[i].state = "CONFIRMED" /\ row[i].receipt = None
             /\ row'[i].reconciliation = row[i].reconciliation
  <2>1. row \in [Ids -> Row] /\ platform.epoch \in Nat
    BY BoundsAssumption DEF TypeInv, TypeOK, Epochs
  <2>2. /\ row' = [row EXCEPT ![i] = Recovered(row[i], p)] /\ row[i].receipt = None
        /\ row[i].state # "ABANDONED_RECONCILED"
    BY <1>3 DEF ConfirmPublication, RecoverablePublicationState
  <2> QED BY <2>1, <2>2, RecoveredRow
<1>4. ASSUME NEW p \in Principals, AbandonPlanned(p, i) \/ AbandonUninvoked(p, i)
      PROVE  row'[i].req = row[i].req /\ row[i].state \notin {"CONFIRMED", "ABANDONED_RECONCILED"}
  <2>1. row[i].state \notin {"CONFIRMED", "ABANDONED_RECONCILED"}
    BY <1>4 DEF AbandonPlanned, CanAbandonPlanned, AbandonUninvoked, RecoverablePublicationState
  <2> QED BY <1>4, <2>1, SettlementRows
<1>5. CASE row'[i] # row[i] BY <1>2, <1>3, <1>4, <1>5, RowSteps DEF Settles
<1> QED BY <1>1, <1>5

(* A reservation keeps its request, and a resolved row its verdict and its *)
(* evidence: no late settlement, reconcile worker or second Recovery       *)
(* request changes it.                                                     *)
THEOREM RowsAreFinal == Spec => ResolvedRowsFinal
<1>1. TypeInv /\ [Next]_vars =>
        [\A i \in Ids : row[i].state # "ABSENT" =>
          /\ row'[i].req = row[i].req
          /\ row[i].state \in {"CONFIRMED", "ABANDONED_RECONCILED"} =>
               /\ row'[i].state = row[i].state
               /\ row'[i].reconciliation = row[i].reconciliation
               /\ row[i].receipt # None => row'[i].receipt = row[i].receipt]_vars
  BY RowIsFinal
<1> QED BY <1>1, TypeInit, TypeStep, PTL DEF Spec, ResolvedRowsFinal

LEMMA RequestsKept ==
  ASSUME TypeInv, [Next]_vars, NEW i \in Ids, row[i].state # "ABSENT"
  PROVE  row'[i].req = row[i].req
<1>1. CASE row'[i] = row[i] BY <1>1
<1>2. CASE row'[i] # row[i]
  <2>1. ASSUME NEW p \in Principals, Settles(p, i) PROVE row'[i].req = row[i].req
    BY <2>1, SettlementRows DEF Settles
  <2> QED BY <1>2, <2>1, RowSteps DEF Advances
<1> QED BY <1>1, <1>2

LEMMA ConfirmStep ==
  TypeInv /\ DispatchInv /\ SlotInv /\ ConfirmInv /\ [Next]_vars => ConfirmInv'
<1> SUFFICES ASSUME TypeInv, DispatchInv, SlotInv, ConfirmInv, [Next]_vars PROVE ConfirmInv'
  OBVIOUS
<1>1. /\ \A i \in Ids : pub[i].witness = "completed" => pub'[i].witness = "completed"
      /\ \A i \in Ids : pub[i].effect => pub'[i].effect
  <2>1. ASSUME NEW c \in Callers, Invoke(c)
        PROVE  \A i \in Ids : /\ pub[i].witness = "completed" => pub'[i].witness = "completed"
                              /\ pub[i].effect => pub'[i].effect
    BY <2>1, InvokeSlots
  <2>2. CASE PublisherMoves BY <2>2, PublisherSlots DEF SlotMoves
  <2>3. CASE pub' = pub BY <2>3
  <2> QED BY <2>1, <2>2, <2>3, QuietSteps
<1>2. \A c \in Callers :
        call'[c].pc = "settle" /\ call'[c].out = "CONFIRMED" /\ Publishes(call'[c].req)
          => pub'[call'[c].req.id].witness = "completed"
  <2> SUFFICES ASSUME NEW d \in Callers, call'[d].pc = "settle", call'[d].out = "CONFIRMED",
                      Publishes(call'[d].req)
               PROVE  pub'[call'[d].req.id].witness = "completed"
    OBVIOUS
  <2>1. CASE call'[d] = call[d]
    <3>1. call[d].req.id \in Ids BY <2>1, RunningRequest
    <3> QED BY <1>1, <2>1, <3>1 DEF ConfirmInv
  <2>2. ASSUME NEW c \in Callers, Retires(c) PROVE call'[d] = call[d]
    BY <2>2 DEF Retires, OwningPCs
  <2>3. ASSUME NEW c \in Callers,
               Create(c) \/ MarkDispatched(c) \/ Invoke(c) \/ Settle(c)
        PROVE  call'[d] = call[d]
    <3>1. CASE \E pc \in {"planned", "invoke", "await"} : Goto(c, pc)
      BY <3>1, GotoCall DEF CallPCs
    <3>2. CASE \E out \in Replies : Reply(c, out) BY <3>2, ReplyCall
    <3>3. call[c].out \in Replies BY DEF TypeInv, TypeOK, Call
    <3> QED BY <2>3, <3>1, <3>2, <3>3 DEF Create, MarkDispatched, Invoke, Settle, Replies
  <2>4. ASSUME NEW c \in Callers, ProviderReturns(c), call'[d] # call[d]
        PROVE  pub'[call'[d].req.id].witness = "completed"
    <3>1. PICK out \in {"CONFIRMED", "UNKNOWN"}, ref \in BOOLEAN :
            /\ Return(c, out, ref) /\ pub' = pub
            /\ out = "CONFIRMED" /\ Publishes(call[c].req)
                 => pub[call[c].req.id].witness = "completed"
      BY <2>4 DEF ProviderReturns, Publishes
    <3>2. /\ call'[c].req = call[c].req /\ call'[c].out = out
          /\ \A e \in Callers : e # c => call'[e] = call[e]
      BY <3>1 DEF Return, TypeInv, TypeOK
    <3> QED BY <2>4, <3>1, <3>2
  <2>5. ASSUME NEW c \in Callers,
               (\E r \in Requests : Submit(c, r)) \/ Execute(c) \/ LoseCall(c)
        PROVE  pub'[call'[d].req.id].witness = "completed"
    BY <2>1, <2>2, <2>3, <2>4, <2>5, ReadsRetire DEF Execute
  <2>6. CASE call' = call BY <2>1, <2>6
  <2>7. ASSUME NEW w \in Workers, Reconcile(w) \/ LoseReconcile(w) PROVE call' = call
    BY <2>7, ReconcileAdvances
  <2>8. CASE RecoveryStep
    <3>1. call' = call
      BY <2>8 DEF RecoveryStep, BeginRecovery, AbandonPlanned, ConfirmPublication,
             AbandonUninvoked, CreateProof, AuthorizeCompletion, CompleteRecovery, RevisePolicy
    <3> QED BY <2>6, <3>1
  <2>9. CASE PublisherMoves \/ EvidenceMoves \/ RunStep \/ UNCHANGED vars
    BY <2>6, <2>9, EvidenceQuiet DEF PublisherMoves, PublisherMove, RunStep, Pause,
                       Resume, Takeover, Complete, Continue,
                      HoldRun, vars
  <2> QED BY <2>5, <2>6, <2>7, <2>8, <2>9 DEF Next, EvidenceMoves
<1>3. \A w \in Workers :
        recon'[w].pc = "settle" /\ recon'[w].out = "CONFIRMED" => ~Publishes(row'[recon'[w].id].req)
  <2> SUFFICES ASSUME NEW v \in Workers, recon'[v].pc = "settle", recon'[v].out = "CONFIRMED"
               PROVE  ~Publishes(row'[recon'[v].id].req)
    OBVIOUS
  <2>1. CASE recon'[v] = recon[v]
    <3>1. recon[v].id \in Ids /\ row[recon[v].id].state # "ABSENT"
      BY <2>1 DEF TypeInv, ReconWF
    <3> QED BY <2>1, <3>1, RequestsKept DEF ConfirmInv
  <2>2. CASE recon'[v] # recon[v]
    <3>1. PICK w \in Workers : Reconcile(w) \/ LoseReconcile(w)
      <4>1. ASSUME NEW c \in Callers,
                   (\E r \in Requests : Submit(c, r)) \/ Execute(c) \/ LoseCall(c)
            PROVE  recon' = recon
        BY <4>1 DEF Execute, Submit, Lookup, CheckRun, CheckRecovery, Create, CreateRefused,
             Reread, MarkDispatched, Invoke, ProviderReturns, Settle, LoseCall
      <4>2. RecoveryStep => recon' = recon
        BY DEF RecoveryStep, BeginRecovery, AbandonPlanned, ConfirmPublication,
             AbandonUninvoked, CreateProof, AuthorizeCompletion, CompleteRecovery, RevisePolicy
      <4>3. PublisherMoves \/ EvidenceMoves \/ RunStep \/ UNCHANGED vars => recon' = recon
        BY EvidenceQuiet DEF PublisherMoves, PublisherMove, RunStep, Pause, Resume, Takeover,
                       Complete, Continue, HoldRun, vars
      <4> QED BY <2>2, <4>1, <4>2, <4>3 DEF Next, EvidenceMoves
    <3>2. recon \in [Workers -> Recon] BY DEF TypeInv, TypeOK
    <3>3. IdleRecon.pc = "idle" BY DEF IdleRecon
    <3>4. ReconcileObserve(w)
      <4>1. ASSUME NEW i \in Ids, ReconcileRead(w, i) PROVE FALSE
        <5>1. recon'[w].pc = "mark" /\ \A u \in Workers : u # w => recon'[u] = recon[u]
          BY <3>2, <4>1 DEF ReconcileRead
        <5> QED BY <2>2, <5>1
      <4>2. CASE MarkReconciling(w)
        <5>1. \A u \in Workers : u # w => recon'[u] = recon[u] BY <3>2, <4>2 DEF MarkReconciling
        <5>2. recon'[w].pc \in {"observe", "idle"}
          BY <3>2, <3>3, <4>2 DEF MarkReconciling, Recon
        <5> QED BY <2>2, <5>1, <5>2
      <4>3. CASE ReconcileSettle(w) \/ LoseReconcile(w)
        BY <2>2, <3>2, <3>3, <4>3 DEF ReconcileSettle, LoseReconcile
      <4> QED BY <3>1, <4>1, <4>2, <4>3 DEF Reconcile
    <3>5. PICK out \in {"CONFIRMED", "MANUAL"}, ref \in BOOLEAN :
            /\ recon' = [recon EXCEPT ![w] =
                  [pc |-> "settle", id |-> recon[w].id, out |-> out, ref |-> ref]]
            /\ out = "CONFIRMED" => row[recon[w].id].req.risk = "OBSERVE"
            /\ row' = row
      BY <3>4 DEF ReconcileObserve
    <3>6. v = w /\ recon'[v].id = recon[w].id /\ out = "CONFIRMED" BY <2>2, <3>2, <3>5
    <3> QED BY <3>5, <3>6 DEF Publishes
  <2> QED BY <2>1, <2>2
<1>4. \A i \in Ids : pub'[i].witness # "none" => Publishes(row'[i].req)
  <2> SUFFICES ASSUME NEW i \in Ids, pub'[i].witness # "none" PROVE Publishes(row'[i].req)
    OBVIOUS
  <2>1. CASE pub[i].witness # "none"
    <3>1. row[i].state # "ABSENT" BY <2>1 DEF SlotInv, DispatchInv
    <3> QED BY <2>1, <3>1, RequestsKept DEF ConfirmInv
  <2>2. CASE pub[i].witness = "none"
    <3>1. PICK c \in Callers : Invoke(c)
      <4>1. ~PublisherMoves BY <2>2, PublisherSlots DEF SlotMoves
      <4> QED BY <2>2, <4>1, QuietSteps
    <3>2. i = call[c].req.id /\ Publishes(call[c].req) BY <2>2, <3>1, InvokeSlots
    <3>3. Owning(c) /\ row' = row BY <3>1 DEF Invoke, At, Owning, OwningPCs
    <3> QED BY <3>2, <3>3 DEF DispatchInv
  <2> QED BY <2>1, <2>2
<1>5. ConfirmedHasEffect'
  <2> SUFFICES ASSUME NEW i \in Ids, row'[i].state = "CONFIRMED", Publishes(row'[i].req)
               PROVE  pub'[i].effect
    BY DEF ConfirmedHasEffect
  <2>1. CASE row[i].state = "CONFIRMED"
    <3>1. row'[i].req = row[i].req BY <2>1, RequestsKept
    <3> QED BY <1>1, <2>1, <3>1 DEF ConfirmInv, ConfirmedHasEffect
  <2>2. CASE row[i].state # "CONFIRMED"
    <3>1. row'[i] # row[i] BY <2>2
    <3>2. ASSUME NEW c \in Callers, Create(c), i = call[c].req.id PROVE FALSE
      <4>1. call[c].req \in Requests BY <3>2, RunningRequest DEF Create, At
      <4>2. row'[i].state = "PLANNED" BY <3>2, <4>1, FreshRow DEF Create, TypeInv, TypeOK
      <4> QED BY <4>2
    <3>3. ASSUME NEW p \in Principals, Settles(p, i) PROVE pub[i].effect
      <4>1. ConfirmPublication(p, i) BY <3>3, SettlementRows DEF Settles
      <4> QED BY <4>1 DEF ConfirmPublication, CompletionEvidence, SlotInv
    <3>4. ASSUME NEW r \in Requests, NEW target, Advances(r, target), i = r.id
          PROVE  target = "CONFIRMED" /\ Publishes(r) /\ row[i].req = r
      BY <3>4 DEF Advances
    <3>5. ASSUME NEW c \in Callers, Settle(c), i = call[c].req.id, call[c].out = "CONFIRMED",
                 Publishes(call[c].req)
          PROVE  pub[i].effect
      BY <3>5 DEF Settle, At, ConfirmInv, SlotInv
    <3>6. ASSUME NEW w \in Workers, recon[w].pc = "settle", recon[w].out = "CONFIRMED"
          PROVE  ~Publishes(row[recon[w].id].req)
      BY <3>6 DEF ConfirmInv
    <3>7. pub[i].effect BY <3>1, <3>2, <3>3, <3>4, <3>5, <3>6, RowSteps
    <3> QED BY <1>1, <3>7
  <2> QED BY <2>1, <2>2
<1> QED BY <1>2, <1>3, <1>4, <1>5 DEF ConfirmInv

LEMMA EffectInit == Init => SlotInv /\ AbandonInv /\ ConfirmInv
<1> SUFFICES ASSUME Init PROVE SlotInv /\ AbandonInv /\ ConfirmInv OBVIOUS
<1>1. \A i \in Ids : row[i].state = "ABSENT" BY DEF Init, AbsentRow
<1>2. \A c \in Callers : call[c].pc = "idle" BY DEF Init
<1>3. \A w \in Workers : recon[w].pc = "idle" BY DEF Init, IdleRecon
<1>4. \A i \in Ids : pub[i].witness = "none" /\ ~pub[i].effect BY DEF Init, PubInit
<1> QED BY <1>1, <1>2, <1>3, <1>4 DEF SlotInv, AbandonInv, ConfirmInv, ConfirmedHasEffect

-----------------------------------------------------------------------------
(* Confirmations that Recovery counts. *)

(* The audit marker is written with the confirmation, by the transaction   *)
(* that confirms; a receipt is the only substitute.                        *)
MarkerInv ==
  \A i \in Ids :
    /\ row[i].marker => row[i].state = "CONFIRMED"
    /\ row[i].state = "CONFIRMED" /\ row[i].receipt = None /\ row[i].req.risk # "OBSERVE"
         => row[i].marker

(* What a settlement transaction of Recovery leaves in its row. *)
LEMMA SettledRow ==
  ASSUME TypeInv, NEW p \in Principals, NEW i \in Ids, Settles(p, i)
  PROVE  /\ p \in reconcilers /\ Recovering /\ row'[i].marker = row[i].marker
         /\ \/ /\ row'[i].state = "CONFIRMED" /\ row'[i].reconciliation = row[i].reconciliation
               /\ row'[i].receipt = [epoch |-> platform.epoch, by |-> p]
            \/ /\ row'[i].state = "ABANDONED_RECONCILED"
               /\ row[i].state \notin {"ABSENT", "CONFIRMED"}
               /\ row'[i].receipt = row[i].receipt
               /\ row'[i].reconciliation.epoch = platform.epoch /\ row'[i].reconciliation.by = p
<1>1. row \in [Ids -> Row] /\ row[i] \in Row /\ platform.epoch \in Nat
  BY BoundsAssumption DEF TypeInv, TypeOK, Epochs
<1>2. p \in reconcilers /\ Recovering
  BY DEF Settles, AbandonPlanned, CanAbandonPlanned, ConfirmPublication, AbandonUninvoked,
         FromEarlierEpoch
<1>3. CASE ConfirmPublication(p, i)
  <2>1. row' = [row EXCEPT ![i] = Recovered(row[i], p)] BY <1>3 DEF ConfirmPublication
  <2>2. row'[i] = Recovered(row[i], p) BY <1>1, <2>1
  <2> QED BY <1>1, <1>2, <2>2, RecoveredRow
<1>4. CASE AbandonPlanned(p, i) \/ AbandonUninvoked(p, i)
  <2>1. PICK kind \in {"PLANNED_ABANDONMENT", "NOT_INVOKED"} :
          row' = [row EXCEPT ![i] = Abandoned(row[i], kind, p)]
    BY <1>4 DEF AbandonPlanned, AbandonUninvoked
  <2>2. row[i].state \notin {"ABSENT", "CONFIRMED"}
    BY <1>4 DEF AbandonPlanned, CanAbandonPlanned, AbandonUninvoked, RecoverablePublicationState
  <2>3. row'[i] = Abandoned(row[i], kind, p) BY <1>1, <2>1
  <2>4. /\ Abandoned(row[i], kind, p).state = "ABANDONED_RECONCILED"
        /\ Abandoned(row[i], kind, p).receipt = row[i].receipt
        /\ Abandoned(row[i], kind, p).marker = row[i].marker
    BY <1>1 DEF Abandoned, Row
  <2>5. /\ Abandoned(row[i], kind, p).reconciliation.epoch = platform.epoch
        /\ Abandoned(row[i], kind, p).reconciliation.by = p
    BY <1>1 DEF Abandoned, Row
  <2> QED BY <1>2, <2>2, <2>3, <2>4, <2>5
<1> QED BY <1>3, <1>4 DEF Settles

(* What a reservation leaves in its row. *)
LEMMA ReservedRow ==
  ASSUME TypeInv, NEW c \in Callers, Create(c)
  PROVE  /\ call[c].req \in Requests /\ call[c].req.id \in Ids /\ ~continued
         /\ row'[call[c].req.id] = PlannedRow(call[c].req)
<1>1. call[c].req \in Requests /\ call[c].req.id \in Ids BY RunningRequest DEF Create, At
<1>2. row' = [row EXCEPT ![call[c].req.id] = PlannedRow(call[c].req)] /\ ~continued
  BY DEF Create, Admitted
<1> QED BY <1>1, <1>2 DEF TypeInv, TypeOK

LEMMA MarkerStep == TypeInv /\ MarkerInv /\ [Next]_vars => MarkerInv'
<1> SUFFICES ASSUME TypeInv, MarkerInv, [Next]_vars, NEW i \in Ids
             PROVE  /\ row'[i].marker => row'[i].state = "CONFIRMED"
                    /\ (/\ row'[i].state = "CONFIRMED" /\ row'[i].receipt = None
                        /\ row'[i].req.risk # "OBSERVE") => row'[i].marker
  BY DEF MarkerInv
<1>1. CASE row'[i] = row[i] BY <1>1 DEF MarkerInv
<1>2. ASSUME NEW c \in Callers, Create(c), i = call[c].req.id
      PROVE  ~row'[i].marker /\ row'[i].state = "PLANNED"
  BY <1>2, ReservedRow, FreshRow
<1>3. ASSUME NEW r \in Requests, NEW target, Advances(r, target), i = r.id
      PROVE  /\ row'[i].req = r /\ row'[i].state = target /\ ~row[i].marker
             /\ row'[i].marker = (target = "CONFIRMED" /\ r.risk # "OBSERVE")
  <2>1. ~row[i].marker BY <1>3 DEF Advances, MarkerInv
  <2>2. row[i].marker \in BOOLEAN BY DEF TypeInv, TypeOK, Row
  <2>3. /\ row'[i].req = r /\ row'[i].state = target
        /\ row'[i].marker = (row[i].marker \/ (target = "CONFIRMED" /\ r.risk # "OBSERVE"))
    BY <1>3 DEF Advances
  <2> QED BY <2>1, <2>2, <2>3
<1>4. ASSUME NEW p \in Principals, Settles(p, i)
      PROVE  /\ row'[i].marker => row'[i].state = "CONFIRMED"
             /\ row'[i].state = "CONFIRMED" => row'[i].receipt # None
  <2>1. row'[i].state = "CONFIRMED" => row'[i].receipt = [epoch |-> platform.epoch, by |-> p]
    BY <1>4, SettledRow
  <2>2. [epoch |-> platform.epoch, by |-> p] \in Settlement
    BY BoundsAssumption DEF TypeInv, TypeOK, Epochs, Settlement
  <2>3. row'[i].state = "CONFIRMED" => row'[i].receipt # None
    BY <2>1, <2>2, SettlementAssumption
  <2>4. row'[i].state # "CONFIRMED" => ~row'[i].marker BY <1>4, SettledRow DEF MarkerInv
  <2> QED BY <2>3, <2>4
<1>5. CASE row'[i] # row[i] BY <1>2, <1>3, <1>4, <1>5, RowSteps
<1> QED BY <1>1, <1>5

-----------------------------------------------------------------------------
(* Independent completion. *)

(* A completion request under way was authorized, and nothing that its     *)
(* authorization rested on can change before it commits: no reconciler is  *)
(* completing, and a completed epoch takes no settlement any more.         *)
CompletionInv ==
  /\ \A p \in Principals : completing[p] # 0 =>
       p \notin reconcilers /\ Independent(p, completing[p])
  /\ \A e \in Epochs : completedBy[e] # None =>
       /\ e < platform.epoch \/ (e = platform.epoch /\ ~Recovering)
       /\ Independent(completedBy[e], e)

(* Who takes part in an epoch by a step is a reconciler, and the epoch is  *)
(* the one that is being reconciled.                                       *)
LEMMA ParticipationGrows ==
  ASSUME TypeInv, [Next]_vars, NEW p, NEW e, Participated(p, e)', ~Participated(p, e)
  PROVE  p \in reconcilers /\ Recovering /\ e = platform.epoch
<1>1. PICK i \in Ids :
        \/ row'[i].receipt # None /\ row'[i].receipt.epoch = e /\ row'[i].receipt.by = p
        \/ /\ row'[i].reconciliation # None
           /\ row'[i].reconciliation.epoch = e /\ row'[i].reconciliation.by = p
  BY DEF Participated
<1>2. \/ row'[i].receipt # row[i].receipt
      \/ row'[i].reconciliation # row[i].reconciliation
  BY <1>1 DEF Participated
<1>3. ASSUME NEW c \in Callers, Create(c), i = call[c].req.id PROVE FALSE
  BY <1>1, <1>3, ReservedRow, FreshRow
<1>4. ASSUME NEW r \in Requests, NEW target, Advances(r, target), i = r.id PROVE FALSE
  BY <1>2, <1>4 DEF Advances
<1>5. PICK q \in Principals : Settles(q, i) BY <1>2, <1>3, <1>4, RowSteps
<1>6. CASE /\ row'[i].reconciliation = row[i].reconciliation
           /\ row'[i].receipt = [epoch |-> platform.epoch, by |-> q]
  <2>1. row'[i].receipt.epoch = e /\ row'[i].receipt.by = p BY <1>1, <1>6 DEF Participated
  <2>2. e = platform.epoch /\ p = q BY <1>6, <2>1
  <2> QED BY <1>5, <2>2, SettledRow
<1>7. CASE /\ row'[i].receipt = row[i].receipt
           /\ row'[i].reconciliation.epoch = platform.epoch /\ row'[i].reconciliation.by = q
  <2>1. row'[i].reconciliation.epoch = e /\ row'[i].reconciliation.by = p
    BY <1>1, <1>7 DEF Participated
  <2> QED BY <1>5, <1>7, <2>1, SettledRow
<1> QED BY <1>5, <1>6, <1>7, SettledRow

(* The steps that touch the recovery state, besides the settlements. *)
LEMMA RecoveryMoves ==
  ASSUME TypeInv, [Next]_vars
  PROVE  \/ UNCHANGED <<platform, proof, reconcilers, completing, completedBy>>
         \/ BeginRecovery
         \/ \E p \in Principals : CreateProof(p) \/ CompleteRecovery(p)
         \/ \E p \in Principals, e \in Epochs : AuthorizeCompletion(p, e)
         \/ \E s \in SUBSET Principals : RevisePolicy(s)
<1>1. ASSUME NEW c \in Callers,
             (\E r \in Requests : Submit(c, r)) \/ Execute(c) \/ LoseCall(c)
      PROVE  UNCHANGED recoveryVars
  BY <1>1 DEF Execute, Submit, Lookup, CheckRun, CheckRecovery, Create, CreateRefused, Reread,
              MarkDispatched, Invoke, ProviderReturns, Settle, LoseCall
<1>2. ASSUME NEW w \in Workers, Reconcile(w) \/ LoseReconcile(w) PROVE UNCHANGED recoveryVars
  BY <1>2 DEF Reconcile, ReconcileRead, MarkReconciling, ReconcileObserve, ReconcileSettle,
              LoseReconcile
<1>3. ASSUME NEW p \in Principals, NEW i \in Ids, Settles(p, i) PROVE UNCHANGED recoveryVars
  BY <1>3 DEF Settles, AbandonPlanned, ConfirmPublication, AbandonUninvoked
<1>4. ASSUME PublisherMoves \/ EvidenceMoves \/ RunStep \/ UNCHANGED vars
      PROVE  UNCHANGED <<platform, proof, reconcilers, completing, completedBy>>
  BY <1>4, EvidenceQuiet DEF PublisherMoves, PublisherMove, RunStep, Pause, Resume, Takeover,
                             Complete, Continue, HoldRun, vars, recoveryVars
<1>5. CASE RecoveryStep BY <1>3, <1>5 DEF RecoveryStep, Settles, recoveryVars
<1> QED BY <1>1, <1>2, <1>4, <1>5 DEF Next, EvidenceMoves, recoveryVars

LEMMA CompletionStep == TypeInv /\ CompletionInv /\ [Next]_vars => CompletionInv'
<1> SUFFICES ASSUME TypeInv, CompletionInv, [Next]_vars PROVE CompletionInv' OBVIOUS
<1>1. /\ platform.epoch \in Nat /\ platform.epoch \in Epochs /\ 0 \in Epochs
      /\ completing \in [Principals -> Epochs] /\ proof \in [Epochs -> Principals \cup {None}]
      /\ completedBy \in [Epochs -> Principals \cup {None}]
  BY BoundsAssumption DEF TypeInv, TypeOK, Epochs
<1>2. \A e \in Epochs : e \in Nat BY DEF Epochs
<1>3. \A p, e : Participated(p, e)' /\ ~Participated(p, e) =>
        p \in reconcilers /\ Recovering /\ e = platform.epoch
  BY ParticipationGrows
<1>4. CASE UNCHANGED <<platform, proof, reconcilers, completing, completedBy>>
  <2>1. UNCHANGED <<platform, proof, reconcilers, completing, completedBy>> BY <1>4
  <2>2. \A p, e : Independent(p, e) /\ ~(p \in reconcilers /\ Recovering /\ e = platform.epoch)
                => Independent(p, e)'
    BY <1>3, <2>1 DEF Independent
  <2>3. ASSUME NEW p \in Principals, completing'[p] # 0
        PROVE  p \notin reconcilers' /\ Independent(p, completing[p])'
    <3>1. PICK e : e = completing[p] OBVIOUS
    <3>2. p \notin reconcilers /\ Independent(p, e) BY <2>1, <2>3, <3>1 DEF CompletionInv
    <3>3. Independent(p, e)' BY <2>2, <3>2
    <3>4. e = completing'[p] BY <2>1, <3>1
    <3> QED BY <2>1, <3>2, <3>3, <3>4
  <2>4. ASSUME NEW e \in Epochs, completedBy'[e] # None
        PROVE  /\ (e < platform.epoch \/ (e = platform.epoch /\ ~Recovering))'
               /\ Independent(completedBy[e], e)'
    <3>1. PICK p : p = completedBy[e] OBVIOUS
    <3>2. /\ Independent(p, e)
          /\ e < platform.epoch \/ (e = platform.epoch /\ ~Recovering)
      BY <2>1, <2>4, <3>1 DEF CompletionInv
    <3>3. Independent(p, e)' BY <1>1, <1>2, <2>2, <3>2
    <3>4. p = completedBy'[e] BY <2>1, <3>1
    <3>5. (e < platform.epoch \/ (e = platform.epoch /\ ~Recovering))'
      BY <2>1, <3>2 DEF Recovering
    <3> QED BY <3>3, <3>4, <3>5
  <2> QED BY <2>3, <2>4 DEF CompletionInv
<1>5. ASSUME row' = row PROVE \A p, e : Participated(p, e)' <=> Participated(p, e)
  BY <1>5 DEF Participated
<1>6. CASE BeginRecovery
  <2>1. /\ platform'.epoch = platform.epoch + 1
        /\ UNCHANGED <<row, proof, reconcilers, completing, completedBy>>
    BY <1>6 DEF BeginRecovery
  <2>2. \A e \in Epochs : completedBy[e] # None => e < platform'.epoch
    BY <1>1, <1>2, <2>1 DEF CompletionInv
  <2> QED BY <1>5, <2>1, <2>2 DEF CompletionInv, Independent
<1>7. ASSUME NEW p \in Principals, CreateProof(p) PROVE CompletionInv'
  <2>1. /\ proof' = [proof EXCEPT ![platform.epoch] = p] /\ proof[platform.epoch] = None
        /\ UNCHANGED <<row, platform, reconcilers, completing, completedBy>>
    BY <1>7 DEF CreateProof
  <2>2. \A e \in Epochs : proof[e] # None => proof'[e] = proof[e] BY <1>1, <2>1
  <2>3. \A q, e : e \in Epochs /\ Independent(q, e) => Independent(q, e)'
    BY <1>5, <2>1, <2>2 DEF Independent
  <2> QED BY <1>1, <2>1, <2>3 DEF CompletionInv, Recovering
<1>8. ASSUME NEW p \in Principals, NEW e \in Epochs, AuthorizeCompletion(p, e)
      PROVE  CompletionInv'
  <2>1. /\ completing' = [completing EXCEPT ![p] = e] /\ p \notin reconcilers /\ Independent(p, e)
        /\ UNCHANGED <<row, platform, proof, reconcilers, completedBy>>
    BY <1>8 DEF AuthorizeCompletion
  <2>2. \A q, f : Independent(q, f)' <=> Independent(q, f) BY <1>5, <2>1 DEF Independent
  <2>3. completing'[p] = e /\ \A q \in Principals : q # p => completing'[q] = completing[q]
    BY <1>1, <2>1
  <2> QED BY <2>1, <2>2, <2>3 DEF CompletionInv, Recovering
<1>9. ASSUME NEW p \in Principals, CompleteRecovery(p) PROVE CompletionInv'
  <2>1. /\ completing[p] # 0 /\ completing' = [completing EXCEPT ![p] = 0]
        /\ UNCHANGED <<row, proof, reconcilers>>
    BY <1>9 DEF CompleteRecovery
  <2>2. \A q, f : Independent(q, f)' <=> Independent(q, f) BY <1>5, <2>1 DEF Independent
  <2>3. completing'[p] = 0 /\ \A q \in Principals : q # p => completing'[q] = completing[q]
    BY <1>1, <2>1
  <2>4. ASSUME NEW q \in Principals, completing'[q] # 0
        PROVE  q \notin reconcilers' /\ Independent(q, completing[q])'
    <3>1. PICK e : e = completing[q] OBVIOUS
    <3>2. e = completing'[q] BY <2>3, <2>4, <3>1
    <3>3. q \notin reconcilers /\ Independent(q, e) BY <2>4, <3>1, <3>2 DEF CompletionInv
    <3>4. Independent(q, e)' BY <2>2, <3>3
    <3> QED BY <2>1, <3>2, <3>3, <3>4
  <2>5. ASSUME NEW e \in Epochs, completedBy'[e] # None
        PROVE  /\ (e < platform.epoch \/ (e = platform.epoch /\ ~Recovering))'
               /\ Independent(completedBy[e], e)'
    <3>1. PICK q : q = completedBy'[e] OBVIOUS
    <3>2. CASE completedBy'[e] = completedBy[e] /\ UNCHANGED platform
      <4>1. /\ Independent(q, e)
            /\ e < platform.epoch \/ (e = platform.epoch /\ ~Recovering)
        BY <2>5, <3>1, <3>2 DEF CompletionInv
      <4>2. Independent(q, e)' BY <2>2, <4>1
      <4>3. (e < platform.epoch \/ (e = platform.epoch /\ ~Recovering))'
        BY <3>2, <4>1 DEF Recovering
      <4> QED BY <3>1, <4>2, <4>3
    <3>3. CASE ~UNCHANGED <<platform, completedBy>>
      <4>1. /\ completing[p] = platform.epoch /\ platform' = [platform EXCEPT !.mode = "NORMAL"]
            /\ completedBy' = [completedBy EXCEPT ![platform.epoch] = p]
        BY <1>9, <3>3 DEF CompleteRecovery
      <4>2. platform'.epoch = platform.epoch /\ platform'.mode = "NORMAL"
        BY <4>1 DEF TypeInv, TypeOK
      <4>3. Independent(p, platform.epoch) BY <2>1, <4>1 DEF CompletionInv
      <4>4. Independent(q, e) /\ (e < platform.epoch \/ e = platform.epoch)
        <5>1. CASE e = platform.epoch BY <1>1, <3>1, <4>1, <4>3, <5>1
        <5>2. CASE e # platform.epoch
          <6>1. q = completedBy[e] BY <1>1, <3>1, <4>1, <5>2
          <6> QED BY <2>5, <3>1, <5>2, <6>1 DEF CompletionInv
        <5> QED BY <5>1, <5>2
      <4>5. Independent(q, e)' BY <2>2, <4>4
      <4>6. (e < platform.epoch \/ (e = platform.epoch /\ ~Recovering))'
        BY <4>2, <4>4 DEF Recovering
      <4> QED BY <3>1, <4>5, <4>6
    <3> QED BY <3>2, <3>3
  <2> QED BY <2>4, <2>5 DEF CompletionInv
<1>10. ASSUME NEW s \in SUBSET Principals, RevisePolicy(s) PROVE CompletionInv'
  <2>1. /\ \A p \in Principals : completing[p] = 0
        /\ UNCHANGED <<row, platform, proof, completing, completedBy>>
    BY <1>10 DEF RevisePolicy
  <2>2. \A q, f : Independent(q, f)' <=> Independent(q, f) BY <1>5, <2>1 DEF Independent
  <2> QED BY <2>1, <2>2 DEF CompletionInv, Recovering
<1> QED BY <1>4, <1>6, <1>7, <1>8, <1>9, <1>10, RecoveryMoves

-----------------------------------------------------------------------------
(* What clients are told, and continued runs. *)

(* Equal digests are of requests for one operation. *)
LEMMA DigestNamesOperation ==
  ASSUME NEW q, NEW r, RequestDigest(q) = RequestDigest(r)
  PROVE  q.id = r.id
BY DEF RequestDigest

(* A key that is reserved answers CONFIRMED only for the same request. *)
LEMMA ReplayIsTrue ==
  ASSUME TypeInv, NEW r \in Requests, NEW i \in ByKey(r.key), ReplayReply(i, r) = "CONFIRMED"
  PROVE  i = r.id /\ row[i].state = "CONFIRMED" /\ RequestDigest(row[i].req) = RequestDigest(r)
<1>1. i \in Ids /\ row[i].state # "ABSENT" BY DEF ByKey
<1>2. row[i].req.id = i BY <1>1 DEF TypeInv, RowsWF
<1>3. RequestDigest(row[i].req) = RequestDigest(r) /\ row[i].state = "CONFIRMED"
  BY DEF ReplayReply
<1> QED BY <1>2, <1>3, DigestNamesOperation

(* A call that is told CONFIRMED by a step is told what the row says.  *)
LEMMA ToldConfirmed ==
  ASSUME TypeInv, [Next]_vars, NEW c \in Callers, call'[c] # call[c],
         call'[c].pc = "done", call'[c].out = "CONFIRMED"
  PROVE  /\ call[c].req \in Requests /\ call[c].req.id \in Ids /\ call'[c].req = call[c].req
         /\ row'[call[c].req.id].state = "CONFIRMED"
         /\ RequestDigest(row'[call[c].req.id].req) = RequestDigest(call[c].req)
<1>1. PICK d \in Callers : (\E r \in Requests : Submit(d, r)) \/ Execute(d) \/ LoseCall(d)
  <2>1. ASSUME NEW w \in Workers, Reconcile(w) \/ LoseReconcile(w) PROVE call' = call
    BY <2>1, ReconcileAdvances
  <2>2. ASSUME RecoveryStep PROVE call' = call
    BY <2>2 DEF RecoveryStep, BeginRecovery, AbandonPlanned, ConfirmPublication, AbandonUninvoked,
                CreateProof, AuthorizeCompletion, CompleteRecovery, RevisePolicy
  <2>3. ASSUME PublisherMoves \/ EvidenceMoves \/ RunStep \/ UNCHANGED vars PROVE call' = call
    BY <2>3, EvidenceQuiet DEF PublisherMoves, PublisherMove, RunStep, Pause, Resume, Takeover,
                       Complete, Continue, HoldRun, vars
  <2> QED BY <2>1, <2>2, <2>3 DEF Next, EvidenceMoves
<1>2. call \in [Callers -> Call] BY DEF TypeInv, TypeOK
<1>3. c = d
  BY <1>1, <1>2 DEF Submit, Execute, Lookup, CheckRun, CheckRecovery, Create, CreateRefused,
     Reread, MarkDispatched, Invoke, ProviderReturns, Settle, LoseCall, Goto, Reply, Return
<1>4. ASSUME NEW pc \in CallPCs, Goto(c, pc) PROVE pc = "done" BY <1>4, GotoCall
<1>5. ASSUME NEW out \in Replies, Reply(c, out)
      PROVE  out = "CONFIRMED" /\ call'[c].req = call[c].req
  BY <1>5, ReplyCall
<1>5a. ~Reply(c, "DENIED") /\ ~Reply(c, "ERROR") /\ ~Reply(c, "UNRESOLVED")
  <2>1. "DENIED" \in Replies /\ "ERROR" \in Replies /\ "UNRESOLVED" \in Replies BY DEF Replies
  <2>2. ASSUME Reply(c, "DENIED") PROVE FALSE BY <1>5, <2>1, <2>2
  <2>3. ASSUME Reply(c, "ERROR") PROVE FALSE BY <1>5, <2>1, <2>3
  <2>4. ASSUME Reply(c, "UNRESOLVED") PROVE FALSE BY <1>5, <2>1, <2>4
  <2> QED BY <2>2, <2>3, <2>4
<1>6. ASSUME NEW r \in Requests, Submit(c, r) PROVE FALSE
  <2>1. call'[c].pc = "lookup" BY <1>2, <1>6 DEF Submit
  <2> QED BY <2>1
<1>7. ~ProviderReturns(c) BY <1>2 DEF ProviderReturns, Return
<1>8. /\ ~CheckRun(c) /\ ~CheckRecovery(c) /\ ~Create(c) /\ ~CreateRefused(c) /\ ~Invoke(c)
      /\ ~LoseCall(c) /\ ~MarkDispatched(c)
  <2>1. /\ "checkRecovery" \in CallPCs /\ "create" \in CallPCs /\ "planned" \in CallPCs
        /\ "reread" \in CallPCs /\ "await" \in CallPCs /\ "lost" \in CallPCs
        /\ "invoke" \in CallPCs
    BY DEF CallPCs
  <2>2. /\ ~Goto(c, "checkRecovery") /\ ~Goto(c, "create") /\ ~Goto(c, "planned")
        /\ ~Goto(c, "reread") /\ ~Goto(c, "await") /\ ~Goto(c, "lost") /\ ~Goto(c, "invoke")
    BY <1>4, <2>1
  <2> QED BY <1>5a, <2>2 DEF CheckRun, CheckRecovery, Create, CreateRefused, Invoke, LoseCall,
             MarkDispatched
<1>9. Lookup(c) \/ Reread(c) \/ Settle(c) BY <1>1, <1>3, <1>6, <1>7, <1>8 DEF Execute
<1>10. call[c].req \in Requests /\ call[c].req.id \in Ids
  BY <1>9, RunningRequest DEF Lookup, Reread, Settle, At
<1>11. CASE Lookup(c)
  <2>1. row' = row BY <1>11 DEF Lookup
  <2>2. PICK i \in ByKey(call[c].req.key) : Reply(c, ReplayReply(i, call[c].req))
    BY <1>4, <1>11 DEF Lookup, CallPCs
  <2>3. ReplayReply(i, call[c].req) \in Replies BY <1>10, ReplayReplyType
  <2>4. ReplayReply(i, call[c].req) = "CONFIRMED" /\ call'[c].req = call[c].req
    BY <1>5, <2>2, <2>3
  <2> QED BY <1>10, <2>1, <2>4, ReplayIsTrue
<1>12. CASE Reread(c)
  <2>1. row' = row BY <1>12 DEF Reread
  <2>2. ~Reply(c, "ERROR") BY <1>5a
  <2>3. PICK i \in ByKey(call[c].req.key) : Reply(c, ReplayReply(i, call[c].req))
    BY <1>12, <2>2 DEF Reread
  <2>4. ReplayReply(i, call[c].req) \in Replies BY <1>10, ReplayReplyType
  <2>5. ReplayReply(i, call[c].req) = "CONFIRMED" /\ call'[c].req = call[c].req
    BY <1>5, <2>3, <2>4
  <2> QED BY <1>10, <2>1, <2>5, ReplayIsTrue
<1>13. CASE Settle(c)
  <2>1. call[c].out \in {"CONFIRMED", "UNKNOWN"} /\ call[c].ref \in BOOLEAN
    BY <1>13 DEF Settle, At, TypeInv, CallsWF, TypeOK, Call
  <2>2. ~Reply(c, "UNRESOLVED") BY <1>5a
  <2>3. /\ Updatable(call[c].req, call[c].out) /\ Reply(c, call[c].out)
        /\ row' = Updated(call[c].req, call[c].out, call[c].ref)
        /\ UNCHANGED <<pub, calls, platform>>
    BY <1>13, <2>2 DEF Settle, recoveryVars
  <2>4. Advances(call[c].req, call[c].out) BY <1>10, <2>1, <2>3, UpdateAdvances
  <2>5. call[c].out = "CONFIRMED" /\ call'[c].req = call[c].req
    BY <1>5, <2>1, <2>3 DEF Replies, LedgerStates
  <2> QED BY <1>10, <2>4, <2>5 DEF Advances
<1> QED BY <1>9, <1>11, <1>12, <1>13

LEMMA HonestStep == TypeInv /\ HonestReceipt /\ [Next]_vars => HonestReceipt'
<1> SUFFICES ASSUME TypeInv, HonestReceipt, [Next]_vars, NEW c \in Callers,
                    call'[c].pc = "done", call'[c].out = "CONFIRMED"
             PROVE  /\ row'[call'[c].req.id].state = "CONFIRMED"
                    /\ RequestDigest(row'[call'[c].req.id].req) = RequestDigest(call'[c].req)
  BY DEF HonestReceipt, At
<1>1. CASE call'[c] = call[c]
  <2>1. /\ call[c].req.id \in Ids /\ row[call[c].req.id].state = "CONFIRMED"
        /\ RequestDigest(row[call[c].req.id].req) = RequestDigest(call[c].req)
    BY <1>1, RunningRequest DEF HonestReceipt, At
  <2>2. /\ row'[call[c].req.id].state = "CONFIRMED"
        /\ row'[call[c].req.id].req = row[call[c].req.id].req
    BY <2>1, RowIsFinal
  <2> QED BY <1>1, <2>1, <2>2
<1>2. CASE call'[c] # call[c] BY <1>2, ToldConfirmed
<1> QED BY <1>1, <1>2

LEMMA ContinuedStep ==
  TypeInv /\ ContinuedRunIsSettled /\ [Next]_vars => ContinuedRunIsSettled'
<1> SUFFICES ASSUME TypeInv, ContinuedRunIsSettled, [Next]_vars, continued', NEW i \in Ids
             PROVE  row'[i].state \in {"ABSENT", "CONFIRMED"}
  BY DEF ContinuedRunIsSettled
<1>1. CASE Continue BY <1>1 DEF Continue, ContinuationSafe
<1>2. CASE ~Continue
  <2>1. continued
    <3>1. ASSUME NEW c \in Callers,
                 (\E r \in Requests : Submit(c, r)) \/ Execute(c) \/ LoseCall(c)
          PROVE  UNCHANGED authorityVars
      BY <3>1 DEF Execute, Submit, Lookup, CheckRun, CheckRecovery, Create, CreateRefused, Reread,
                  MarkDispatched, Invoke, ProviderReturns, Settle, LoseCall
    <3>2. ASSUME NEW w \in Workers, Reconcile(w) \/ LoseReconcile(w)
          PROVE  UNCHANGED authorityVars
      BY <3>2 DEF Reconcile, ReconcileRead, MarkReconciling, ReconcileObserve, ReconcileSettle,
                  LoseReconcile
    <3>3. ASSUME RecoveryStep PROVE UNCHANGED authorityVars
      BY <3>3 DEF RecoveryStep, BeginRecovery, AbandonPlanned, ConfirmPublication,
                  AbandonUninvoked, CreateProof, AuthorizeCompletion, CompleteRecovery, RevisePolicy
    <3>4. ASSUME PublisherMoves \/ EvidenceMoves \/ UNCHANGED vars PROVE UNCHANGED authorityVars
      BY <3>4, EvidenceQuiet DEF PublisherMoves, PublisherMove, vars
    <3>5. ASSUME RunStep PROVE continued' = continued
      BY <1>2, <3>5 DEF RunStep, Pause, Resume, Takeover, Complete, HoldRun
    <3> QED BY <3>1, <3>2, <3>3, <3>4, <3>5 DEF Next, EvidenceMoves, authorityVars
  <2>2. row[i].state \in {"ABSENT", "CONFIRMED"} BY <2>1 DEF ContinuedRunIsSettled
  <2>3. CASE row'[i] = row[i] BY <2>2, <2>3
  <2>4. CASE row'[i] # row[i]
    <3>1. ASSUME NEW c \in Callers, Create(c) PROVE FALSE BY <2>1, <3>1, ReservedRow
    <3>2. ASSUME NEW r \in Requests, NEW target, Advances(r, target), i = r.id PROVE FALSE
      BY <2>2, <3>2 DEF Advances
    <3>3. ASSUME NEW p \in Principals, Settles(p, i) PROVE row'[i].state = "CONFIRMED"
      BY <2>2, <3>3, SettledRow
    <3> QED BY <2>4, <3>1, <3>2, <3>3, RowSteps
  <2> QED BY <2>3, <2>4
<1> QED BY <1>1, <1>2

LEMMA AccountInit == Init => MarkerInv /\ CompletionInv /\ HonestReceipt /\ ContinuedRunIsSettled
<1> SUFFICES ASSUME Init
             PROVE  MarkerInv /\ CompletionInv /\ HonestReceipt /\ ContinuedRunIsSettled
  OBVIOUS
<1>1. MarkerInv BY DEF Init, AbsentRow, MarkerInv
<1>2. CompletionInv BY DEF Init, CompletionInv
<1>3. HonestReceipt BY DEF Init, HonestReceipt, At
<1>4. ContinuedRunIsSettled BY DEF Init, ContinuedRunIsSettled
<1> QED BY <1>1, <1>2, <1>3, <1>4

-----------------------------------------------------------------------------
(* The inductive invariant, and what follows from it. *)

IInv ==
  /\ TypeInv /\ DispatchInv /\ EpochInv /\ SlotInv /\ AbandonInv /\ ConfirmInv
  /\ MarkerInv /\ CompletionInv /\ HonestReceipt /\ ContinuedRunIsSettled

(* The ledger, the callers in flight and the Publisher's slots stay in     *)
(* step: who may still dispatch, which slot may still take effect, and     *)
(* which epoch an open row belongs to, in every reachable state.           *)
THEOREM Inductive == Spec => []IInv
<1>1. Init => IInv BY TypeInit, DispatchInit, EpochInit, EffectInit, AccountInit DEF IInv
<1>2. IInv /\ [Next]_vars => IInv'
  BY TypeStep, DispatchStep, EpochStep, SlotStep, AbandonStep, ConfirmStep, MarkerStep,
     CompletionStep, HonestStep, ContinuedStep DEF IInv
<1> QED BY <1>1, <1>2, PTL DEF Spec

(* ABANDONED_RECONCILED is final and truthful: such an operation has no    *)
(* effect and its slot can never produce one.                              *)
THEOREM AbandonedIsTruthful == Spec => []AbandonedHasNoEffect
<1>1. IInv => AbandonedHasNoEffect
  BY DEF IInv, AbandonInv, SlotInv, AbandonedHasNoEffect
<1> QED BY <1>1, Inductive, PTL

(* CONFIRMED on an operation that publishes means that the effect exists. *)
THEOREM ConfirmedIsTruthful == Spec => []ConfirmedHasEffect
<1>1. IInv => ConfirmedHasEffect BY DEF IInv, ConfirmInv
<1> QED BY <1>1, Inductive, PTL

(* Every confirmation of a possible effect carries the marker of its own   *)
(* settlement or a receipt, so Recovery can count it.                      *)
THEOREM ConfirmationsCount == Spec => []ConfirmationsQualified
<1>1. IInv => ConfirmationsQualified
  BY DEF IInv, MarkerInv, ConfirmationsQualified, Qualified
<1> QED BY <1>1, Inductive, PTL

(* Who completed a recovery epoch neither proved it nor settled anything   *)
(* in it, then or since, whatever policy revisions happened.               *)
THEOREM CompletersAreIndependent == Spec => []IndependentCompletion
<1>1. IInv => IndependentCompletion
  BY DEF IInv, CompletionInv, Independent, IndependentCompletion
<1> QED BY <1>1, Inductive, PTL

(* A client that was told CONFIRMED, first or on replay, was told so about *)
(* its own request, and the ledger says so from then on.                   *)
THEOREM ReceiptsAreHonest == Spec => []HonestReceipt
<1>1. IInv => HonestReceipt BY DEF IInv
<1> QED BY <1>1, Inductive, PTL

(* A run that has a successor never has an open operation again: callers   *)
(* admitted before the continuation are refused by the admission at commit.*)
THEOREM ContinuedRunsAreSettled == Spec => []ContinuedRunIsSettled
<1>1. IInv => ContinuedRunIsSettled BY DEF IInv
<1> QED BY <1>1, Inductive, PTL

(* After a recovery has completed no operation of an earlier epoch takes   *)
(* effect, whatever calls of that epoch are still running.                 *)
THEOREM NoEffectAfterRecovery == Spec => NoLateEffect
<1>1. ASSUME IInv, [Next]_vars, NEW i \in Ids, ~pub[i].effect, pub'[i].effect
      PROVE  ~(platform.mode = "NORMAL" /\ row[i].req.re < platform.epoch)
  <2>1. pub[i].witness = "entered"
    <3>1. ASSUME NEW c \in Callers, Invoke(c) PROVE FALSE BY <1>1, <3>1, InvokeSlots DEF IInv
    <3>2. PublisherMoves BY <1>1, <3>1, QuietSteps DEF IInv
    <3> QED BY <1>1, <3>2, PublisherSlots DEF IInv, SlotMoves
  <2>2. row[i].state # "ABSENT" BY <1>1, <2>1 DEF IInv, SlotInv, DispatchInv
  <2>3. row[i].state # "ABANDONED_RECONCILED" BY <1>1, <2>1 DEF IInv, AbandonInv
  <2>4. row[i].state # "CONFIRMED" BY <1>1, <2>1 DEF IInv, ConfirmInv, ConfirmedHasEffect
  <2> QED BY <1>1, <2>2, <2>3, <2>4 DEF IInv, EpochInv, RecoveryClosesEarlierEpochs, Resolved
<1>2. IInv /\ [Next]_vars =>
        [\A i \in Ids : ~pub[i].effect /\ pub'[i].effect =>
           ~(platform.mode = "NORMAL" /\ row[i].req.re < platform.epoch)]_vars
  BY <1>1
<1> QED BY <1>2, Inductive, PTL DEF Spec, NoLateEffect
=============================================================================
