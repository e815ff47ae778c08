--------------------------- MODULE WorkerLaneProofs ---------------------------
(***************************************************************************)
(* Proofs about WorkerLane, for any number of messages, dispatchers and    *)
(* workers: what the outbox lease, the inbox lease and the execution       *)
(* permit each guarantee, and that nothing settled is ever changed.        *)
(***************************************************************************)
EXTENDS WorkerLane, FiniteSetTheorems, TLAPS

(* A dispatcher inside Dispatch holds the exact lease of a message it has  *)
(* a handler for, alone: the row lock keeps every other claim away.  What  *)
(* it is about to settle as DISPATCHED was handled by that very attempt.   *)
DispatchHolds ==
  /\ \A d \in Dispatchers :
       /\ dispatcher[d].pc # "idle" => dispatcher[d].batch # <<>>
       /\ InDispatch(d) => ExactLease(d) /\ Registered(d)
       /\ dispatcher[d].pc = "settle" /\ dispatcher[d].result = "DISPATCHED" =>
            Head(dispatcher[d].batch).attempt \in handled[Head(dispatcher[d].batch).id]
  /\ \A d, e \in Dispatchers :
       InDispatch(d) /\ InDispatch(e) /\ Head(dispatcher[d].batch).id = Head(dispatcher[e].batch).id
         => d = e

(* A settled message is neither leased nor waiting for a retry. *)
SettledRests ==
  \A n \in Messages : outbox[n].state \in {"DISPATCHED", "DEAD_LETTER"} => ~outbox[n].live /\ outbox[n].due

(* An inbox row that is decided has no live lease, and a receipt says      *)
(* PREPARED exactly when its worker may prepare.                           *)
InboxRests ==
  \A n \in Messages :
    /\ inbox[n].state \in {"INPUT_VALIDATED", "REVOKED"} => ~inbox[n].live
    /\ inbox[n].state = "INPUT_VALIDATED" =>
         inbox[n].receipt.prepared = (inbox[n].owner \in Preparers)

(* A worker that does something does it for a message. *)
WorkersHaveMessages == \A w \in Workers : worker[w].pc # "idle" => worker[w].id \in Messages

(* An execution is reserved only for an admitted run, and the engine runs  *)
(* between the one answer to StartOffline and any report of its end.       *)
EngineOnce ==
  /\ \A n \in Messages :
       execution[n].state = "ABSENT" => engine[n] = 0
  /\ \A n \in Messages :
       execution[n].state # "ABSENT" => inbox[n].state = "INPUT_VALIDATED"
  /\ \A w \in Workers : At(w, "execute") =>
       execution[worker[w].id].state # "ABSENT" /\ engine[worker[w].id] = 0
  /\ \A w, v \in Workers :
       At(w, "execute") /\ At(v, "execute") /\ worker[w].id = worker[v].id => w = v
  /\ \A w \in Workers : worker[w].pc \in {"refresh", "finish", "refinish"} => engine[worker[w].id] = 1
  /\ \A q \in late : q.op = "finish" => engine[q.id] = 1

(* The inductive invariant, a part of it for each part of the lane. *)
OutboxInv == DispatchHolds /\ SettledRests /\ SettledByHolder /\ UnderAuthority
InboxInv == InboxRests /\ ReceiptIsHolders
ExecutionInv == EngineOnce /\ ExecutedOnce
LaneInv == TypeOK /\ WorkersHaveMessages /\ OutboxInv /\ InboxInv /\ ExecutionInv


-----------------------------------------------------------------------------
(* Types. *)

Decided == {"INPUT_VALIDATED", "REVOKED"}
Settled == {"DISPATCHED", "DEAD_LETTER"}
Ended == {"FINISHED", "ABANDONED_RECONCILED"}

(* The names of the states and the bounds used below are members of the    *)
(* sets the rows range over.                                               *)
LEMMA Members ==
  /\ \A s \in {"ABSENT", "PENDING", "LEASED", "DISPATCHED", "DEAD_LETTER"} : s \in OutboxStates
  /\ \A s \in {"ABSENT", "PENDING", "LEASED", "INPUT_VALIDATED", "REVOKED"} : s \in InboxStates
  /\ \A s \in {"ABSENT", "AUTHORIZED", "UNKNOWN", "FINISHED", "ABANDONED_RECONCILED"} : s \in ExecutionStates
  /\ \A s \in {"DISPATCHED", "PENDING", "DEAD_LETTER"} : s \in Results
  /\ Results \subseteq OutboxStates
  /\ \A pc \in {"idle", "next", "handling", "detached", "settle"} : pc \in DispatcherPCs
  /\ \A pc \in {"idle", "renew", "prepare", "rerenew", "report", "rereport", "admitted", "execute",
                "refresh", "finish", "refinish", "fail"} : pc \in WorkerPCs
  /\ \A op \in {"renew", "report", "refresh", "finish", "fail"} : op \in CallOps
  /\ None \in Holders /\ \A h \in Names : h \in Holders
  /\ 0 \in Attempts /\ \A a \in Attempts : a < MaxClaims => a + 1 \in Attempts
  /\ 0 \in Generations /\ \A g \in Generations : g < MaxGeneration => g + 1 \in Generations
  /\ 0 \in Epochs /\ \A e \in Epochs : e < MaxRecoveryEpoch => e + 1 \in Epochs
  /\ \A topic \in Topics : topic \in {"run.started", "work.created", "custom"}
  /\ Attempts \subseteq Nat /\ Generations \subseteq Nat /\ Epochs \subseteq Nat
  BY LaneBounds DEF OutboxStates, InboxStates, ExecutionStates, Results, DispatcherPCs, WorkerPCs,
     CallOps, Holders, Attempts, Generations, Epochs, Topics

(* A dispatcher with a batch holds a lease of an existing message. *)
LEMMA HeadIsLease ==
  ASSUME TypeOK, DispatchHolds, NEW d \in Dispatchers, dispatcher[d].pc # "idle"
  PROVE  /\ dispatcher[d].batch \in Seq(Leases) /\ dispatcher[d].batch # <<>>
         /\ Head(dispatcher[d].batch) \in Leases
         /\ Head(dispatcher[d].batch).id \in Messages /\ Head(dispatcher[d].batch).attempt \in Attempts
         /\ Tail(dispatcher[d].batch) \in Seq(Leases)
  <1>1. dispatcher[d] \in DispatcherState /\ dispatcher[d].batch # <<>>
    BY DEF TypeOK, DispatchHolds
  <1>2. dispatcher[d].batch \in Seq(Leases)
    BY <1>1 DEF DispatcherState
  <1>3. Head(dispatcher[d].batch) \in Leases /\ Tail(dispatcher[d].batch) \in Seq(Leases)
    BY <1>1, <1>2
  <1> QED
    BY <1>1, <1>2, <1>3 DEF Leases

LEMMA NoBatchTyped == NoBatch \in DispatcherState
  <1>1. <<>> \in Seq(Leases)
    OBVIOUS
  <1> QED
    BY <1>1, Members DEF NoBatch, DispatcherState

(* NextMessage and EndBatch. *)
LEMMA BatchMoves ==
  ASSUME TypeOK, DispatchHolds, NEW d \in Dispatchers, dispatcher[d].pc # "idle",
         NextMessage(d) \/ EndBatch(d)
  PROVE  /\ dispatcher' \in [Dispatchers -> DispatcherState]
         /\ dispatcher'[d].pc \in {"idle", "next"}
         /\ dispatcher'[d].pc # "idle" => dispatcher'[d].batch # <<>>
         /\ \A e \in Dispatchers : e # d => dispatcher'[e] = dispatcher[e]
  <1> DEFINE rest == Tail(dispatcher[d].batch)
             moved == [NoBatch EXCEPT !.pc = "next", !.batch = rest]
  <1>1. rest \in Seq(Leases)
    BY HeadIsLease
  <1>2. moved \in DispatcherState /\ moved.pc = "next" /\ moved.batch = rest
    BY <1>1, Members, NoBatchTyped DEF NoBatch, DispatcherState
  <1>3. dispatcher \in [Dispatchers -> DispatcherState]
    BY DEF TypeOK
  <1>4. PICK next \in {NoBatch, moved} :
          /\ dispatcher' = [dispatcher EXCEPT ![d] = next]
          /\ next = moved => rest # <<>> \/ next = NoBatch
    <2>1. CASE EndBatch(d)
      BY <2>1 DEF EndBatch
    <2>2. CASE NextMessage(d) /\ rest = <<>>
      BY <2>2 DEF NextMessage
    <2>3. CASE NextMessage(d) /\ rest # <<>>
      BY <2>3 DEF NextMessage
    <2> QED
      BY <2>1, <2>2, <2>3
  <1>5. NoBatch \in DispatcherState /\ NoBatch.pc = "idle"
    BY NoBatchTyped DEF NoBatch
  <1> HIDE DEF moved, rest
  <1> QED
    BY <1>2, <1>3, <1>4, <1>5


-----------------------------------------------------------------------------
(* The outbox. *)

(* What a step of the outbox does to the rows: settled rows stay, and a    *)
(* row settled now rests; only a handled message other than run.started    *)
(* becomes DISPATCHED.                                                     *)
RowsMove ==
  \A n \in Messages :
    /\ outbox[n].state \in Settled => outbox'[n] = outbox[n]
    /\ outbox'[n].state \in Settled => ~outbox'[n].live /\ outbox'[n].due
    /\ outbox[n].state # "ABSENT" => outbox'[n].topic = outbox[n].topic
    /\ outbox'[n].state = "DISPATCHED" /\ outbox[n].state # "DISPATCHED" =>
         outbox'[n].topic # "run.started" /\ outbox'[n].attempt \in handled'[n]
    /\ handled[n] \subseteq handled'[n]

(* The lease a dispatcher works under is as it was. *)
SameLease(n) ==
  /\ outbox'[n].state = outbox[n].state /\ outbox'[n].owner = outbox[n].owner
  /\ outbox'[n].attempt = outbox[n].attempt /\ outbox'[n].topic = outbox[n].topic
  /\ outbox'[n].epoch = outbox[n].epoch

(* And to a dispatcher inside Dispatch: it stays with its message, whose   *)
(* lease nobody touches.                                                   *)
DispatchesStay ==
  /\ \A e \in Dispatchers : dispatcher'[e].pc # "idle" => dispatcher'[e].batch # <<>>
  /\ \A e \in Dispatchers : InDispatch(e)' =>
       /\ InDispatch(e) /\ dispatcher'[e].batch = dispatcher[e].batch
       /\ SameLease(Head(dispatcher[e].batch).id)
       /\ dispatcher'[e].pc = "settle" /\ dispatcher'[e].result = "DISPATCHED" =>
            Head(dispatcher[e].batch).attempt \in handled'[Head(dispatcher[e].batch).id]

(* Such a step, with the platform and the inbox as they were, keeps the    *)
(* outbox's part of the invariant.                                         *)
LEMMA OutboxMoves ==
  ASSUME TypeOK, OutboxInv, TypeOK', RowsMove, DispatchesStay,
         UNCHANGED platform, UNCHANGED inbox
  PROVE  OutboxInv'
  <1> USE DEF OutboxInv
  <1>0. \A e \in Dispatchers : InDispatch(e)' =>
           Head(dispatcher[e].batch).id \in Messages /\ dispatcher[e].pc # "idle"
    <2> SUFFICES ASSUME NEW e \in Dispatchers, InDispatch(e)'
                 PROVE  Head(dispatcher[e].batch).id \in Messages /\ dispatcher[e].pc # "idle"
      OBVIOUS
    <2>1. dispatcher[e].pc # "idle"
      BY DEF DispatchesStay, InDispatch
    <2> QED
      BY <2>1, HeadIsLease
  <1>1. DispatchHolds'
    <2>1. \A e \in Dispatchers : InDispatch(e)' => ExactLease(e)' /\ Registered(e)'
      BY <1>0 DEF DispatchHolds, DispatchesStay, SameLease, ExactLease, Registered
    <2>2. \A e \in Dispatchers :
            dispatcher'[e].pc = "settle" /\ dispatcher'[e].result = "DISPATCHED" =>
              Head(dispatcher'[e].batch).attempt \in handled'[Head(dispatcher'[e].batch).id]
      BY DEF DispatchesStay, InDispatch
    <2>3. \A d, e \in Dispatchers :
            InDispatch(d)' /\ InDispatch(e)' /\ Head(dispatcher'[d].batch).id = Head(dispatcher'[e].batch).id
              => d = e
      BY DEF DispatchHolds, DispatchesStay
    <2> QED
      BY <2>1, <2>2, <2>3 DEF DispatchHolds, DispatchesStay
  <1>2. SettledRests'
    BY DEF SettledRests, RowsMove, Settled
  <1>3. SettledByHolder'
    <2> SUFFICES ASSUME NEW n \in Messages
                 PROVE  /\ inbox'[n].state # "ABSENT" <=>
                             outbox'[n].state = "DISPATCHED" /\ outbox'[n].topic = "run.started"
                        /\ outbox'[n].state = "DISPATCHED" =>
                             outbox'[n].topic = "run.started" \/ outbox'[n].attempt \in handled'[n]
      BY DEF SettledByHolder
    <2>1. CASE outbox[n].state = "DISPATCHED"
      BY <2>1 DEF SettledByHolder, RowsMove, Settled
    <2>2. CASE outbox[n].state # "DISPATCHED"
      BY <2>2 DEF SettledByHolder, RowsMove
    <2> QED
      BY <2>1, <2>2
  <1>4. UnderAuthority'
    <2> SUFFICES ASSUME NEW d \in Dispatchers, InDispatch(d)'
                 PROVE  Classify(outbox'[Head(dispatcher'[d].batch).id].topic) # "OBSERVE" =>
                          /\ Normal'
                          /\ outbox'[Head(dispatcher'[d].batch).id].epoch = platform'.epoch
      BY DEF UnderAuthority
    <2>1. InDispatch(d) /\ dispatcher'[d].batch = dispatcher[d].batch
      BY DEF DispatchesStay
    <2>2. PICK n : n = Head(dispatcher[d].batch).id
      OBVIOUS
    <2>3. outbox'[n].topic = outbox[n].topic /\ outbox'[n].epoch = outbox[n].epoch
      BY <2>2 DEF DispatchesStay, SameLease
    <2>4. Classify(outbox[n].topic) # "OBSERVE" => Normal /\ outbox[n].epoch = platform.epoch
      BY <2>1, <2>2 DEF UnderAuthority
    <2> QED
      BY <1>0, <2>1, <2>2, <2>3, <2>4 DEF Normal
  <1> QED
    BY <1>1, <1>2, <1>3, <1>4

(* A row that is not locked is nobody's inside Dispatch. *)
LEMMA LockedRow ==
  ASSUME NEW n, ~RowLocked(n), NEW e \in Dispatchers, InDispatch(e)
  PROVE  Head(dispatcher[e].batch).id # n
  BY DEF RowLocked

(* Mutate, the expiry of a lease and the end of a delay. *)
LEMMA RowSteps ==
  ASSUME LaneInv, NEW n \in Messages, NEW topic \in Topics,
         Mutate(n, topic) \/ ExpireOutboxLease(n) \/ RetryDue(n)
  PROVE  /\ outbox' \in [Messages -> OutboxRow]
         /\ RowsMove /\ DispatchesStay
         /\ UNCHANGED <<platform, dispatcher, handled, inbox, execution, worker, late, engine>>
  <1> USE DEF LaneInv, OutboxInv
  <1>0. outbox \in [Messages -> OutboxRow] /\ outbox[n] \in OutboxRow
    BY DEF TypeOK
  <1>1. UNCHANGED <<platform, dispatcher, handled, inbox, execution, worker, late, engine>>
    BY DEF Mutate, ExpireOutboxLease, RetryDue, laneVars, hostVars
  <1>2. PICK row \in OutboxRow :
          /\ outbox' = [outbox EXCEPT ![n] = row]
          /\ outbox[n].state \notin Settled /\ row.state \notin Settled
          /\ outbox[n].state = "ABSENT" \/ (/\ row.topic = outbox[n].topic /\ row.state = outbox[n].state
                                            /\ row.owner = outbox[n].owner /\ row.epoch = outbox[n].epoch
                                            /\ row.attempt = outbox[n].attempt)
    <2>1. CASE Mutate(n, topic)
      <3> DEFINE row == [outbox[n] EXCEPT !.state = "PENDING", !.topic = topic]
      <3>1. row \in OutboxRow /\ row.state = "PENDING"
        BY <1>0, Members DEF OutboxRow
      <3>2. outbox' = [outbox EXCEPT ![n] = row] /\ outbox[n].state = "ABSENT"
        BY <2>1, <1>0 DEF Mutate
      <3> HIDE DEF row
      <3> QED
        BY <3>1, <3>2 DEF Settled
    <2>2. CASE ExpireOutboxLease(n)
      <3> DEFINE row == [outbox[n] EXCEPT !.live = FALSE]
      <3>1. row \in OutboxRow /\ row.state = outbox[n].state /\ row.topic = outbox[n].topic
               /\ row.owner = outbox[n].owner /\ row.epoch = outbox[n].epoch /\ row.attempt = outbox[n].attempt
        BY <1>0 DEF OutboxRow
      <3>2. outbox' = [outbox EXCEPT ![n] = row] /\ outbox[n].state \notin Settled
        BY <2>2, <1>0 DEF ExpireOutboxLease, SettledRests, Settled
      <3> HIDE DEF row
      <3> QED
        BY <3>1, <3>2
    <2>3. CASE RetryDue(n)
      <3> DEFINE row == [outbox[n] EXCEPT !.due = TRUE]
      <3>1. row \in OutboxRow /\ row.state = outbox[n].state /\ row.topic = outbox[n].topic
               /\ row.owner = outbox[n].owner /\ row.epoch = outbox[n].epoch /\ row.attempt = outbox[n].attempt
        BY <1>0 DEF OutboxRow
      <3>2. outbox' = [outbox EXCEPT ![n] = row] /\ outbox[n].state \notin Settled
        BY <2>3, <1>0 DEF RetryDue, SettledRests, Settled
      <3> HIDE DEF row
      <3> QED
        BY <3>1, <3>2
    <2> QED
      BY <2>1, <2>2, <2>3
  <1>3. outbox' \in [Messages -> OutboxRow]
    BY <1>0, <1>2
  <1>4. RowsMove
    BY <1>0, <1>1, <1>2 DEF RowsMove, SettledRests, Settled
  <1>5. DispatchesStay
    <2>1. \A e \in Dispatchers : InDispatch(e) =>
            Head(dispatcher[e].batch).id \in Messages /\ outbox[Head(dispatcher[e].batch).id].state = "LEASED"
      BY HeadIsLease DEF InDispatch, DispatchHolds, ExactLease
    <2>2. \A e \in Dispatchers : InDispatch(e) => SameLease(Head(dispatcher[e].batch).id)
      BY <1>0, <1>2, <2>1 DEF SameLease
    <2> QED
      BY <1>1, <2>2 DEF DispatchesStay, DispatchHolds, InDispatch
  <1> QED
    BY <1>1, <1>3, <1>4, <1>5


(* A freshly leased row. *)
LEMMA LeasedTyped ==
  ASSUME TypeOK, NEW n \in Messages, NEW owner \in Holders, outbox[n].attempt < MaxClaims
  PROVE  /\ Leased(n, owner) \in OutboxRow /\ Leased(n, owner).state = "LEASED"
         /\ Leased(n, owner).topic = outbox[n].topic /\ Leased(n, owner).due = outbox[n].due
  <1>1. outbox[n] \in OutboxRow /\ platform.epoch \in Epochs
    BY DEF TypeOK
  <1>2. outbox[n].attempt + 1 \in Attempts
    BY <1>1, Members DEF OutboxRow
  <1> QED
    BY <1>1, <1>2, Members DEF Leased, OutboxRow

(* Claim takes rows nobody has locked, and leaves the claimer outside      *)
(* Dispatch, with a batch.                                                 *)
LEMMA ClaimStep ==
  ASSUME LaneInv, NEW d \in Dispatchers, Claim(d)
  PROVE  /\ outbox' \in [Messages -> OutboxRow] /\ dispatcher' \in [Dispatchers -> DispatcherState]
         /\ RowsMove /\ DispatchesStay
  <1> USE DEF LaneInv, OutboxInv
  <1> DEFINE eligible == {n \in Messages : Claimable(n) /\ (Normal \/ Classify(outbox[n].topic) = "OBSERVE")}
             claimed == {n \in eligible : Cardinality({m \in eligible : m < n}) < Limit}
             inOrder == {ids \in [1 .. Cardinality(claimed) -> claimed] :
                           \A i, j \in DOMAIN ids : i < j => ids[i] < ids[j]}
             Taken(ids) == [i \in 1 .. Cardinality(claimed) |->
                              [id |-> ids[i], attempt |-> outbox[ids[i]].attempt + 1]]
  <1>0. outbox \in [Messages -> OutboxRow] /\ dispatcher \in [Dispatchers -> DispatcherState]
    BY DEF TypeOK
  <1>1. /\ dispatcher[d].pc = "idle" /\ claimed # {} /\ UNCHANGED <<handled, inbox, platform>>
        /\ outbox' = [n \in Messages |-> IF n \in claimed THEN Leased(n, Owner[d]) ELSE outbox[n]]
        /\ \E ids \in inOrder : dispatcher' = [dispatcher EXCEPT ![d] =
             [NoBatch EXCEPT !.pc = "next", !.batch = Taken(ids)]]
    BY DEF Claim, laneVars
  <1>2. claimed \subseteq Messages
    OBVIOUS
  <1>3. Cardinality(claimed) \in Nat \ {0}
    <2>1. IsFiniteSet(Messages)
      BY FS_Interval, LaneBounds DEF Messages
    <2>2. IsFiniteSet(claimed)
      <3> HIDE DEF claimed
      <3> QED
        BY <1>2, <2>1, FS_Subset
    <2> HIDE DEF claimed
    <2> QED
      BY <1>1, <2>2, FS_CardinalityType, FS_EmptySet
  <1>4. \A n \in claimed :
          /\ ~RowLocked(n) /\ outbox[n].attempt < MaxClaims
          /\ outbox[n].state \in {"PENDING", "LEASED"}
    BY DEF Claimable
  <1> HIDE DEF claimed
  <1>5. \A n \in claimed :
          /\ Leased(n, Owner[d]) \in OutboxRow /\ Leased(n, Owner[d]).state = "LEASED"
          /\ Leased(n, Owner[d]).topic = outbox[n].topic
    BY <1>2, <1>4, OwnerAssumption, LeasedTyped, Members
  <1>6. outbox' \in [Messages -> OutboxRow]
    BY <1>0, <1>1, <1>5
  <1>7. RowsMove
    BY <1>0, <1>1, <1>2, <1>4, <1>5 DEF RowsMove, SettledRests, Settled
  <1>8. PICK batch \in Seq(Leases) :
          batch # <<>> /\ dispatcher' = [dispatcher EXCEPT ![d] = [NoBatch EXCEPT !.pc = "next", !.batch = batch]]
    <2>1. PICK ids \in inOrder : dispatcher' = [dispatcher EXCEPT ![d] =
             [NoBatch EXCEPT !.pc = "next", !.batch = Taken(ids)]]
      BY <1>1
    <2>2. \A i \in 1 .. Cardinality(claimed) : ids[i] \in claimed
      OBVIOUS
    <2>3. \A i \in 1 .. Cardinality(claimed) : outbox[ids[i]].attempt + 1 \in Attempts
      <3> TAKE i \in 1 .. Cardinality(claimed)
      <3>1. ids[i] \in Messages /\ outbox[ids[i]].attempt < MaxClaims
        BY <2>2, <1>2, <1>4
      <3>2. outbox[ids[i]].attempt \in Attempts
        BY <3>1, <1>0 DEF OutboxRow
      <3> QED
        BY <3>1, <3>2, Members
    <2>4. \A i \in 1 .. Cardinality(claimed) : Taken(ids)[i] \in Leases
      BY <2>2, <2>3, <1>2 DEF Leases
    <2>5. Taken(ids) \in Seq(Leases)
      BY <1>3, <2>4
    <2>6. 1 \in DOMAIN Taken(ids)
      BY <1>3
    <2>7. Taken(ids) # <<>>
      BY <2>6
    <2> HIDE DEF Taken
    <2> QED
      BY <2>1, <2>5, <2>7
  <1>9. /\ dispatcher' \in [Dispatchers -> DispatcherState]
        /\ dispatcher'[d].pc = "next" /\ dispatcher'[d].batch # <<>>
        /\ \A e \in Dispatchers : e # d => dispatcher'[e] = dispatcher[e]
    <2>1. [NoBatch EXCEPT !.pc = "next", !.batch = batch] \in DispatcherState
      BY NoBatchTyped, Members DEF NoBatch, DispatcherState
    <2> QED
      BY <1>0, <1>8, <2>1, NoBatchTyped DEF NoBatch
  <1>10. DispatchesStay
    <2>1. \A e \in Dispatchers : InDispatch(e)' => e # d /\ InDispatch(e) /\ dispatcher'[e] = dispatcher[e]
      BY <1>9 DEF InDispatch
    <2>2. \A e \in Dispatchers : InDispatch(e) =>
            Head(dispatcher[e].batch).id \in Messages /\ Head(dispatcher[e].batch).id \notin claimed
      BY <1>4, LockedRow, HeadIsLease DEF InDispatch
    <2>3. \A e \in Dispatchers : InDispatch(e) => SameLease(Head(dispatcher[e].batch).id)
      BY <1>0, <1>1, <2>2 DEF SameLease
    <2> QED
      BY <1>1, <1>9, <2>1, <2>3 DEF DispatchesStay, DispatchHolds
  <1> QED
    BY <1>6, <1>7, <1>9, <1>10

(* What settleOutbox writes. *)
LEMMA SettleStep ==
  ASSUME LaneInv, NEW d \in Dispatchers, dispatcher[d].pc # "idle", ExactLease(d),
         NEW result \in Results, Settle(d, result),
         NEW n \in Messages, n = Head(dispatcher[d].batch).id
  PROVE  /\ outbox' \in [Messages -> OutboxRow]
         /\ outbox[n].state = "LEASED" /\ outbox'[n].state = result
         /\ outbox'[n].topic = outbox[n].topic /\ outbox'[n].attempt = Head(dispatcher[d].batch).attempt
         /\ ~outbox'[n].live /\ outbox'[n].due = (result # "PENDING")
         /\ \A m \in Messages : m # n => outbox'[m] = outbox[m]
  <1>0. outbox \in [Messages -> OutboxRow] /\ outbox[n] \in OutboxRow
    BY DEF LaneInv, TypeOK
  <1> DEFINE row == [outbox[n] EXCEPT !.state = result, !.owner = None, !.live = FALSE,
                                      !.due = result # "PENDING"]
  <1>1. outbox' = [outbox EXCEPT ![n] = row]
    BY <1>0 DEF Settle
  <1>2. /\ row \in OutboxRow /\ row.state = result /\ row.topic = outbox[n].topic
        /\ row.attempt = outbox[n].attempt /\ ~row.live /\ row.due = (result # "PENDING")
    <2>1. result \in OutboxStates /\ None \in Holders
      BY Members
    <2> QED
      BY <1>0, <2>1 DEF OutboxRow
  <1>3. outbox[n].state = "LEASED" /\ outbox[n].attempt = Head(dispatcher[d].batch).attempt
    BY DEF ExactLease
  <1> HIDE DEF row
  <1> QED
    BY <1>0, <1>1, <1>2, <1>3


(* DeadLetterUnhandled, DispatchReturns and DispatcherDies: at most the    *)
(* row at the head of the batch is settled, by the dispatcher that holds   *)
(* its lease while nobody else has it locked, and the dispatcher leaves    *)
(* Dispatch.                                                               *)
LEMMA SettlingSteps ==
  ASSUME LaneInv, NEW d \in Dispatchers,
         DeadLetterUnhandled(d) \/ DispatchReturns(d) \/ DispatcherDies(d)
  PROVE  /\ outbox' \in [Messages -> OutboxRow] /\ dispatcher' \in [Dispatchers -> DispatcherState]
         /\ RowsMove /\ DispatchesStay
         /\ UNCHANGED <<platform, handled, inbox, execution, worker, late, engine, run>>
  <1> USE DEF LaneInv, OutboxInv
  <1>0. UNCHANGED <<platform, handled, inbox, execution, worker, late, engine, run>>
    BY DEF DeadLetterUnhandled, DispatchReturns, DispatcherDies, laneVars, hostVars
  <1>1. dispatcher[d].pc # "idle"
    BY DEF DeadLetterUnhandled, DispatchReturns, DispatcherDies, AtMessage
  <1>2. NextMessage(d) \/ EndBatch(d)
    BY DEF DeadLetterUnhandled, DispatchReturns, DispatcherDies
  <1>3. /\ dispatcher' \in [Dispatchers -> DispatcherState]
        /\ dispatcher'[d].pc \in {"idle", "next"}
        /\ dispatcher'[d].pc # "idle" => dispatcher'[d].batch # <<>>
        /\ \A e \in Dispatchers : e # d => dispatcher'[e] = dispatcher[e]
    BY <1>1, <1>2, BatchMoves
  <1>4. PICK n \in Messages : n = Head(dispatcher[d].batch).id
    BY <1>1, HeadIsLease
  <1>5. \A e \in Dispatchers : e # d /\ InDispatch(e) =>
          Head(dispatcher[e].batch).id \in Messages /\
          (Head(dispatcher[e].batch).id = n => UNCHANGED outbox)
    <2> SUFFICES ASSUME NEW e \in Dispatchers, e # d, InDispatch(e)
                 PROVE  Head(dispatcher[e].batch).id \in Messages /\
                        (Head(dispatcher[e].batch).id = n => UNCHANGED outbox)
      OBVIOUS
    <2>1. Head(dispatcher[e].batch).id \in Messages
      BY HeadIsLease DEF InDispatch
    <2>2. CASE DeadLetterUnhandled(d)
      BY <2>1, <2>2, <1>4, LockedRow DEF DeadLetterUnhandled, AtMessage
    <2>3. CASE DispatchReturns(d)
      <3>1. InDispatch(d)
        BY <2>3 DEF DispatchReturns, InDispatch
      <3> QED
        BY <2>1, <3>1, <1>4 DEF DispatchHolds
    <2>4. CASE DispatcherDies(d)
      BY <2>1, <2>4 DEF DispatcherDies
    <2> QED
      BY <2>1, <2>2, <2>3, <2>4
  <1>6. CASE UNCHANGED outbox
    <2>1. outbox' \in [Messages -> OutboxRow] /\ RowsMove
      BY <1>0, <1>6 DEF TypeOK, RowsMove, SettledRests, Settled
    <2>2. DispatchesStay
      BY <1>0, <1>3, <1>6 DEF DispatchesStay, DispatchHolds, SameLease, InDispatch
    <2> QED
      BY <1>0, <1>3, <2>1, <2>2
  <1>7. CASE \E result \in Results :
               /\ Settle(d, result) /\ ExactLease(d)
               /\ result = "DISPATCHED" =>
                    outbox[n].topic # "run.started" /\ Head(dispatcher[d].batch).attempt \in handled[n]
    <2>1. PICK result \in Results :
               /\ Settle(d, result) /\ ExactLease(d)
               /\ result = "DISPATCHED" =>
                    outbox[n].topic # "run.started" /\ Head(dispatcher[d].batch).attempt \in handled[n]
      BY <1>7
    <2>2. /\ outbox' \in [Messages -> OutboxRow]
          /\ outbox[n].state = "LEASED" /\ outbox'[n].state = result
          /\ outbox'[n].topic = outbox[n].topic /\ outbox'[n].attempt = Head(dispatcher[d].batch).attempt
          /\ ~outbox'[n].live /\ outbox'[n].due = (result # "PENDING")
          /\ \A m \in Messages : m # n => outbox'[m] = outbox[m]
      BY <1>1, <1>4, <2>1, SettleStep
    <2>3. RowsMove
      BY <1>0, <2>1, <2>2 DEF RowsMove, SettledRests, Settled
    <2>4. \A e \in Dispatchers : e # d /\ InDispatch(e) => SameLease(Head(dispatcher[e].batch).id)
      BY <1>5, <2>2 DEF SameLease
    <2>5. DispatchesStay
      BY <1>0, <1>3, <2>4 DEF DispatchesStay, DispatchHolds, InDispatch
    <2> QED
      BY <1>0, <1>3, <2>2, <2>3, <2>5
  <1>8. UNCHANGED outbox \/ \E result \in Results :
               /\ Settle(d, result) /\ ExactLease(d)
               /\ result = "DISPATCHED" =>
                    outbox[n].topic # "run.started" /\ Head(dispatcher[d].batch).attempt \in handled[n]
    <2>1. CASE DeadLetterUnhandled(d)
      <3>1. UNCHANGED outbox \/ (Settle(d, "DEAD_LETTER") /\ ExactLease(d))
        BY <2>1 DEF DeadLetterUnhandled, Settleable
      <3>2. "DEAD_LETTER" \in Results
        BY Members
      <3> QED
        BY <3>1, <3>2
    <2>2. CASE DispatchReturns(d)
      <3>1. dispatcher[d].pc = "settle" /\ InDispatch(d)
        BY <2>2 DEF DispatchReturns, InDispatch
      <3>2. dispatcher[d].result \in Results
        BY DEF TypeOK, DispatcherState
      <3>3. UNCHANGED outbox \/ (Settle(d, dispatcher[d].result) /\ ExactLease(d))
        BY <2>2 DEF DispatchReturns, Settleable
      <3>4. outbox[n].topic # "run.started"
        BY <1>4, <3>1, HandlersAssumption DEF DispatchHolds, Registered
      <3>5. dispatcher[d].result = "DISPATCHED" => Head(dispatcher[d].batch).attempt \in handled[n]
        BY <1>4, <3>1 DEF DispatchHolds
      <3> QED
        BY <3>2, <3>3, <3>4, <3>5
    <2>3. CASE DispatcherDies(d)
      BY <2>3 DEF DispatcherDies
    <2> QED
      BY <2>1, <2>2, <2>3
  <1> QED
    BY <1>6, <1>7, <1>8

(* A handler returns: only the dispatcher that ran it moves, and a success *)
(* is recorded for its attempt.                                            *)
LEMMA HandlerStep ==
  ASSUME LaneInv, NEW d \in Dispatchers, HandlerReturns(d)
  PROVE  /\ UNCHANGED <<platform, outbox, run, inbox, execution, worker, late, engine>>
         /\ dispatcher' \in [Dispatchers -> DispatcherState]
         /\ handled' \in [Messages -> SUBSET Attempts]
         /\ RowsMove /\ DispatchesStay
  <1> USE DEF LaneInv, OutboxInv
  <1>0. UNCHANGED <<platform, outbox, run, inbox, execution, worker, late, engine>> /\ dispatcher[d].pc = "handling"
    BY DEF HandlerReturns, laneVars, hostVars
  <1>1. dispatcher \in [Dispatchers -> DispatcherState] /\ handled \in [Messages -> SUBSET Attempts]
    BY DEF TypeOK
  <1>2. PICK lease \in Leases : lease = Head(dispatcher[d].batch)
    BY <1>0, HeadIsLease
  <1>3. lease.id \in Messages /\ lease.attempt \in Attempts
    BY DEF Leases
  <1>4. PICK result \in Results :
          /\ dispatcher' = [dispatcher EXCEPT ![d].pc = "settle", ![d].result = result]
          /\ IF result = "DISPATCHED"
             THEN handled' = [handled EXCEPT ![lease.id] = @ \cup {lease.attempt}]
             ELSE UNCHANGED handled
    BY <1>2, Members DEF HandlerReturns
  <1>5. handled' \in [Messages -> SUBSET Attempts] /\ (\A n \in Messages : handled[n] \subseteq handled'[n])
           /\ (result = "DISPATCHED" => lease.attempt \in handled'[lease.id])
    BY <1>1, <1>3, <1>4
  <1> DEFINE next == [dispatcher[d] EXCEPT !.pc = "settle", !.result = result]
  <1>6. next \in DispatcherState /\ next.pc = "settle" /\ next.result = result /\ next.batch = dispatcher[d].batch
    BY <1>1, <1>4, Members DEF DispatcherState
  <1>7. dispatcher' = [dispatcher EXCEPT ![d] = next]
    BY <1>1, <1>4
  <1> HIDE DEF next
  <1>8. dispatcher' \in [Dispatchers -> DispatcherState]
           /\ \A e \in Dispatchers : dispatcher'[e] = IF e = d THEN next ELSE dispatcher[e]
    BY <1>1, <1>6, <1>7
  <1>9. RowsMove
    BY <1>0, <1>5 DEF RowsMove, SettledRests, Settled
  <1>10. DispatchesStay
    <2>1. \A e \in Dispatchers : dispatcher'[e].batch = dispatcher[e].batch
      BY <1>6, <1>8
    <2>2. \A e \in Dispatchers : InDispatch(e)' => InDispatch(e)
      BY <1>0, <1>8 DEF InDispatch
    <2>3. \A e \in Dispatchers : dispatcher'[e].pc # "idle" => dispatcher'[e].batch # <<>>
      BY <1>0, <1>8, <2>1 DEF DispatchHolds
    <2>4. ASSUME NEW e \in Dispatchers, dispatcher'[e].pc = "settle", dispatcher'[e].result = "DISPATCHED"
          PROVE  Head(dispatcher[e].batch).attempt \in handled'[Head(dispatcher[e].batch).id]
      <3>1. CASE e = d
        BY <1>2, <1>5, <1>6, <1>8, <2>4, <3>1
      <3>2. CASE e # d
        <4>1. dispatcher[e].pc = "settle" /\ dispatcher[e].result = "DISPATCHED"
          BY <1>8, <2>4, <3>2
        <4>2. Head(dispatcher[e].batch).id \in Messages
          BY <4>1, HeadIsLease
        <4> QED
          BY <1>5, <4>1, <4>2 DEF DispatchHolds
      <3> QED
        BY <3>1, <3>2
    <2> QED
      BY <1>0, <2>1, <2>2, <2>3, <2>4 DEF DispatchesStay, SameLease
  <1> QED
    BY <1>0, <1>5, <1>8, <1>9, <1>10

(* The connection drops under a handler, or a handler that lost it returns: *)
(* its dispatcher leaves Dispatch and no row moves.                         *)
LEMMA DetachedSteps ==
  ASSUME LaneInv, NEW d \in Dispatchers, ConnectionDrops(d) \/ DetachedReturns(d)
  PROVE  /\ UNCHANGED <<platform, outbox, run, inbox, execution, worker, late, engine>>
         /\ dispatcher' \in [Dispatchers -> DispatcherState]
         /\ handled' \in [Messages -> SUBSET Attempts]
         /\ RowsMove /\ DispatchesStay
  <1> USE DEF LaneInv, OutboxInv
  <1>0. /\ UNCHANGED <<platform, outbox, run, inbox, execution, worker, late, engine>>
        /\ dispatcher[d].pc # "idle"
    BY DEF ConnectionDrops, DetachedReturns, laneVars, hostVars
  <1>1. dispatcher \in [Dispatchers -> DispatcherState] /\ handled \in [Messages -> SUBSET Attempts]
    BY DEF TypeOK
  <1>2. handled' \in [Messages -> SUBSET Attempts] /\ \A n \in Messages : handled[n] \subseteq handled'[n]
    BY <1>0, <1>1, HeadIsLease DEF ConnectionDrops, DetachedReturns
  <1>3. /\ dispatcher' \in [Dispatchers -> DispatcherState]
        /\ dispatcher'[d].pc \in {"idle", "next", "detached"}
        /\ dispatcher'[d].pc # "idle" => dispatcher'[d].batch # <<>>
        /\ \A e \in Dispatchers : e # d => dispatcher'[e] = dispatcher[e]
    <2>1. CASE DetachedReturns(d)
      <3>1. EndBatch(d)
        BY <2>1 DEF DetachedReturns
      <3> QED
        BY <1>0, <3>1, BatchMoves
    <2>2. CASE ConnectionDrops(d)
      <3> DEFINE next == [dispatcher[d] EXCEPT !.pc = "detached"]
      <3>1. next \in DispatcherState /\ next.pc = "detached" /\ next.batch = dispatcher[d].batch
        BY <1>1, Members DEF DispatcherState
      <3>2. dispatcher' = [dispatcher EXCEPT ![d] = next]
        BY <1>1, <2>2 DEF ConnectionDrops
      <3> HIDE DEF next
      <3>3. dispatcher' \in [Dispatchers -> DispatcherState]
               /\ \A e \in Dispatchers : dispatcher'[e] = IF e = d THEN next ELSE dispatcher[e]
        BY <1>1, <3>1, <3>2
      <3> QED
        BY <1>0, <3>1, <3>3 DEF DispatchHolds
    <2> QED
      BY <2>1, <2>2
  <1>4. RowsMove
    BY <1>0, <1>2 DEF RowsMove, SettledRests, Settled
  <1>5. DispatchesStay
    <2>1. ASSUME NEW e \in Dispatchers, InDispatch(e)'
          PROVE  /\ e # d /\ InDispatch(e) /\ dispatcher'[e] = dispatcher[e]
                 /\ Head(dispatcher[e].batch).id \in Messages
      <3>1. e # d /\ dispatcher'[e] = dispatcher[e] /\ InDispatch(e)
        BY <1>3, <2>1 DEF InDispatch
      <3> QED
        BY <3>1, HeadIsLease DEF InDispatch
    <2> QED
      BY <1>0, <1>2, <1>3, <2>1 DEF DispatchesStay, DispatchHolds, SameLease
  <1> QED
    BY <1>0, <1>2, <1>3, <1>4, <1>5

(* Dispatch enters with the exact lease, alone, and under the authority of *)
(* the present epoch; or it goes on to the next message.                   *)
LEMMA DispatchStep ==
  ASSUME LaneInv, NEW d \in Dispatchers, Dispatch(d)
  PROVE  /\ UNCHANGED <<platform, outbox, handled, run, inbox, execution, worker, late, engine>>
         /\ dispatcher' \in [Dispatchers -> DispatcherState]
         /\ OutboxInv'
  <1> USE DEF LaneInv
  <1>0. /\ UNCHANGED <<platform, outbox, handled, run, inbox, execution, worker, late, engine>>
        /\ AtMessage(d) /\ Registered(d)
    BY DEF Dispatch, laneVars, hostVars
  <1>1. dispatcher[d].pc = "next" /\ ~RowLocked(Head(dispatcher[d].batch).id)
    BY <1>0 DEF AtMessage
  <1>2. dispatcher \in [Dispatchers -> DispatcherState]
    BY DEF TypeOK
  <1>3. SettledRests' /\ SettledByHolder'
    BY <1>0 DEF OutboxInv, SettledRests, SettledByHolder
  <1>4. CASE ~Admitted(d)
    <2>1. /\ dispatcher' \in [Dispatchers -> DispatcherState]
          /\ dispatcher'[d].pc \in {"idle", "next"}
          /\ dispatcher'[d].pc # "idle" => dispatcher'[d].batch # <<>>
          /\ \A e \in Dispatchers : e # d => dispatcher'[e] = dispatcher[e]
      <3>1. NextMessage(d)
        BY <1>4 DEF Dispatch
      <3> QED
        BY <1>1, <3>1, BatchMoves DEF OutboxInv
    <2>2. DispatchHolds'
      BY <1>0, <2>1, ZenonT(40) DEF OutboxInv, DispatchHolds, InDispatch, ExactLease, Registered
    <2>3. UnderAuthority'
      BY <1>0, <2>1 DEF OutboxInv, UnderAuthority, InDispatch, Normal
    <2> QED
      BY <1>0, <1>3, <2>1, <2>2, <2>3 DEF OutboxInv
  <1>5. CASE Admitted(d)
    <2> DEFINE next == [dispatcher[d] EXCEPT !.pc = "handling"]
    <2>1. dispatcher' = [dispatcher EXCEPT ![d] = next]
      BY <1>2, <1>5 DEF Dispatch
    <2>2. next \in DispatcherState /\ next.pc = "handling" /\ next.batch = dispatcher[d].batch
      BY <1>2, Members DEF DispatcherState
    <2> HIDE DEF next
    <2>3. dispatcher' \in [Dispatchers -> DispatcherState]
             /\ \A e \in Dispatchers : dispatcher'[e] = IF e = d THEN next ELSE dispatcher[e]
      BY <1>2, <2>1, <2>2
    <2>4. \A e \in Dispatchers : dispatcher'[e].batch = dispatcher[e].batch
      BY <2>2, <2>3
    <2>5. \A e \in Dispatchers : InDispatch(e)' => e = d \/ InDispatch(e)
      BY <2>3 DEF InDispatch
    <2>6. ASSUME NEW e \in Dispatchers, InDispatch(e)'
          PROVE  ExactLease(e)' /\ Registered(e)'
      <3>1. ExactLease(e) /\ Registered(e)
        BY <1>0, <1>5, <2>5, <2>6 DEF OutboxInv, DispatchHolds, Admitted
      <3>2. dispatcher'[e].batch = dispatcher[e].batch /\ outbox' = outbox
        BY <1>0, <2>4
      <3> QED
        BY <3>1, <3>2 DEF ExactLease, Registered
    <2>7. \A e \in Dispatchers :
            /\ dispatcher'[e].pc # "idle" => dispatcher'[e].batch # <<>>
            /\ dispatcher'[e].pc = "settle" /\ dispatcher'[e].result = "DISPATCHED" =>
                 Head(dispatcher'[e].batch).attempt \in handled'[Head(dispatcher'[e].batch).id]
      BY <1>0, <1>1, <2>2, <2>3 DEF OutboxInv, DispatchHolds
    <2>8. \A e, f \in Dispatchers :
            InDispatch(e)' /\ InDispatch(f)' /\ Head(dispatcher'[e].batch).id = Head(dispatcher'[f].batch).id
              => e = f
      BY <1>1, <2>4, <2>5, LockedRow DEF OutboxInv, DispatchHolds
    <2>9. DispatchHolds'
      BY <2>6, <2>7, <2>8 DEF DispatchHolds
    <2>10. UnderAuthority'
      BY <1>0, <1>5, <2>4, <2>5 DEF OutboxInv, UnderAuthority, Normal, Admitted
    <2> QED
      BY <1>0, <1>3, <2>3, <2>9, <2>10 DEF OutboxInv
  <1> QED
    BY <1>4, <1>5


-----------------------------------------------------------------------------
(* The inbox, the executions and the workers. *)

(* What a step does to the inbox: decided rows stay, and a row decided now *)
(* rests, with the receipt of its holder.                                  *)
InboxMove ==
  /\ inbox' \in [Messages -> InboxRow]
  /\ \A n \in Messages :
       /\ inbox[n].state \in Decided => inbox'[n] = inbox[n]
       /\ inbox'[n].state \in Decided => ~inbox'[n].live
       /\ inbox'[n].state = "INPUT_VALIDATED" =>
            /\ inbox'[n].receipt.worker = inbox'[n].owner
            /\ inbox'[n].receipt.generation = inbox'[n].generation
            /\ inbox'[n].receipt.prepared = (inbox'[n].owner \in Preparers)

SamePresence == \A n \in Messages : inbox'[n].state = "ABSENT" <=> inbox[n].state = "ABSENT"

(* To the executions, other than reserving one: an ended one stays, none   *)
(* is reopened, and only one whose engine ran is FINISHED.                 *)
ExecutionMove ==
  /\ execution' \in [Messages -> ExecutionRow]
  /\ \A n \in Messages :
       /\ execution[n].state \in Ended => execution'[n] = execution[n]
       /\ execution'[n].state = "ABSENT" <=> execution[n].state = "ABSENT"
       /\ execution'[n].worker = execution[n].worker /\ execution'[n].epoch = execution[n].epoch
       /\ Open(n)' => Open(n)
       /\ execution'[n].state = "FINISHED" => execution[n].state = "FINISHED" \/ engine[n] = 1

(* What the worker of a receipt was told. *)
ToldTruth(w) ==
  LET n == worker[w].id IN
  /\ inbox[n].state = "INPUT_VALIDATED"
  /\ inbox[n].receipt = [worker |-> Subject(w), generation |-> worker[w].generation,
                         prepared |-> Subject(w) \in Preparers]

(* To a worker, other than the answer to StartOffline: it is told the      *)
(* truth when it is admitted, and reports an end only after the engine ran.*)
WorkerMove(w) ==
  /\ worker'[w] \in WorkerState /\ (worker'[w].pc # "idle" => worker'[w].id \in Messages)
  /\ worker'[w] = worker[w] \/
       /\ worker'[w].pc = "admitted" => ToldTruth(w)'
       /\ worker'[w].pc # "execute"
       /\ worker'[w].pc \in {"refresh", "finish", "refinish"} => engine[worker'[w].id] = 1
WorkersMove ==
  worker' = [w \in Workers |-> worker'[w]] /\ \A w \in Workers : WorkerMove(w)

LateMove == late' \subseteq Requests /\ \A q \in late' : q.op = "finish" => engine[q.id] = 1

LEMMA InboxMoves ==
  ASSUME TypeOK, WorkersHaveMessages, InboxInv, InboxMove, UNCHANGED subject,
         \A w \in Workers : worker'[w].pc = "admitted" => worker'[w] = worker[w] \/ ToldTruth(w)'
  PROVE  InboxInv'
  <1> USE DEF InboxInv
  <1>1. InboxRests'
    BY DEF InboxRests, InboxMove, Decided
  <1>2. ASSUME NEW n \in Messages, inbox'[n].state = "INPUT_VALIDATED"
        PROVE  inbox'[n].receipt.worker = inbox'[n].owner /\ inbox'[n].receipt.generation = inbox'[n].generation
    BY <1>2 DEF InboxMove
  <1>3. ASSUME NEW w \in Workers, At(w, "admitted")'
        PROVE  ToldTruth(w)'
    <2>1. CASE worker'[w] = worker[w]
      <3>1. At(w, "admitted") /\ worker[w].id \in Messages
        BY <1>3, <2>1 DEF At, WorkersHaveMessages
      <3>2. ToldTruth(w)
        BY <3>1 DEF ReceiptIsHolders, ToldTruth
      <3>3. inbox'[worker[w].id] = inbox[worker[w].id]
        BY <3>1, <3>2 DEF ToldTruth, InboxMove, Decided
      <3> QED
        BY <2>1, <3>2, <3>3 DEF ToldTruth, Subject
    <2> QED
      BY <1>3, <2>1 DEF At
  <1>4. ReceiptIsHolders'
    BY <1>2, <1>3 DEF ReceiptIsHolders, ToldTruth
  <1> QED
    BY <1>1, <1>4

LEMMA OutboxKept ==
  ASSUME OutboxInv, SamePresence, UNCHANGED <<platform, outbox, dispatcher, handled>>
  PROVE  OutboxInv'
  <1>1. DispatchHolds' /\ SettledRests'
    BY DEF OutboxInv, DispatchHolds, SettledRests, InDispatch, ExactLease, Registered
  <1>2. SettledByHolder'
    BY DEF OutboxInv, SettledByHolder, SamePresence
  <1>3. UnderAuthority'
    BY DEF OutboxInv, UnderAuthority, InDispatch, Normal
  <1> QED
    BY <1>1, <1>2, <1>3 DEF OutboxInv

LEMMA ExecutionMoves ==
  ASSUME TypeOK, WorkersHaveMessages, ExecutionInv, InboxMove, ExecutionMove, WorkersMove, LateMove,
         UNCHANGED engine,
         \A n \in Messages : Normal' /\ Open(n) => execution[n].epoch = platform'.epoch
  PROVE  ExecutionInv'
  <1> USE DEF ExecutionInv
  <1>1. \A n \in Messages : execution[n].state # "ABSENT" =>
          inbox'[n] = inbox[n] /\ inbox[n].state = "INPUT_VALIDATED"
    BY DEF EngineOnce, InboxMove, Decided
  <1>2. ExecutedOnce'
    <2> SUFFICES ASSUME NEW n \in Messages
                 PROVE  /\ engine'[n] <= 1
                        /\ execution'[n].state = "FINISHED" => engine'[n] = 1
                        /\ execution'[n].state # "ABSENT" =>
                             inbox'[n].receipt.prepared /\ inbox'[n].receipt.worker = execution'[n].worker
                        /\ Normal' /\ Open(n)' => execution'[n].epoch = platform'.epoch
      BY DEF ExecutedOnce
    <2>1. engine'[n] <= 1 /\ (execution'[n].state = "FINISHED" => engine'[n] = 1)
      BY DEF ExecutedOnce, ExecutionMove
    <2>2. execution'[n].state # "ABSENT" =>
            inbox'[n].receipt.prepared /\ inbox'[n].receipt.worker = execution'[n].worker
      BY <1>1 DEF ExecutedOnce, ExecutionMove
    <2>3. Normal' /\ Open(n)' => execution'[n].epoch = platform'.epoch
      BY DEF ExecutionMove
    <2> QED
      BY <2>1, <2>2, <2>3
  <1>3. \A n \in Messages :
          /\ execution'[n].state = "ABSENT" => engine'[n] = 0
          /\ execution'[n].state # "ABSENT" => inbox'[n].state = "INPUT_VALIDATED"
    BY <1>1 DEF EngineOnce, ExecutionMove
  <1>4. \A w \in Workers : At(w, "execute")' =>
          worker'[w] = worker[w] /\ At(w, "execute") /\ worker[w].id \in Messages
    BY DEF WorkersMove, WorkerMove, At, WorkersHaveMessages
  <1>5. \A w \in Workers : At(w, "execute")' =>
          execution'[worker'[w].id].state # "ABSENT" /\ engine'[worker'[w].id] = 0
    BY <1>4 DEF EngineOnce, ExecutionMove
  <1>6. \A w, v \in Workers :
          At(w, "execute")' /\ At(v, "execute")' /\ worker'[w].id = worker'[v].id => w = v
    BY <1>4 DEF EngineOnce
  <1>7. \A w \in Workers : worker'[w].pc \in {"refresh", "finish", "refinish"} => engine'[worker'[w].id] = 1
    BY DEF EngineOnce, WorkersMove, WorkerMove
  <1>8. EngineOnce'
    BY <1>3, <1>5, <1>6, <1>7 DEF EngineOnce, LateMove
  <1> QED
    BY <1>2, <1>8

(* relayRunStart delivers a run.started message: the row and the inbox     *)
(* agree again, in one transaction.                                        *)
LEMMA RelayStep ==
  ASSUME LaneInv, RelayRunStart
  PROVE  /\ UNCHANGED <<platform, dispatcher, run, handled, execution, worker, late, engine>>
         /\ outbox' \in [Messages -> OutboxRow] /\ InboxMove /\ OutboxInv'
         /\ \A n \in Messages : outbox[n].state \in Settled => outbox'[n] = outbox[n]
  <1> USE DEF LaneInv, OutboxInv
  <1>0. UNCHANGED <<platform, dispatcher, run, handled, execution, worker, late, engine>>
    BY DEF RelayRunStart, hostVars
  <1>1. outbox \in [Messages -> OutboxRow] /\ inbox \in [Messages -> InboxRow]
    BY DEF TypeOK
  <1> DEFINE Accepted(n) == SameRun(n) /\ RuntimeOwned(n)
             Row(n) == [Leased(n, None) EXCEPT
                          !.state = IF Accepted(n) THEN "DISPATCHED" ELSE "DEAD_LETTER", !.live = FALSE]
  <1>2. PICK n \in Messages :
          /\ Claimable(n) /\ outbox[n].topic = "run.started"
          /\ outbox' = [outbox EXCEPT ![n] = Row(n)]
          /\ inbox' = IF Accepted(n) THEN [inbox EXCEPT ![n].state = "PENDING"] ELSE inbox
    BY DEF RelayRunStart
  <1>3. outbox[n].attempt < MaxClaims /\ outbox[n].due /\ outbox[n].state \in {"PENDING", "LEASED"} /\ ~RowLocked(n)
    BY <1>2 DEF Claimable
  <1>4. /\ Row(n) \in OutboxRow /\ Row(n).topic = "run.started" /\ Row(n).due /\ ~Row(n).live
        /\ Row(n).state = IF Accepted(n) THEN "DISPATCHED" ELSE "DEAD_LETTER"
    <2>1. /\ Leased(n, None) \in OutboxRow /\ Leased(n, None).topic = "run.started"
          /\ Leased(n, None).due = outbox[n].due
      BY <1>2, <1>3, LeasedTyped, Members
    <2>2. (IF Accepted(n) THEN "DISPATCHED" ELSE "DEAD_LETTER") \in OutboxStates
      BY Members
    <2> HIDE DEF Accepted
    <2> QED
      BY <1>3, <2>1, <2>2 DEF OutboxRow
  <1>5. inbox[n].state = "ABSENT"
    BY <1>2, <1>3 DEF SettledByHolder
  <1> HIDE DEF Accepted, Row
  <1>6. outbox' \in [Messages -> OutboxRow]
    BY <1>1, <1>2, <1>4
  <1>7. InboxMove
    <2> DEFINE row == [inbox[n] EXCEPT !.state = "PENDING"]
    <2>1. row \in InboxRow /\ row.state = "PENDING"
      BY <1>1, Members DEF InboxRow
    <2>2. inbox' = inbox \/ inbox' = [inbox EXCEPT ![n] = row]
      BY <1>1, <1>2
    <2> HIDE DEF row
    <2>3. inbox' \in [Messages -> InboxRow]
      BY <1>1, <2>1, <2>2
    <2>4. \A m \in Messages : inbox'[m] = inbox[m] \/ (m = n /\ inbox'[m] = row)
      BY <1>1, <2>2
    <2> QED
      BY <1>5, <2>1, <2>3, <2>4 DEF InboxMove, InboxInv, InboxRests, ReceiptIsHolders, Decided
  <1>8. \A m \in Messages : inbox'[m].state # "ABSENT" <=> inbox[m].state # "ABSENT" \/ (m = n /\ Accepted(n))
    <2>1. CASE Accepted(n)
      BY <1>1, <1>2, <2>1 DEF InboxRow
    <2>2. CASE ~Accepted(n)
      BY <1>2, <2>2
    <2> QED
      BY <2>1, <2>2
  <1>9. SettledByHolder'
    BY <1>0, <1>1, <1>2, <1>4, <1>5, <1>8 DEF SettledByHolder
  <1>10. SettledRests'
    BY <1>1, <1>2, <1>4 DEF SettledRests
  <1>11. \A e \in Dispatchers : InDispatch(e) =>
           Head(dispatcher[e].batch).id \in Messages /\ Head(dispatcher[e].batch).id # n
    BY <1>3, LockedRow, HeadIsLease DEF InDispatch
  <1>12. \A e \in Dispatchers : InDispatch(e) =>
           outbox'[Head(dispatcher[e].batch).id] = outbox[Head(dispatcher[e].batch).id]
    BY <1>1, <1>2, <1>11
  <1>13. DispatchHolds'
    <2>1. \A e \in Dispatchers : InDispatch(e)' => ExactLease(e)' /\ Registered(e)'
      BY <1>0, <1>12 DEF DispatchHolds, ExactLease, Registered, InDispatch
    <2> QED
      BY <1>0, <2>1 DEF DispatchHolds, InDispatch
  <1>14. UnderAuthority'
    BY <1>0, <1>12 DEF UnderAuthority, Normal, InDispatch
  <1>15. \A m \in Messages : outbox[m].state \in Settled => outbox'[m] = outbox[m]
    BY <1>1, <1>2, <1>3 DEF Settled
  <1> QED
    BY <1>0, <1>6, <1>7, <1>9, <1>10, <1>13, <1>14, <1>15


(* Steps that leave rows alone are moves. *)
LEMMA InboxStays ==
  ASSUME TypeOK, InboxInv, UNCHANGED inbox
  PROVE  InboxMove /\ SamePresence
  BY DEF TypeOK, InboxInv, InboxRests, ReceiptIsHolders, InboxMove, SamePresence, Decided

LEMMA ExecutionStays ==
  ASSUME TypeOK, UNCHANGED execution
  PROVE  ExecutionMove
  BY DEF TypeOK, ExecutionMove, Open

(* The server's part of a worker's call, whenever it is applied. *)
LEMMA ServeStep ==
  ASSUME LaneInv, NEW q \in Requests, Serve(q), q.op = "finish" => engine[q.id] = 1
  PROVE  /\ InboxMove /\ SamePresence /\ ExecutionMove
         /\ q.op = "report" =>
              /\ inbox'[q.id].state = "INPUT_VALIDATED"
              /\ inbox'[q.id].receipt = [worker |-> Subject(q.worker), generation |-> q.generation,
                                         prepared |-> Subject(q.worker) \in Preparers]
  <1> USE DEF LaneInv
  <1>0. /\ q.id \in Messages /\ q.worker \in Workers /\ q.generation \in Generations /\ q.epoch \in Epochs
        /\ inbox \in [Messages -> InboxRow] /\ execution \in [Messages -> ExecutionRow]
        /\ Subject(q.worker) \in Names
    BY DEF Requests, TypeOK, Subject
  <1>1. CASE q.op = "renew" /\ RenewInput(q)
    BY <1>1, InboxStays, ExecutionStays DEF RenewInput, laneVars
  <1>2. CASE q.op = "refresh" /\ RenewOffline(q)
    BY <1>2, InboxStays, ExecutionStays DEF RenewOffline, laneVars
  <1>3. CASE q.op = "report" /\ ReportInput(q)
    <2> DEFINE receipt == [worker |-> Subject(q.worker), generation |-> q.generation,
                           prepared |-> Subject(q.worker) \in Preparers]
               row == [inbox[q.id] EXCEPT !.state = "INPUT_VALIDATED", !.live = FALSE, !.receipt = receipt]
    <2>1. HoldsToken(q) /\ UNCHANGED execution
      BY <1>3 DEF ReportInput
    <2>2. ExecutionMove
      BY <2>1, ExecutionStays
    <2>3. CASE inbox[q.id].state = "INPUT_VALIDATED" /\ UNCHANGED inbox
      <3>1. InboxMove /\ SamePresence
        BY <2>3, InboxStays
      <3>2. /\ inbox[q.id].receipt.worker = Subject(q.worker) /\ inbox[q.id].receipt.generation = q.generation
            /\ inbox[q.id].receipt.prepared = (Subject(q.worker) \in Preparers)
        BY <1>0, <2>1, <2>3 DEF HoldsToken, InboxInv, InboxRests, ReceiptIsHolders
      <3>3. inbox[q.id].receipt \in Receipts
        BY <1>0 DEF InboxRow
      <3>4. inbox[q.id].receipt = receipt
        BY <3>2, <3>3 DEF Receipts
      <3> QED
        BY <1>3, <2>2, <2>3, <3>1, <3>4
    <2>4. CASE LeaseLive(q) /\ inbox' = [inbox EXCEPT ![q.id] = row]
      <3>1. inbox[q.id].state = "LEASED" /\ inbox[q.id].owner = Subject(q.worker)
               /\ inbox[q.id].generation = q.generation
        BY <2>1, <2>4 DEF LeaseLive, HoldsToken
      <3>2. /\ receipt \in Receipts /\ receipt.worker = Subject(q.worker) /\ receipt.generation = q.generation
            /\ receipt.prepared = (Subject(q.worker) \in Preparers)
        BY <1>0, Members DEF Receipts
      <3> HIDE DEF receipt
      <3>3. /\ row \in InboxRow /\ row.state = "INPUT_VALIDATED" /\ ~row.live /\ row.receipt = receipt
            /\ row.owner = Subject(q.worker) /\ row.generation = q.generation
        BY <1>0, <3>1, <3>2, Members, ZenonT(40) DEF InboxRow
      <3> HIDE DEF row
      <3>4. inbox' \in [Messages -> InboxRow]
               /\ \A n \in Messages : inbox'[n] = IF n = q.id THEN row ELSE inbox[n]
        BY <1>0, <2>4, <3>3
      <3>5. InboxMove
        BY <3>1, <3>2, <3>3, <3>4 DEF InboxMove, InboxInv, InboxRests, ReceiptIsHolders, Decided
      <3>6. SamePresence
        BY <3>1, <3>3, <3>4 DEF SamePresence
      <3> QED
        BY <1>0, <1>3, <2>2, <3>3, <3>4, <3>5, <3>6 DEF receipt
    <2>5. (inbox[q.id].state = "INPUT_VALIDATED" /\ UNCHANGED inbox)
             \/ (LeaseLive(q) /\ inbox' = [inbox EXCEPT ![q.id] = row])
      BY <1>0, <1>3 DEF ReportInput
    <2> QED
      BY <2>3, <2>4, <2>5
  <1>4. CASE q.op \in {"finish", "fail"} /\ (q.op = "finish" => FinishOffline(q)) /\ (q.op = "fail" => FailOffline(q))
    <2>1. UNCHANGED inbox
      BY <1>4 DEF FinishOffline, FailOffline
    <2>2. PICK state \in ExecutionStates, live \in BOOLEAN :
            /\ execution' = [execution EXCEPT ![q.id].state = state, ![q.id].live = live]
            /\ state # execution[q.id].state => execution[q.id].state = "AUTHORIZED"
            /\ state = execution[q.id].state => live = execution[q.id].live
            /\ state = "FINISHED" => execution[q.id].state = "FINISHED" \/ engine[q.id] = 1
            /\ state = "ABSENT" => execution[q.id].state = "ABSENT"
            /\ state \in {"AUTHORIZED", "UNKNOWN"} => Open(q.id)
      <3>0. execution[q.id].state \in ExecutionStates /\ execution[q.id].live \in BOOLEAN
               /\ execution = [execution EXCEPT ![q.id].state = @, ![q.id].live = @]
        BY <1>0 DEF ExecutionRow
      <3>1. CASE UNCHANGED execution
        BY <3>0, <3>1 DEF Open
      <3>2. CASE PermitLive(q) /\ q.op = "finish" /\
                 execution' = [execution EXCEPT ![q.id].state = "FINISHED", ![q.id].live = FALSE]
        <4>1. execution[q.id].state = "AUTHORIZED" /\ engine[q.id] = 1 /\ "FINISHED" \in ExecutionStates
          BY <3>2, Members DEF PermitLive
        <4> QED
          BY <3>2, <4>1
      <3>3. CASE q.op = "fail" /\
                 execution' = [execution EXCEPT ![q.id].state = IF @ = "AUTHORIZED" THEN "UNKNOWN" ELSE @]
        <4>1. CASE execution[q.id].state = "AUTHORIZED"
          <5>1. execution' = [execution EXCEPT ![q.id].state = "UNKNOWN", ![q.id].live = execution[q.id].live]
            BY <1>0, <3>3, <4>1 DEF ExecutionRow
          <5> QED
            BY <3>0, <4>1, <5>1, Members DEF Open
        <4>2. CASE execution[q.id].state # "AUTHORIZED"
          <5>1. UNCHANGED execution
            BY <1>0, <3>3, <4>2 DEF ExecutionRow
          <5> QED
            BY <3>1, <5>1
        <4> QED
          BY <4>1, <4>2
      <3> QED
        BY <1>4, <3>1, <3>2, <3>3 DEF FinishOffline, FailOffline
    <2> DEFINE row == [execution[q.id] EXCEPT !.state = state, !.live = live]
    <2>3. /\ row \in ExecutionRow /\ row.state = state /\ row.live = live
          /\ row.worker = execution[q.id].worker /\ row.epoch = execution[q.id].epoch
          /\ (state = execution[q.id].state /\ live = execution[q.id].live) => row = execution[q.id]
      BY <1>0 DEF ExecutionRow
    <2>4. execution' = [execution EXCEPT ![q.id] = row]
      BY <1>0, <2>2
    <2> HIDE DEF row
    <2>5. execution' \in [Messages -> ExecutionRow]
             /\ \A n \in Messages : execution'[n] = IF n = q.id THEN row ELSE execution[n]
      BY <1>0, <2>3, <2>4
    <2>6. ExecutionMove
      BY <2>2, <2>3, <2>5 DEF ExecutionMove, Ended, Open
    <2> QED
      BY <1>4, <2>1, <2>6, InboxStays
  <1>5. (q.op = "renew" /\ RenewInput(q)) \/ (q.op = "refresh" /\ RenewOffline(q))
           \/ (q.op = "report" /\ ReportInput(q))
           \/ (q.op = "finish" /\ FinishOffline(q)) \/ (q.op = "fail" /\ FailOffline(q))
    BY DEF Serve
  <1> QED
    BY <1>1, <1>2, <1>3, <1>4, <1>5


(* A call of a worker: answered, or failed for the worker and applied now, *)
(* later or never.                                                         *)
LEMMA CallStep ==
  ASSUME LaneInv, NEW w \in Workers, worker[w].pc # "idle", NEW op \in CallOps,
         op = "finish" => engine[worker[w].id] = 1,
         Heard(Call(w, op)) \/ Unheard(Call(w, op))
  PROVE  /\ InboxMove /\ SamePresence /\ ExecutionMove /\ LateMove
         /\ Heard(Call(w, op)) /\ op = "report" =>
              /\ inbox'[worker[w].id].state = "INPUT_VALIDATED"
              /\ inbox'[worker[w].id].receipt =
                   [worker |-> Subject(w), generation |-> worker[w].generation,
                    prepared |-> Subject(w) \in Preparers]
  <1> USE DEF LaneInv
  <1> DEFINE q == Call(w, op)
  <1>1. /\ q \in Requests /\ q.op = op /\ q.id = worker[w].id /\ q.worker = w
        /\ q.generation = worker[w].generation
    <2>1. worker[w] \in WorkerState /\ worker[w].id \in Messages
      BY DEF TypeOK, WorkersHaveMessages
    <2>2. worker[w].generation \in Generations /\ worker[w].epoch \in Epochs
      BY <2>1 DEF WorkerState
    <2> QED
      BY <2>1, <2>2 DEF Call, Requests
  <1> HIDE DEF q
  <1>2. late \subseteq Requests /\ \A r \in late : r.op = "finish" => engine[r.id] = 1
    BY DEF TypeOK, ExecutionInv, EngineOnce
  <1>3. CASE Serve(q) /\ UNCHANGED late
    <2>1. /\ InboxMove /\ SamePresence /\ ExecutionMove
          /\ q.op = "report" =>
               /\ inbox'[q.id].state = "INPUT_VALIDATED"
               /\ inbox'[q.id].receipt = [worker |-> Subject(q.worker), generation |-> q.generation,
                                          prepared |-> Subject(q.worker) \in Preparers]
      BY <1>1, <1>3, ServeStep
    <2> QED
      BY <1>1, <1>2, <1>3, <2>1 DEF LateMove
  <1>4. CASE UNCHANGED laneVars /\ late' \subseteq late \cup {q} /\ ~Heard(q)
    <2>1. LateMove
      BY <1>1, <1>2, <1>4 DEF LateMove
    <2> QED
      BY <1>4, <2>1, InboxStays, ExecutionStays DEF laneVars, q
  <1>5. CASE Heard(q)
    BY <1>3, <1>5 DEF Heard
  <1>6. CASE Unheard(q)
    BY <1>3, <1>4, <1>5, <1>6 DEF Unheard, laneVars
  <1> QED
    BY <1>5, <1>6 DEF q

LEMMA RestStep ==
  ASSUME LaneInv, NEW w \in Workers, Rest(w)
  PROVE  WorkersMove
  <1>1. worker \in [Workers -> WorkerState]
    BY DEF LaneInv, TypeOK
  <1>2. Idle \in WorkerState /\ Idle.pc = "idle"
    BY Members DEF Idle, WorkerState
  <1>3. worker' = [worker EXCEPT ![w] = Idle]
    BY DEF Rest
  <1>4. worker' = [v \in Workers |-> worker'[v]] /\ \A v \in Workers : worker'[v] = IF v = w THEN Idle ELSE worker[v]
    BY <1>1, <1>3
  <1>5. \A v \in Workers : WorkerMove(v)
    BY <1>1, <1>2, <1>4 DEF WorkerMove, LaneInv, WorkersHaveMessages
  <1> QED
    BY <1>4, <1>5 DEF WorkersMove

LEMMA GoStep ==
  ASSUME LaneInv, NEW w \in Workers, worker[w].pc # "idle", NEW pc \in WorkerPCs, Go(w, pc),
         pc # "execute", UNCHANGED subject,
         pc = "admitted" =>
           /\ inbox'[worker[w].id].state = "INPUT_VALIDATED"
           /\ inbox'[worker[w].id].receipt =
                [worker |-> Subject(w), generation |-> worker[w].generation,
                 prepared |-> Subject(w) \in Preparers],
         pc \in {"refresh", "finish", "refinish"} => engine[worker[w].id] = 1
  PROVE  WorkersMove
  <1>1. worker \in [Workers -> WorkerState] /\ worker[w] \in WorkerState /\ worker[w].id \in Messages
    BY DEF LaneInv, TypeOK, WorkersHaveMessages
  <1> DEFINE next == [worker[w] EXCEPT !.pc = pc]
  <1>2. next \in WorkerState /\ next.pc = pc /\ next.id = worker[w].id /\ next.generation = worker[w].generation
    BY <1>1 DEF WorkerState
  <1>3. worker' = [worker EXCEPT ![w] = next]
    BY <1>1 DEF Go
  <1> HIDE DEF next
  <1>4. worker' = [v \in Workers |-> worker'[v]] /\ \A v \in Workers : worker'[v] = IF v = w THEN next ELSE worker[v]
    BY <1>1, <1>3
  <1>5. pc = "admitted" => ToldTruth(w)'
    BY <1>2, <1>4 DEF ToldTruth, Subject
  <1>6. \A v \in Workers : WorkerMove(v)
    BY <1>1, <1>2, <1>4, <1>5 DEF WorkerMove, LaneInv, WorkersHaveMessages
  <1> QED
    BY <1>4, <1>6 DEF WorkersMove

LEMMA WorkersStay ==
  ASSUME LaneInv, UNCHANGED worker
  PROVE  WorkersMove
  <1>1. worker \in [Workers -> WorkerState]
    BY DEF LaneInv, TypeOK
  <1> QED
    BY <1>1 DEF WorkersMove, WorkerMove, LaneInv, WorkersHaveMessages

LEMMA LateStays ==
  ASSUME LaneInv, late' \subseteq late
  PROVE  LateMove
  BY DEF LaneInv, TypeOK, ExecutionInv, EngineOnce, LateMove

LaneMove == InboxMove /\ SamePresence /\ ExecutionMove /\ WorkersMove /\ LateMove

(* The steps of the calls: Once, PrepareOnce, ExecuteOffline. *)
LEMMA CallSteps ==
  ASSUME LaneInv, NEW w \in Workers, UNCHANGED subject,
         FirstRenew(w) \/ FinalRenew(w) \/ Report(w) \/ Refresh(w) \/ Finish(w) \/ Fail(w)
  PROVE  LaneMove /\ UNCHANGED <<platform, run, outboxVars, engine>>
  <1>0. UNCHANGED <<platform, run, outboxVars, engine>>
    BY DEF FirstRenew, FinalRenew, RenewStep, Report, Refresh, Finish, Fail
  <1>1. worker[w].pc \in {"refresh", "finish", "refinish"} => engine[worker[w].id] = 1
    BY DEF LaneInv, ExecutionInv, EngineOnce
  <1>2. ASSUME NEW pc, NEW next \in {"prepare", "report"}, RenewStep(w, pc, next), pc \in {"renew", "rerenew"}
        PROVE  LaneMove
    <2>1. worker[w].pc # "idle" /\ "renew" \in CallOps /\ next \in WorkerPCs
      BY <1>2, Members DEF RenewStep, At
    <2>2. InboxMove /\ SamePresence /\ ExecutionMove /\ LateMove
      BY <1>2, <2>1, CallStep DEF RenewStep
    <2>3. Go(w, next) \/ Rest(w)
      BY <1>2 DEF RenewStep
    <2>4. WorkersMove
      BY <2>1, <2>3, GoStep, RestStep
    <2> QED
      BY <2>2, <2>4 DEF LaneMove
  <1>3. CASE FirstRenew(w)
    <2>1. (IF Subject(w) \in Preparers THEN "prepare" ELSE "report") \in {"prepare", "report"}
      OBVIOUS
    <2> QED
      BY <1>0, <1>2, <1>3, <2>1 DEF FirstRenew
  <1>4. CASE FinalRenew(w)
    BY <1>0, <1>2, <1>4 DEF FinalRenew
  <1>5. CASE Report(w)
    <2>1. worker[w].pc # "idle" /\ "report" \in CallOps /\ "admitted" \in WorkerPCs /\ "rereport" \in WorkerPCs
      BY <1>5, Members DEF Report, At
    <2>2. InboxMove /\ SamePresence /\ ExecutionMove /\ LateMove
      BY <1>5, <2>1, CallStep DEF Report
    <2>3. CASE Heard(Call(w, "report")) /\ Go(w, "admitted")
      <3>1. /\ inbox'[worker[w].id].state = "INPUT_VALIDATED"
            /\ inbox'[worker[w].id].receipt =
                 [worker |-> Subject(w), generation |-> worker[w].generation,
                  prepared |-> Subject(w) \in Preparers]
        BY <2>1, <2>3, CallStep
      <3>2. WorkersMove
        BY <2>1, <2>3, <3>1, GoStep
      <3> QED
        BY <1>0, <2>2, <3>2 DEF LaneMove
    <2>4. CASE Go(w, "rereport") \/ Rest(w)
      <3>1. WorkersMove
        BY <2>1, <2>4, GoStep, RestStep
      <3> QED
        BY <1>0, <2>2, <3>1 DEF LaneMove
    <2> QED
      BY <1>5, <2>3, <2>4 DEF Report
  <1>6. CASE Refresh(w)
    <2>1. worker[w].pc = "refresh" /\ "refresh" \in CallOps /\ "finish" \in WorkerPCs /\ "fail" \in WorkerPCs
      BY <1>6, Members DEF Refresh, At
    <2>2. InboxMove /\ SamePresence /\ ExecutionMove /\ LateMove
      BY <1>6, <2>1, CallStep DEF Refresh
    <2>3. Go(w, "finish") \/ Go(w, "fail")
      BY <1>6 DEF Refresh
    <2>4. WorkersMove
      BY <1>1, <2>1, <2>3, GoStep
    <2> QED
      BY <1>0, <2>2, <2>4 DEF LaneMove
  <1>7. CASE Finish(w)
    <2>1. worker[w].pc \in {"finish", "refinish"} /\ "finish" \in CallOps /\ "refinish" \in WorkerPCs
             /\ "fail" \in WorkerPCs
      BY <1>7, Members DEF Finish, At
    <2>2. InboxMove /\ SamePresence /\ ExecutionMove /\ LateMove
      BY <1>1, <1>7, <2>1, CallStep DEF Finish
    <2>3. Rest(w) \/ Go(w, "refinish") \/ Go(w, "fail")
      BY <1>7 DEF Finish
    <2>4. WorkersMove
      BY <1>1, <2>1, <2>3, GoStep, RestStep
    <2> QED
      BY <1>0, <2>2, <2>4 DEF LaneMove
  <1>8. CASE Fail(w)
    <2>1. worker[w].pc = "fail" /\ "fail" \in CallOps
      BY <1>8, Members DEF Fail, At
    <2>2. InboxMove /\ SamePresence /\ ExecutionMove /\ LateMove
      BY <1>8, <2>1, CallStep DEF Fail
    <2>3. WorkersMove
      BY <1>8, RestStep DEF Fail
    <2> QED
      BY <1>0, <2>2, <2>3 DEF LaneMove
  <1> QED
    BY <1>3, <1>4, <1>5, <1>6, <1>7, <1>8


(* The steps of the worker alone, and a late call. *)
LEMMA HostSteps ==
  ASSUME LaneInv, UNCHANGED subject,
         \/ \E w \in Workers : Prepare(w) \/ PollAgain(w) \/ ExecuteFails(w) \/ WorkerDies(w)
         \/ \E q \in late : LateCall(q)
  PROVE  LaneMove /\ UNCHANGED <<platform, run, outboxVars, engine>>
  <1>1. ASSUME NEW w \in Workers, Prepare(w) \/ PollAgain(w) \/ ExecuteFails(w) \/ WorkerDies(w)
        PROVE  LaneMove /\ UNCHANGED <<platform, run, outboxVars, engine>>
    <2>1. UNCHANGED <<platform, run, outboxVars, engine, laneVars, late>>
      BY <1>1 DEF Prepare, PollAgain, ExecuteFails, WorkerDies
    <2>2. InboxMove /\ SamePresence /\ ExecutionMove /\ LateMove
      BY <2>1, InboxStays, ExecutionStays, LateStays DEF laneVars, LaneInv
    <2>3. Rest(w) \/ (worker[w].pc # "idle" /\ (Go(w, "rerenew") \/ Go(w, "fail")))
      BY <1>1 DEF Prepare, PollAgain, ExecuteFails, WorkerDies, At
    <2>4. "rerenew" \in WorkerPCs /\ "fail" \in WorkerPCs
      BY Members
    <2>5. WorkersMove
      BY <2>3, <2>4, GoStep, RestStep
    <2> QED
      BY <2>1, <2>2, <2>5 DEF LaneMove
  <1>2. ASSUME NEW q \in late, LateCall(q)
        PROVE  LaneMove /\ UNCHANGED <<platform, run, outboxVars, engine>>
    <2>1. UNCHANGED <<platform, run, outboxVars, engine, worker>> /\ late' \subseteq late
      BY <1>2 DEF LateCall
    <2>2. q \in Requests /\ (q.op = "finish" => engine[q.id] = 1)
      BY DEF LaneInv, TypeOK, ExecutionInv, EngineOnce
    <2>3. InboxMove /\ SamePresence /\ ExecutionMove
      <3>1. CASE Serve(q)
        BY <2>2, <3>1, ServeStep
      <3>2. CASE UNCHANGED laneVars
        BY <3>2, InboxStays, ExecutionStays DEF laneVars, LaneInv
      <3> QED
        BY <1>2, <3>1, <3>2 DEF LateCall
    <2> QED
      BY <2>1, <2>3, WorkersStay, LateStays DEF LaneMove
  <1> QED
    BY <1>1, <1>2

(* ClaimInput leases a waiting row under a new generation, or revokes it. *)
LEMMA ClaimInputStep ==
  ASSUME LaneInv, NEW w \in Workers, UNCHANGED subject, ClaimInput(w)
  PROVE  LaneMove /\ UNCHANGED <<platform, run, outboxVars, engine>>
  <1>0. UNCHANGED <<platform, run, outboxVars, execution, late, engine>> /\ worker[w].pc = "idle"
    BY DEF ClaimInput, At
  <1>1. /\ inbox \in [Messages -> InboxRow] /\ worker \in [Workers -> WorkerState]
        /\ platform.epoch \in Epochs /\ Subject(w) \in Holders
    BY Members DEF LaneInv, TypeOK, Subject
  <1>2. PICK n \in Messages :
          /\ inbox[n].state \in {"PENDING", "LEASED"}
          /\ \/ /\ inbox[n].generation < MaxGeneration
                /\ inbox' = [inbox EXCEPT ![n].state = "LEASED", ![n].owner = Subject(w), ![n].live = TRUE,
                                          ![n].generation = @ + 1, ![n].epoch = platform.epoch]
                /\ \/ UNCHANGED worker
                   \/ worker' = [worker EXCEPT ![w] = [pc |-> "renew", id |-> n, epoch |-> platform.epoch,
                                                       generation |-> inbox[n].generation + 1]]
             \/ /\ inbox' = [inbox EXCEPT ![n].state = "REVOKED", ![n].owner = None, ![n].live = FALSE]
                /\ UNCHANGED worker
    BY DEF ClaimInput, Waiting
  <1>3. PICK row \in InboxRow :
          /\ inbox' = [inbox EXCEPT ![n] = row]
          /\ row.state \in {"LEASED", "REVOKED"} /\ (row.state = "REVOKED" => ~row.live)
    <2>1. CASE /\ inbox[n].generation < MaxGeneration
               /\ inbox' = [inbox EXCEPT ![n].state = "LEASED", ![n].owner = Subject(w), ![n].live = TRUE,
                                         ![n].generation = @ + 1, ![n].epoch = platform.epoch]
      <3> DEFINE row == [inbox[n] EXCEPT !.state = "LEASED", !.owner = Subject(w), !.live = TRUE,
                                         !.generation = @ + 1, !.epoch = platform.epoch]
      <3>1. inbox[n].generation + 1 \in Generations
        BY <1>1, <2>1, Members DEF InboxRow
      <3>2. row \in InboxRow /\ row.state = "LEASED"
        BY <1>1, <3>1, Members DEF InboxRow
      <3>3. inbox' = [inbox EXCEPT ![n] = row]
        BY <1>1, <2>1
      <3> HIDE DEF row
      <3> QED
        BY <3>2, <3>3
    <2>2. CASE inbox' = [inbox EXCEPT ![n].state = "REVOKED", ![n].owner = None, ![n].live = FALSE]
      <3> DEFINE row == [inbox[n] EXCEPT !.state = "REVOKED", !.owner = None, !.live = FALSE]
      <3>1. row \in InboxRow /\ row.state = "REVOKED" /\ ~row.live
        BY <1>1, Members DEF InboxRow
      <3>2. inbox' = [inbox EXCEPT ![n] = row]
        BY <1>1, <2>2
      <3> HIDE DEF row
      <3> QED
        BY <3>1, <3>2
    <2> QED
      BY <1>2, <2>1, <2>2
  <1>4. inbox' \in [Messages -> InboxRow] /\ \A m \in Messages : inbox'[m] = IF m = n THEN row ELSE inbox[m]
    BY <1>1, <1>3
  <1>5. InboxMove
    BY <1>2, <1>3, <1>4 DEF InboxMove, LaneInv, InboxInv, InboxRests, ReceiptIsHolders, Decided
  <1>6. SamePresence
    BY <1>2, <1>3, <1>4 DEF SamePresence
  <1>7. WorkersMove
    <2>1. CASE UNCHANGED worker
      BY <2>1, WorkersStay
    <2>2. CASE /\ inbox[n].generation < MaxGeneration
               /\ worker' = [worker EXCEPT ![w] = [pc |-> "renew", id |-> n, epoch |-> platform.epoch,
                                                   generation |-> inbox[n].generation + 1]]
      <3> DEFINE next == [pc |-> "renew", id |-> n, epoch |-> platform.epoch,
                          generation |-> inbox[n].generation + 1]
      <3>1. inbox[n].generation + 1 \in Generations
        BY <1>1, <2>2, Members DEF InboxRow
      <3>2. next \in WorkerState /\ next.pc = "renew" /\ next.id = n
        BY <1>1, <3>1, Members DEF WorkerState
      <3>3. worker' = [worker EXCEPT ![w] = next]
        BY <2>2
      <3> HIDE DEF next
      <3>4. worker' = [v \in Workers |-> worker'[v]]
               /\ \A v \in Workers : worker'[v] = IF v = w THEN next ELSE worker[v]
        BY <1>1, <3>3
      <3>5. \A v \in Workers : WorkerMove(v)
        BY <1>1, <3>2, <3>4 DEF WorkerMove, LaneInv, WorkersHaveMessages
      <3> QED
        BY <3>4, <3>5 DEF WorkersMove
    <2> QED
      BY <1>2, <2>1, <2>2
  <1> QED
    BY <1>0, <1>5, <1>6, <1>7, ExecutionStays, LateStays DEF LaneMove, LaneInv

(* The ends of a lease and of a permit, and an abandoned execution. *)
LEMMA ExpirySteps ==
  ASSUME LaneInv, NEW n \in Messages, ExpireInput(n) \/ ExpirePermit(n) \/ AbandonExecution(n)
  PROVE  LaneMove /\ UNCHANGED <<platform, run, outboxVars, engine>>
  <1> USE DEF LaneInv
  <1>0. UNCHANGED <<platform, run, outboxVars, worker, late, engine>>
    BY DEF ExpireInput, ExpirePermit, AbandonExecution, hostVars
  <1>1. inbox \in [Messages -> InboxRow] /\ execution \in [Messages -> ExecutionRow]
    BY DEF TypeOK
  <1>2. CASE ExpireInput(n)
    <2> DEFINE row == [inbox[n] EXCEPT !.live = FALSE]
    <2>1. row \in InboxRow /\ row.state = inbox[n].state
      BY <1>1 DEF InboxRow
    <2>2. inbox' = [inbox EXCEPT ![n] = row] /\ inbox[n].state \notin Decided /\ UNCHANGED execution
      BY <1>1, <1>2 DEF ExpireInput, InboxInv, InboxRests, Decided
    <2> HIDE DEF row
    <2>3. inbox' \in [Messages -> InboxRow] /\ \A m \in Messages : inbox'[m] = IF m = n THEN row ELSE inbox[m]
      BY <1>1, <2>1, <2>2
    <2>4. InboxMove
      BY <2>1, <2>2, <2>3 DEF InboxMove, InboxInv, InboxRests, ReceiptIsHolders, Decided
    <2>5. SamePresence
      BY <2>1, <2>3 DEF SamePresence
    <2> QED
      BY <1>0, <2>2, <2>4, <2>5, ExecutionStays, WorkersStay, LateStays DEF LaneMove
  <1>3. CASE ExpirePermit(n) \/ AbandonExecution(n)
    <2>0. UNCHANGED inbox /\ Open(n)
      BY <1>3 DEF ExpirePermit, AbandonExecution
    <2>1. PICK row \in ExecutionRow :
            /\ execution' = [execution EXCEPT ![n] = row]
            /\ row.worker = execution[n].worker /\ row.epoch = execution[n].epoch
            /\ row.state \notin {"ABSENT", "FINISHED"}
      <3>1. CASE ExpirePermit(n)
        <4> DEFINE row == [execution[n] EXCEPT !.live = FALSE]
        <4>1. row \in ExecutionRow /\ row.state = execution[n].state
                 /\ row.worker = execution[n].worker /\ row.epoch = execution[n].epoch
          BY <1>1 DEF ExecutionRow
        <4>2. execution' = [execution EXCEPT ![n] = row]
          BY <1>1, <3>1 DEF ExpirePermit
        <4> HIDE DEF row
        <4> QED
          BY <2>0, <4>1, <4>2 DEF Open
      <3>2. CASE AbandonExecution(n)
        <4> DEFINE row == [execution[n] EXCEPT !.state = "ABANDONED_RECONCILED"]
        <4>1. row \in ExecutionRow /\ row.state = "ABANDONED_RECONCILED"
                 /\ row.worker = execution[n].worker /\ row.epoch = execution[n].epoch
          BY <1>1, Members DEF ExecutionRow
        <4>2. execution' = [execution EXCEPT ![n] = row]
          BY <1>1, <3>2 DEF AbandonExecution
        <4> HIDE DEF row
        <4> QED
          BY <4>1, <4>2
      <3> QED
        BY <1>3, <3>1, <3>2
    <2>2. execution' \in [Messages -> ExecutionRow]
             /\ \A m \in Messages : execution'[m] = IF m = n THEN row ELSE execution[m]
      BY <1>1, <2>1
    <2>3. ExecutionMove
      BY <2>0, <2>1, <2>2 DEF ExecutionMove, Ended, Open
    <2> QED
      BY <1>0, <2>0, <2>3, InboxStays, WorkersStay, LateStays DEF LaneMove
  <1> QED
    BY <1>2, <1>3


(* StartOffline reserves the one execution of an admitted run. *)
LEMMA StartStep ==
  ASSUME LaneInv, NEW w \in Workers, NEW n \in Messages, UNCHANGED subject, StartOffline(w, n)
  PROVE  /\ UNCHANGED <<platform, run, outboxVars, inbox, late, engine>>
         /\ execution' \in [Messages -> ExecutionRow] /\ worker' \in [Workers -> WorkerState]
         /\ WorkersHaveMessages' /\ InboxInv' /\ ExecutionInv'
         /\ \A m \in Messages : execution[m].state \in Ended => execution'[m] = execution[m]
  <1> USE DEF LaneInv
  <1> DEFINE row == [state |-> "AUTHORIZED", worker |-> Subject(w), epoch |-> platform.epoch, live |-> TRUE]
             next == [pc |-> "execute", id |-> n, generation |-> 0, epoch |-> platform.epoch]
  <1>0. /\ UNCHANGED <<platform, run, outboxVars, inbox, late, engine>>
        /\ worker[w].pc = "idle" /\ execution[n].state = "ABSENT"
        /\ inbox[n].state = "INPUT_VALIDATED" /\ inbox[n].owner = Subject(w) /\ inbox[n].receipt.prepared
        /\ execution' = [execution EXCEPT ![n] = row]
        /\ UNCHANGED worker \/ worker' = [worker EXCEPT ![w] = next]
    BY DEF StartOffline, At, Unreserved
  <1>1. /\ execution \in [Messages -> ExecutionRow] /\ worker \in [Workers -> WorkerState]
        /\ platform.epoch \in Epochs /\ Subject(w) \in Holders
    BY Members DEF TypeOK, Subject
  <1>2. row \in ExecutionRow /\ row.state = "AUTHORIZED" /\ row.worker = Subject(w) /\ row.epoch = platform.epoch
    BY <1>1, Members DEF ExecutionRow
  <1>3. next \in WorkerState /\ next.pc = "execute" /\ next.id = n
    BY <1>1, Members DEF WorkerState
  <1> HIDE DEF row, next
  <1>4. execution' \in [Messages -> ExecutionRow]
           /\ \A m \in Messages : execution'[m] = IF m = n THEN row ELSE execution[m]
    BY <1>0, <1>1, <1>2
  <1>5. worker' \in [Workers -> WorkerState]
           /\ \A v \in Workers : worker'[v] = worker[v] \/ (v = w /\ worker'[v] = next)
    BY <1>0, <1>1, <1>3
  <1>6. WorkersHaveMessages'
    BY <1>3, <1>5 DEF WorkersHaveMessages
  <1>7. InboxInv'
    <2>1. \A v \in Workers : worker'[v].pc = "admitted" => worker'[v] = worker[v]
      BY <1>3, <1>5
    <2>2. InboxMove
      BY <1>0, InboxStays
    <2> QED
      BY <2>1, <2>2, InboxMoves
  <1>8. engine[n] = 0 /\ \A v \in Workers : ~(At(v, "execute") /\ worker[v].id = n)
    BY <1>0 DEF ExecutionInv, EngineOnce
  <1>9. inbox[n].receipt.worker = Subject(w)
    BY <1>0 DEF InboxInv, ReceiptIsHolders
  <1>10. ExecutedOnce'
    <2> SUFFICES ASSUME NEW m \in Messages
                 PROVE  /\ engine'[m] <= 1
                        /\ execution'[m].state = "FINISHED" => engine'[m] = 1
                        /\ execution'[m].state # "ABSENT" =>
                             inbox'[m].receipt.prepared /\ inbox'[m].receipt.worker = execution'[m].worker
                        /\ Normal' /\ Open(m)' => execution'[m].epoch = platform'.epoch
      BY DEF ExecutedOnce
    <2>1. CASE m = n
      BY <1>0, <1>2, <1>4, <1>8, <1>9, <2>1
    <2>2. CASE m # n
      BY <1>0, <1>4, <2>2 DEF ExecutionInv, ExecutedOnce, Open, Normal
    <2> QED
      BY <2>1, <2>2
  <1>11. EngineOnce'
    <2>1. \A m \in Messages : /\ execution'[m].state = "ABSENT" => engine'[m] = 0
                              /\ execution'[m].state # "ABSENT" => inbox'[m].state = "INPUT_VALIDATED"
      BY <1>0, <1>2, <1>4 DEF ExecutionInv, EngineOnce
    <2>2. ASSUME NEW v \in Workers, At(v, "execute")'
          PROVE  /\ (v = w /\ worker'[v].id = n) \/ (At(v, "execute") /\ worker'[v] = worker[v] /\ worker[v].id # n)
                 /\ worker'[v].id \in Messages
      BY <1>3, <1>5, <1>6, <1>8, <2>2 DEF At, WorkersHaveMessages
    <2>3. \A v \in Workers : At(v, "execute")' =>
            execution'[worker'[v].id].state # "ABSENT" /\ engine'[worker'[v].id] = 0
      BY <1>0, <1>2, <1>4, <1>8, <2>2 DEF ExecutionInv, EngineOnce
    <2>4. \A u, v \in Workers :
            At(u, "execute")' /\ At(v, "execute")' /\ worker'[u].id = worker'[v].id => u = v
      BY <2>2 DEF ExecutionInv, EngineOnce
    <2>5. \A v \in Workers : worker'[v].pc \in {"refresh", "finish", "refinish"} => engine'[worker'[v].id] = 1
      BY <1>0, <1>3, <1>5 DEF ExecutionInv, EngineOnce
    <2>6. \A q \in late' : q.op = "finish" => engine'[q.id] = 1
      BY <1>0 DEF ExecutionInv, EngineOnce
    <2> QED
      BY <2>1, <2>3, <2>4, <2>5, <2>6 DEF EngineOnce
  <1>12. \A m \in Messages : execution[m].state \in Ended => execution'[m] = execution[m]
    BY <1>0, <1>4 DEF Ended
  <1> QED
    BY <1>0, <1>4, <1>5, <1>6, <1>7, <1>10, <1>11, <1>12 DEF ExecutionInv

(* The engine runs: the one worker that was told to has it at zero. *)
LEMMA ExecuteStep ==
  ASSUME LaneInv, NEW w \in Workers, UNCHANGED subject, Execute(w)
  PROVE  /\ UNCHANGED <<platform, run, outboxVars, laneVars, late>>
         /\ worker' \in [Workers -> WorkerState] /\ engine' \in [Messages -> Nat]
         /\ WorkersHaveMessages' /\ InboxInv' /\ ExecutionInv'
  <1> USE DEF LaneInv
  <1>0. UNCHANGED <<platform, run, outboxVars, laneVars, late>> /\ At(w, "execute")
    BY DEF Execute
  <1>1. worker \in [Workers -> WorkerState] /\ engine \in [Messages -> Nat] /\ late \subseteq Requests
    BY DEF TypeOK
  <1>2. PICK n \in Messages : n = worker[w].id
    BY <1>0 DEF WorkersHaveMessages, At
  <1>3. engine[n] = 0 /\ execution[n].state # "ABSENT"
    BY <1>0, <1>2 DEF ExecutionInv, EngineOnce
  <1>4. engine' = [engine EXCEPT ![n] = @ + 1]
    BY <1>2 DEF Execute
  <1>5. engine' \in [Messages -> Nat] /\ \A m \in Messages : engine'[m] = IF m = n THEN 1 ELSE engine[m]
    BY <1>1, <1>3, <1>4
  <1>6. PICK pc \in {"refresh", "fail"} : Go(w, pc)
    BY DEF Execute
  <1> DEFINE next == [worker[w] EXCEPT !.pc = pc]
  <1>7. next \in WorkerState /\ next.pc = pc /\ next.id = n
    <2>1. pc \in WorkerPCs
      BY Members
    <2> QED
      BY <1>1, <1>2, <2>1 DEF WorkerState
  <1>8. worker' = [worker EXCEPT ![w] = next]
    BY <1>1, <1>6 DEF Go
  <1> HIDE DEF next
  <1>9. worker' \in [Workers -> WorkerState]
           /\ \A v \in Workers : worker'[v] = IF v = w THEN next ELSE worker[v]
    BY <1>1, <1>7, <1>8
  <1>10. WorkersHaveMessages'
    BY <1>7, <1>9 DEF WorkersHaveMessages
  <1>11. InboxInv'
    <2>1. \A v \in Workers : worker'[v].pc = "admitted" => worker'[v] = worker[v]
      BY <1>6, <1>7, <1>9
    <2>2. InboxMove
      BY <1>0, InboxStays DEF laneVars
    <2> QED
      BY <2>1, <2>2, InboxMoves
  <1>12. ExecutedOnce'
    BY <1>0, <1>3, <1>5 DEF ExecutionInv, ExecutedOnce, laneVars, Normal, Open
  <1>13. EngineOnce'
    <2>1. \A m \in Messages : /\ execution'[m].state = "ABSENT" => engine'[m] = 0
                              /\ execution'[m].state # "ABSENT" => inbox'[m].state = "INPUT_VALIDATED"
      BY <1>0, <1>3, <1>5 DEF ExecutionInv, EngineOnce, laneVars
    <2>2. ASSUME NEW v \in Workers, At(v, "execute")'
          PROVE  /\ At(v, "execute") /\ worker'[v] = worker[v] /\ v # w
                 /\ worker[v].id \in Messages /\ worker[v].id # n
      <3>1. v # w /\ worker'[v] = worker[v] /\ At(v, "execute")
        BY <1>6, <1>7, <1>9, <2>2 DEF At
      <3>2. worker[v].id \in Messages
        BY <3>1 DEF WorkersHaveMessages, At
      <3> QED
        BY <1>0, <1>2, <3>1, <3>2 DEF ExecutionInv, EngineOnce
    <2>3. \A v \in Workers : At(v, "execute")' =>
            execution'[worker'[v].id].state # "ABSENT" /\ engine'[worker'[v].id] = 0
      BY <1>0, <1>5, <2>2 DEF ExecutionInv, EngineOnce, laneVars
    <2>4. \A u, v \in Workers :
            At(u, "execute")' /\ At(v, "execute")' /\ worker'[u].id = worker'[v].id => u = v
      BY <2>2 DEF ExecutionInv, EngineOnce
    <2>5. \A v \in Workers : worker'[v].pc \in {"refresh", "finish", "refinish"} => engine'[worker'[v].id] = 1
      BY <1>5, <1>7, <1>9, <1>10 DEF ExecutionInv, EngineOnce, WorkersHaveMessages
    <2>6. \A q \in late' : q.op = "finish" => engine'[q.id] = 1
      BY <1>0, <1>1, <1>5 DEF ExecutionInv, EngineOnce, Requests
    <2> QED
      BY <2>1, <2>3, <2>4, <2>5, <2>6 DEF EngineOnce
  <1> QED
    BY <1>0, <1>5, <1>9, <1>10, <1>11, <1>12, <1>13 DEF ExecutionInv

(* The methods of a run keep its record's type. *)
LEMMA RunMethods ==
  ASSUME NEW r \in RunRecord
  PROVE  /\ StartAttempt(r) \in RunRecord /\ PauseRun(r) \in RunRecord
         /\ ResumeRun(r) \in RunRecord /\ TakeoverRun(r) \in RunRecord
  <1>1. /\ "RUNNING" \in RunStates /\ "PAUSED" \in RunStates /\ "HUMAN_CONTROLLED" \in RunStates
        /\ "RUNTIME" \in Owners /\ "HUMAN" \in Owners
    BY DEF RunStates, Owners
  <1>2. r.epoch + 1 \in Nat
    BY DEF RunRecord
  <1>3. StartAttempt(r) \in RunRecord
    BY <1>1, <1>2 DEF StartAttempt, RunRecord
  <1>4. PauseRun(r) \in RunRecord /\ ResumeRun(r) \in RunRecord
    BY <1>1 DEF PauseRun, ResumeRun, RunRecord
  <1>5. TakeoverRun(r) \in RunRecord
    BY <1>1, <1>2 DEF TakeoverRun, RunRecord
  <1> QED
    BY <1>3, <1>4, <1>5

(* The controls of a run change nothing else. *)
LEMMA RunControls ==
  ASSUME LaneInv, NEW n \in Messages, Pause(n) \/ Resume(n) \/ Takeover(n)
  PROVE  /\ run' \in [Messages -> RunRecord]
         /\ UNCHANGED <<platform, outboxVars, laneVars, hostVars>>
  <1>1. run \in [Messages -> RunRecord]
    BY DEF LaneInv, TypeOK
  <1>2. /\ PauseRun(run[n]) \in RunRecord /\ ResumeRun(run[n]) \in RunRecord
        /\ TakeoverRun(run[n]) \in RunRecord
    BY <1>1, RunMethods
  <1>3. PICK row \in RunRecord : run' = [run EXCEPT ![n] = row]
    BY <1>2 DEF Pause, Resume, Takeover
  <1>4. run' \in [Messages -> RunRecord]
    BY <1>1, <1>3
  <1>5. UNCHANGED <<platform, outboxVars, laneVars, hostVars>>
    BY DEF Pause, Resume, Takeover
  <1> QED
    BY <1>4, <1>5

(* A recovery begins and ends with no handler inside Dispatch, and ends    *)
(* with no execution open.                                                 *)
LEMMA RecoverySteps ==
  ASSUME LaneInv, BeginRecovery \/ CompleteRecovery
  PROVE  /\ UNCHANGED <<run, outboxVars, laneVars, hostVars>>
         /\ platform' \in [mode : {"NORMAL", "RECOVERY_RECONCILIATION"}, epoch : Epochs]
         /\ OutboxInv' /\ ExecutionInv'
  <1> USE DEF LaneInv
  <1>0. UNCHANGED <<run, outbox, dispatcher, handled, inbox, execution, worker, late, engine>> /\ PlatformUnlocked
    BY DEF BeginRecovery, CompleteRecovery, outboxVars, laneVars, hostVars
  <1>1. platform \in [mode : {"NORMAL", "RECOVERY_RECONCILIATION"}, epoch : Epochs]
    BY DEF TypeOK
  <1>2. platform' \in [mode : {"NORMAL", "RECOVERY_RECONCILIATION"}, epoch : Epochs]
    <2>1. CASE BeginRecovery
      <3>1. platform.epoch + 1 \in Epochs
        BY <1>1, <2>1, Members DEF BeginRecovery
      <3> QED
        BY <2>1, <3>1 DEF BeginRecovery
    <2>2. CASE CompleteRecovery
      BY <1>1, <2>2 DEF CompleteRecovery
    <2> QED
      BY <2>1, <2>2
  <1>3. OutboxInv'
    <2>1. DispatchHolds' /\ SettledRests' /\ SettledByHolder'
      BY <1>0 DEF OutboxInv, DispatchHolds, SettledRests, SettledByHolder, InDispatch, ExactLease, Registered
    <2>2. UnderAuthority'
      BY <1>0 DEF UnderAuthority, PlatformUnlocked, InDispatch
    <2> QED
      BY <2>1, <2>2 DEF OutboxInv
  <1>4. \A n \in Messages : ~(Normal' /\ Open(n))
    BY <1>1 DEF BeginRecovery, CompleteRecovery, Normal
  <1>5. ExecutionInv'
    <2>1. InboxMove /\ ExecutionMove /\ WorkersMove /\ LateMove
      BY <1>0, InboxStays, ExecutionStays, WorkersStay, LateStays
    <2> QED
      BY <1>0, <1>4, <2>1, ExecutionMoves
  <1> QED
    BY <1>0, <1>2, <1>3, <1>5 DEF outboxVars, laneVars, hostVars


-----------------------------------------------------------------------------
(* The theorems. *)

(* What is settled stays: the action SettledIsFinal is about. *)
NothingSettledMoves ==
  \A n \in Messages :
    /\ outbox[n].state \in {"DISPATCHED", "DEAD_LETTER"} => outbox'[n] = outbox[n]
    /\ inbox[n].state \in {"INPUT_VALIDATED", "REVOKED"} => inbox'[n] = inbox[n]
    /\ execution[n].state \in {"FINISHED", "ABANDONED_RECONCILED"} => execution'[n] = execution[n]

LEMMA InitInv == Init => LaneInv
  <1> SUFFICES ASSUME Init PROVE LaneInv
    OBVIOUS
  <1>1. TypeOK
    <2>1. NoMessage \in OutboxRow
      BY Members DEF NoMessage, OutboxRow, Topics
    <2>2. NoInbox \in InboxRow
      BY Members DEF NoInbox, InboxRow, Receipts
    <2>3. NoExecution \in ExecutionRow
      BY Members DEF NoExecution, ExecutionRow
    <2>4. Idle \in WorkerState
      BY Members DEF Idle, WorkerState
    <2>5. NewRun \in RunRecord
      BY DEF NewRun, RunRecord, RunStates, Owners
    <2>6. platform \in [mode : {"NORMAL", "RECOVERY_RECONCILIATION"}, epoch : Epochs]
      BY Members DEF Init
    <2> QED
      BY <2>1, <2>2, <2>3, <2>4, <2>5, <2>6, NoBatchTyped DEF Init, TypeOK
  <1>2. WorkersHaveMessages
    BY DEF Init, WorkersHaveMessages, Idle
  <1>3. OutboxInv
    BY DEF Init, OutboxInv, DispatchHolds, SettledRests, SettledByHolder, UnderAuthority, InDispatch,
       NoBatch, NoMessage, NoInbox
  <1>4. InboxInv
    BY DEF Init, InboxInv, InboxRests, ReceiptIsHolders, NoInbox, At, Idle
  <1>5. ExecutionInv
    BY DEF Init, ExecutionInv, EngineOnce, ExecutedOnce, NoExecution, At, Idle, Open
  <1> QED
    BY <1>1, <1>2, <1>3, <1>4, <1>5 DEF LaneInv

(* A step of the outbox alone. *)
LEMMA OutboxPreserves ==
  ASSUME LaneInv, TypeOK', OutboxInv', UNCHANGED <<subject, platform, inbox, execution, worker, late, engine>>,
         \A n \in Messages : outbox[n].state \in Settled => outbox'[n] = outbox[n]
  PROVE  LaneInv' /\ NothingSettledMoves
  <1>1. WorkersHaveMessages'
    BY DEF LaneInv, WorkersHaveMessages
  <1>2. InboxInv'
    BY DEF LaneInv, InboxInv, InboxRests, ReceiptIsHolders, At, Subject
  <1>3. ExecutionInv'
    BY DEF LaneInv, ExecutionInv, EngineOnce, ExecutedOnce, At, Open, Normal
  <1>4. NothingSettledMoves
    BY DEF NothingSettledMoves, Settled
  <1> QED
    BY <1>1, <1>2, <1>3, <1>4 DEF LaneInv

(* A step of the workers and of their rows. *)
LEMMA LanePreserves ==
  ASSUME LaneInv, LaneMove, UNCHANGED <<subject, platform, run, outboxVars, engine>>
  PROVE  LaneInv' /\ NothingSettledMoves
  <1> USE DEF LaneInv, LaneMove
  <1>0. UNCHANGED <<outbox, dispatcher, handled>>
    BY DEF outboxVars
  <1>1. TypeOK'
    <2>1. worker' \in [Workers -> WorkerState]
      BY DEF WorkersMove, WorkerMove
    <2> QED
      BY <1>0, <2>1 DEF TypeOK, InboxMove, ExecutionMove, LateMove
  <1>2. WorkersHaveMessages'
    BY DEF WorkersMove, WorkerMove, WorkersHaveMessages
  <1>3. OutboxInv'
    BY <1>0, OutboxKept
  <1>4. InboxInv'
    <2>1. \A w \in Workers : worker'[w].pc = "admitted" => worker'[w] = worker[w] \/ ToldTruth(w)'
      BY DEF WorkersMove, WorkerMove
    <2> QED
      BY <2>1, InboxMoves
  <1>5. ExecutionInv'
    <2>1. \A n \in Messages : Normal' /\ Open(n) => execution[n].epoch = platform'.epoch
      BY DEF ExecutionInv, ExecutedOnce, Normal
    <2> QED
      BY <2>1, ExecutionMoves
  <1>6. NothingSettledMoves
    BY <1>0 DEF NothingSettledMoves, InboxMove, ExecutionMove, Decided, Ended
  <1> QED
    BY <1>1, <1>2, <1>3, <1>4, <1>5, <1>6

(* Every step of the specification. *)
LEMMA StepInv ==
  ASSUME LaneInv, Next
  PROVE  LaneInv' /\ NothingSettledMoves
  <1>0. UNCHANGED subject /\ TypeOK
    BY DEF Next, LaneInv
  <1>1. ASSUME NEW n \in Messages, NEW topic \in Topics,
               Mutate(n, topic) \/ ExpireOutboxLease(n) \/ RetryDue(n)
        PROVE  LaneInv' /\ NothingSettledMoves
    <2>1. /\ outbox' \in [Messages -> OutboxRow] /\ RowsMove /\ DispatchesStay
          /\ UNCHANGED <<platform, dispatcher, handled, inbox, execution, worker, late, engine>>
      BY <1>1, RowSteps
    <2>2. run' \in [Messages -> RunRecord]
      <3>1. StartAttempt(run[n]) \in RunRecord
        BY <1>0, RunMethods DEF TypeOK
      <3>2. run' = run \/ run' = [run EXCEPT ![n] = StartAttempt(@)]
        BY <1>1 DEF Mutate, ExpireOutboxLease, RetryDue
      <3> QED
        BY <1>0, <3>1, <3>2 DEF TypeOK
    <2>3. TypeOK'
      BY <1>0, <2>1, <2>2 DEF TypeOK
    <2>4. OutboxInv'
      BY <1>0, <2>1, <2>3, OutboxMoves DEF LaneInv
    <2> QED
      BY <1>0, <2>1, <2>3, <2>4, OutboxPreserves DEF RowsMove
  <1>2. ASSUME NEW d \in Dispatchers, DispatcherStep(d)
        PROVE  LaneInv' /\ NothingSettledMoves
    <2>1. CASE Dispatch(d)
      <3>1. /\ UNCHANGED <<platform, outbox, handled, run, inbox, execution, worker, late, engine>>
            /\ dispatcher' \in [Dispatchers -> DispatcherState] /\ OutboxInv'
        BY <2>1, DispatchStep
      <3>2. TypeOK'
        BY <1>0, <3>1 DEF TypeOK
      <3> QED
        BY <1>0, <3>1, <3>2, OutboxPreserves
    <2>2. CASE HandlerReturns(d) \/ ConnectionDrops(d) \/ DetachedReturns(d)
      <3>1. /\ UNCHANGED <<platform, outbox, run, inbox, execution, worker, late, engine>>
            /\ dispatcher' \in [Dispatchers -> DispatcherState] /\ handled' \in [Messages -> SUBSET Attempts]
            /\ RowsMove /\ DispatchesStay
        BY <2>2, HandlerStep, DetachedSteps
      <3>2. TypeOK'
        BY <1>0, <3>1 DEF TypeOK
      <3>3. OutboxInv'
        BY <1>0, <3>1, <3>2, OutboxMoves DEF LaneInv
      <3> QED
        BY <1>0, <3>1, <3>2, <3>3, OutboxPreserves
    <2>3. CASE Claim(d) \/ DeadLetterUnhandled(d) \/ DispatchReturns(d) \/ DispatcherDies(d)
      <3>1. /\ outbox' \in [Messages -> OutboxRow] /\ dispatcher' \in [Dispatchers -> DispatcherState]
            /\ RowsMove /\ DispatchesStay
        BY <2>3, ClaimStep, SettlingSteps
      <3>2. UNCHANGED <<platform, handled, run, inbox, execution, worker, late, engine>>
        BY <2>3 DEF Claim, DeadLetterUnhandled, DispatchReturns, DispatcherDies, laneVars, hostVars
      <3>3. TypeOK'
        BY <1>0, <3>1, <3>2 DEF TypeOK
      <3>4. OutboxInv'
        BY <1>0, <3>1, <3>2, <3>3, OutboxMoves DEF LaneInv
      <3> QED
        BY <1>0, <3>1, <3>2, <3>3, <3>4, OutboxPreserves DEF RowsMove
    <2> QED
      BY <1>2, <2>1, <2>2, <2>3 DEF DispatcherStep
  <1>3. ASSUME NEW w \in Workers, WorkerStep(w)
        PROVE  LaneInv' /\ NothingSettledMoves
    <2>1. CASE \E n \in Messages : StartOffline(w, n)
      <3>1. PICK n \in Messages : StartOffline(w, n)
        BY <2>1
      <3>2. /\ UNCHANGED <<platform, run, outboxVars, inbox, late, engine>>
            /\ execution' \in [Messages -> ExecutionRow] /\ worker' \in [Workers -> WorkerState]
            /\ WorkersHaveMessages' /\ InboxInv' /\ ExecutionInv'
            /\ \A m \in Messages : execution[m].state \in Ended => execution'[m] = execution[m]
        BY <1>0, <3>1, StartStep
      <3>3. TypeOK'
        BY <1>0, <3>2 DEF TypeOK, outboxVars
      <3>4. OutboxInv'
        BY <3>2, OutboxKept, InboxStays DEF outboxVars, LaneInv
      <3>5. NothingSettledMoves
        BY <3>2 DEF NothingSettledMoves, outboxVars, Ended
      <3> QED
        BY <3>2, <3>3, <3>4, <3>5 DEF LaneInv
    <2>2. CASE Execute(w)
      <3>1. /\ UNCHANGED <<platform, run, outboxVars, laneVars, late>>
            /\ worker' \in [Workers -> WorkerState] /\ engine' \in [Messages -> Nat]
            /\ WorkersHaveMessages' /\ InboxInv' /\ ExecutionInv'
        BY <1>0, <2>2, ExecuteStep
      <3>2. TypeOK'
        BY <1>0, <3>1 DEF TypeOK, outboxVars, laneVars
      <3>3. OutboxInv'
        BY <3>1, OutboxKept, InboxStays DEF outboxVars, laneVars, LaneInv
      <3>4. NothingSettledMoves
        BY <3>1 DEF NothingSettledMoves, outboxVars, laneVars
      <3> QED
        BY <3>1, <3>2, <3>3, <3>4 DEF LaneInv
    <2>3. CASE ClaimInput(w)
      BY <1>0, <2>3, ClaimInputStep, LanePreserves
    <2>4. CASE FirstRenew(w) \/ FinalRenew(w) \/ Report(w) \/ Refresh(w) \/ Finish(w) \/ Fail(w)
      BY <1>0, <2>4, CallSteps, LanePreserves
    <2>5. CASE Prepare(w) \/ PollAgain(w) \/ ExecuteFails(w) \/ WorkerDies(w)
      BY <1>0, <2>5, HostSteps, LanePreserves
    <2> QED
      BY <1>3, <2>1, <2>2, <2>3, <2>4, <2>5 DEF WorkerStep
  <1>4. ASSUME NEW q \in late, LateCall(q)
        PROVE  LaneInv' /\ NothingSettledMoves
    BY <1>0, <1>4, HostSteps, LanePreserves
  <1>5. ASSUME NEW n \in Messages, ExpireInput(n) \/ ExpirePermit(n) \/ AbandonExecution(n)
        PROVE  LaneInv' /\ NothingSettledMoves
    BY <1>0, <1>5, ExpirySteps, LanePreserves
  <1>6. ASSUME NEW n \in Messages, Pause(n) \/ Resume(n) \/ Takeover(n)
        PROVE  LaneInv' /\ NothingSettledMoves
    <2>1. run' \in [Messages -> RunRecord] /\ UNCHANGED <<platform, outboxVars, laneVars, hostVars>>
      BY <1>6, RunControls
    <2>2. TypeOK'
      BY <1>0, <2>1 DEF TypeOK, outboxVars, laneVars, hostVars
    <2>3. OutboxInv'
      BY <2>1, OutboxKept, InboxStays DEF outboxVars, laneVars, LaneInv
    <2> QED
      BY <1>0, <2>1, <2>2, <2>3, OutboxPreserves DEF outboxVars, laneVars, hostVars
  <1>7. CASE RelayRunStart
    <2>1. /\ UNCHANGED <<platform, dispatcher, run, handled, execution, worker, late, engine>>
          /\ outbox' \in [Messages -> OutboxRow] /\ InboxMove /\ OutboxInv'
          /\ \A n \in Messages : outbox[n].state \in Settled => outbox'[n] = outbox[n]
      BY <1>7, RelayStep
    <2>2. TypeOK'
      BY <1>0, <2>1 DEF TypeOK, InboxMove
    <2>3. InboxInv' /\ WorkersHaveMessages'
      BY <1>0, <2>1, InboxMoves DEF LaneInv, WorkersHaveMessages
    <2>4. ExecutionMove /\ WorkersMove /\ LateMove
      BY <2>1, ExecutionStays, WorkersStay, LateStays DEF LaneInv
    <2>5. \A n \in Messages : Normal' /\ Open(n) => execution[n].epoch = platform'.epoch
      BY <2>1 DEF LaneInv, ExecutionInv, ExecutedOnce, Normal
    <2>6. ExecutionInv'
      BY <2>1, <2>4, <2>5, ExecutionMoves DEF LaneInv
    <2>7. NothingSettledMoves
      BY <2>1 DEF NothingSettledMoves, InboxMove, Settled, Decided
    <2> QED
      BY <2>1, <2>2, <2>3, <2>6, <2>7 DEF LaneInv
  <1>8. CASE BeginRecovery \/ CompleteRecovery
    <2>1. /\ UNCHANGED <<run, outboxVars, laneVars, hostVars>> /\ OutboxInv' /\ ExecutionInv'
          /\ platform' \in [mode : {"NORMAL", "RECOVERY_RECONCILIATION"}, epoch : Epochs]
      BY <1>8, RecoverySteps
    <2>2. TypeOK'
      BY <1>0, <2>1 DEF TypeOK, outboxVars, laneVars, hostVars
    <2>3. InboxInv' /\ WorkersHaveMessages'
      BY <1>0, <2>1 DEF LaneInv, InboxInv, InboxRests, ReceiptIsHolders, At, Subject, WorkersHaveMessages,
         laneVars, hostVars
    <2>4. NothingSettledMoves
      BY <2>1 DEF NothingSettledMoves, outboxVars, laneVars
    <2> QED
      BY <2>1, <2>2, <2>3, <2>4 DEF LaneInv
  <1>9. "custom" \in Topics
    BY DEF Topics
  <1> QED
    BY <1>1, <1>2, <1>3, <1>4, <1>5, <1>6, <1>7, <1>8, <1>9 DEF Next

LEMMA StutterInv ==
  ASSUME LaneInv, UNCHANGED vars
  PROVE  LaneInv' /\ NothingSettledMoves
  <1>1. UNCHANGED <<subject, platform, run, outboxVars, engine, inbox, execution, worker, late>>
    BY DEF vars, outboxVars
  <1>2. LaneMove
    BY <1>1, InboxStays, ExecutionStays, WorkersStay, LateStays DEF LaneMove, LaneInv
  <1> QED
    BY <1>1, <1>2, LanePreserves

(* LaneInv holds of every reachable state. *)
THEOREM LaneInductive == Spec => []LaneInv
  <1>1. Init => LaneInv
    BY InitInv
  <1>2. LaneInv /\ [Next]_vars => LaneInv'
    BY StepInv, StutterInv
  <1> QED
    BY <1>1, <1>2, PTL DEF Spec

(* The rows, the processes and the calls under way keep their types. *)
THEOREM LaneTyped == Spec => []TypeOK
  <1>1. LaneInv => TypeOK
    BY DEF LaneInv
  <1> QED
    BY <1>1, LaneInductive, PTL

(* A message is DISPATCHED only by the attempt whose handler succeeded,    *)
(* and a run reaches the inbox in the transaction that settles its         *)
(* message: settleOutbox compares owner and attempt under the row's lock.  *)
THEOREM SettledByTheHolder == Spec => []SettledByHolder
  <1>1. LaneInv => SettledByHolder
    BY DEF LaneInv, OutboxInv
  <1> QED
    BY <1>1, LaneInductive, PTL

(* A handler with side effects that runs into a recovery, under the lease  *)
(* of an earlier epoch or beside another handler of its message has lost   *)
(* its connection: until then Dispatch keeps the platform row share-locked *)
(* and the message's row locked.                                           *)
THEOREM NothingStaleDelivered == Spec => []NoStaleDelivery
  <1>1. LaneInv => NoStaleDelivery
    BY DEF LaneInv, OutboxInv, NoStaleDelivery, DispatchHolds, InDispatch
  <1> QED
    BY <1>1, LaneInductive, PTL

(* An admission receipt is its holder's, and a worker told so was told the *)
(* truth: lockWorkerLease compares the whole token.                        *)
THEOREM ReceiptsAreHolders == Spec => []ReceiptIsHolders
  <1>1. LaneInv => ReceiptIsHolders
    BY DEF LaneInv, InboxInv
  <1> QED
    BY <1>1, LaneInductive, PTL

(* The sandbox engine runs at most once for a run, for any number of       *)
(* workers, lost answers, late calls, crashes and recoveries: the run is   *)
(* the key of its execution.                                               *)
THEOREM EngineRunsOnce == Spec => []ExecutedOnce
  <1>1. LaneInv => ExecutedOnce
    BY DEF LaneInv, ExecutionInv
  <1> QED
    BY <1>1, LaneInductive, PTL

(* Settled messages, receipts and ended executions never change. *)
THEOREM SettledStaysFinal == Spec => SettledIsFinal
  <1> DEFINE Final ==
        \A n \in Messages :
          /\ outbox[n].state \in {"DISPATCHED", "DEAD_LETTER"} => outbox'[n] = outbox[n]
          /\ inbox[n].state \in {"INPUT_VALIDATED", "REVOKED"} => inbox'[n] = inbox[n]
          /\ execution[n].state \in {"FINISHED", "ABANDONED_RECONCILED"} =>
               execution'[n] = execution[n]
  <1>1. LaneInv /\ [Next]_vars => [Final]_vars
    BY StepInv DEF NothingSettledMoves
  <1> QED
    BY <1>1, LaneInductive, PTL DEF Spec, SettledIsFinal

=============================================================================
