----------------------- MODULE AppServerClientProofs -----------------------
(***************************************************************************)
(* The connection to the app-server, for any number of requests and any    *)
(* sequence of answers and events: every call is answered once and none is *)
(* lost, and no turn is active after its completion.                       *)
(***************************************************************************)
EXTENDS AppServerClient, TLAPS

Response == [kind : {"response"}, id : Ids]
Event == [kind : {"completed", "item", "approval"}, turn : Turns]

HostPCs == {"initialize", "warm", "remove", "thread", "turn", "observe", "settle", "passed", "failed"}

CallType ==
  /\ client \in [done : BOOLEAN, reading : BOOLEAN, nextID : 0 .. MaxIDs, pending : SUBSET Ids]
  /\ reply \in [Ids -> Seq(0 .. MaxIDs)]
  /\ holding \in 0 .. MaxIDs

MessagesOK == fromServer \in Seq(Response \cup Event) /\ events \in Seq(Event)

TurnType ==
  /\ adapter \in [initialized : BOOLEAN, thread : BOOLEAN, turn : {0, 1}, starting : BOOLEAN,
                  earlyCompletion : {0} \cup Turns]
  /\ host \in [pc : HostPCs, id : 0 .. MaxIDs, seen : SUBSET Turns]
  /\ consumed \in SUBSET Turns

(* Where the answer to a call is: it is still waited for, or the read loop *)
(* holds it, or it is in the call's channel, alone; never in two places    *)
(* and never nowhere.                                                      *)
CallInv(i) ==
  /\ i > client.nextID => i \notin client.pending /\ holding # i /\ reply[i] = <<>>
  /\ i <= client.nextID => i \in client.pending \/ holding = i \/ reply[i] # <<>>
  /\ i \in client.pending => holding # i /\ reply[i] = <<>>
  /\ holding = i => reply[i] = <<>>
  /\ reply[i] # <<>> => reply[i] \in {<<i>>, <<ClosedReply>>}

(* Nobody waits on a stopped client. *)
StopInv == client.done => client.pending = {}

(* The turn the server runs is not active before its completion can have   *)
(* been seen, unless it was: a completion that overtakes the answer to     *)
(* turn/start is remembered until that answer comes.                       *)
TurnInv ==
  /\ adapter.turn = 1 => 1 \notin consumed
  /\ host.pc \in {"initialize", "warm", "remove", "thread"} =>
       adapter.turn = 0 /\ ~adapter.starting /\ 1 \notin consumed
  /\ host.pc = "turn" => /\ adapter.turn = 0
                         /\ adapter.starting <=> host.id # NoRequest
                         /\ ~adapter.starting \/ adapter.earlyCompletion = 0 => 1 \notin consumed
  /\ host.pc \in {"observe", "settle", "passed"} => ~adapter.starting

CallsInv == CallType /\ (\A i \in Ids : CallInv(i)) /\ StopInv

AInv == CallsInv /\ MessagesOK /\ TurnType /\ TurnInv

-----------------------------------------------------------------------------
(* Calls: what happens to client, reply, holding and requests. *)

Calls == <<client, reply, holding>>

LEMMA CallsKept ==
  ASSUME CallsInv, UNCHANGED Calls  PROVE CallsInv'
BY DEF CallsInv, Calls, CallType, CallInv, StopInv

LEMMA StopKeepsCalls ==
  ASSUME CallsInv, NEW reading \in BOOLEAN, Stopped(reading), holding' = holding
  PROVE  CallsInv'
<1>0. ClosedReply \in 0 .. MaxIDs BY ClientAssumption DEF ClosedReply
<1>1. /\ client' \in [done : BOOLEAN, reading : BOOLEAN, nextID : 0 .. MaxIDs, pending : SUBSET Ids]
      /\ client'.pending = {} /\ client'.nextID = client.nextID
  BY DEF CallsInv, CallType, Stopped
<1>2. ASSUME NEW i \in Ids
      PROVE  /\ reply'[i] = IF i \in client.pending THEN <<ClosedReply>> ELSE reply[i]
             /\ reply'[i] \in Seq(0 .. MaxIDs)
  <2>1. CallInv(i) /\ reply[i] \in Seq(0 .. MaxIDs) BY DEF CallsInv, CallType
  <2>2. reply'[i] = IF i \in client.pending THEN Append(reply[i], ClosedReply) ELSE reply[i]
    BY DEF Stopped
  <2>3. CASE i \in client.pending
    <3>1. reply[i] = <<>> BY <2>1, <2>3 DEF CallInv
    <3>2. Append(reply[i], ClosedReply) = <<ClosedReply>> BY <3>1
    <3> QED BY <1>0, <2>2, <2>3, <3>2
  <2>4. CASE i \notin client.pending BY <2>1, <2>2, <2>4
  <2> QED BY <2>3, <2>4
<1>3. reply' \in [Ids -> Seq(0 .. MaxIDs)]
  <2>1. reply' = [i \in Ids |-> reply'[i]] BY DEF Stopped
  <2> QED BY <1>2, <2>1
<1>4. ASSUME NEW i \in Ids PROVE CallInv(i)'
  <2>1. CallInv(i) BY DEF CallsInv
  <2>2. <<ClosedReply>> # <<>> OBVIOUS
  <2>3. client.nextID \in Nat /\ i \in Nat BY DEF CallsInv, CallType, Ids
  <2>4. CASE i \in client.pending
    <3>1. reply'[i] = <<ClosedReply>> /\ i <= client.nextID /\ holding # i
      BY <1>2, <2>1, <2>3, <2>4 DEF CallInv
    <3> QED BY <1>1, <2>2, <2>3, <3>1 DEF CallInv
  <2>5. CASE i \notin client.pending
    <3>1. reply'[i] = reply[i] BY <1>2, <2>5
    <3> QED BY <1>1, <2>1, <2>5, <3>1 DEF CallInv
  <2> QED BY <2>4, <2>5
<1> QED BY <1>1, <1>3, <1>4 DEF CallsInv, CallType, StopInv

LEMMA SendsKeepsCalls ==
  ASSUME CallsInv, CanReserve, NEW method, Sends(method), UNCHANGED <<reply, holding>>
  PROVE  CallsInv'
<1> DEFINE n == client.nextID + 1
           numbered == [client EXCEPT !.nextID = n]
<1>1. client.nextID \in Nat /\ n \in Ids /\ n \in 0 .. MaxIDs
  BY ClientAssumption DEF CallsInv, CallType, CanReserve, Ids
<1>2. client' = [numbered EXCEPT !.pending = client.pending \cup {n}] BY DEF Sends
<1> HIDE DEF n
<1>3. /\ numbered \in [done : BOOLEAN, reading : BOOLEAN, nextID : 0 .. MaxIDs, pending : SUBSET Ids]
      /\ numbered.nextID = n /\ numbered.done = client.done
  BY <1>1 DEF CallsInv, CallType
<1> HIDE DEF numbered
<1>4. client.pending \cup {n} \in SUBSET Ids BY <1>1 DEF CallsInv, CallType
<1>5. /\ client' \in [done : BOOLEAN, reading : BOOLEAN, nextID : 0 .. MaxIDs, pending : SUBSET Ids]
      /\ client'.pending = client.pending \cup {n} /\ client'.nextID = n /\ client'.done = client.done
  BY <1>2, <1>3, <1>4
<1>6. ASSUME NEW i \in Ids PROVE CallInv(i)'
  <2>1. CallInv(i) /\ i \in Nat BY DEF CallsInv, Ids
  <2> QED BY <1>1, <1>5, <2>1 DEF CallInv, n
<1> QED BY <1>5, <1>6 DEF CallsInv, CallType, StopInv, CanReserve

LEMMA ReadKeepsCalls ==
  ASSUME CallsInv, ReadResponse  PROVE CallsInv'
<1> DEFINE m == Head(fromServer).id
<1>1. CASE m \in client.pending
  <2>1. holding' = m /\ reply' = reply /\ holding = 0 /\ m \in Ids
    BY <1>1 DEF ReadResponse, CallsInv, CallType
  <2>2. /\ client' \in [done : BOOLEAN, reading : BOOLEAN, nextID : 0 .. MaxIDs, pending : SUBSET Ids]
        /\ client'.pending = client.pending \ {m} /\ client'.nextID = client.nextID
        /\ client'.done = client.done
    BY <1>1 DEF ReadResponse, CallsInv, CallType
  <2>3. ASSUME NEW i \in Ids PROVE CallInv(i)'
    <3>1. CallInv(i) /\ CallInv(m) BY <2>1 DEF CallsInv
    <3>2. client.nextID \in Nat /\ i \in Nat BY DEF CallsInv, CallType, Ids
    <3> HIDE DEF m
    <3> QED BY <1>1, <2>1, <2>2, <3>1, <3>2 DEF CallInv, Ids
  <2> QED BY <1>1, <2>1, <2>2, <2>3 DEF CallsInv, CallType, StopInv, Ids
<1>2. CASE m \notin client.pending
  BY <1>2, CallsKept DEF ReadResponse, Calls
<1> QED BY <1>1, <1>2

LEMMA DeliverKeepsCalls ==
  ASSUME CallsInv, DeliverResponse  PROVE CallsInv'
<1>1. holding \in Ids BY ClientAssumption DEF CallsInv, CallType, DeliverResponse, Ids
<1>2. reply[holding] = <<>> BY <1>1 DEF CallsInv, CallInv
<1>3. Append(reply[holding], holding) = <<holding>> BY <1>2
<1>4. /\ reply' = [reply EXCEPT ![holding] = <<holding>>] /\ holding' = 0 /\ client' = client
  BY <1>3 DEF DeliverResponse
<1>5. /\ reply' \in [Ids -> Seq(0 .. MaxIDs)] /\ reply'[holding] = <<holding>>
      /\ \A i \in Ids : i # holding => reply'[i] = reply[i]
  BY <1>1, <1>4 DEF CallsInv, CallType
<1>6. ASSUME NEW i \in Ids PROVE CallInv(i)'
  <2>1. CallInv(i) /\ i # 0 BY DEF CallsInv, Ids
  <2>2. <<holding>> # <<>> OBVIOUS
  <2> QED BY <1>4, <1>5, <2>1, <2>2 DEF CallInv
<1> QED BY <1>4, <1>5, <1>6, ClientAssumption DEF CallsInv, CallType, StopInv

-----------------------------------------------------------------------------
(* Messages: what happens to fromServer and events. *)

LEMMA MessagesKept ==
  ASSUME MessagesOK, AppNext  PROVE MessagesOK'
<1>1. ASSUME fromServer # <<>>
      PROVE  Tail(fromServer) \in Seq(Response \cup Event) /\ Head(fromServer) \in Response \cup Event
  BY <1>1 DEF MessagesOK
<1>2. ASSUME NEW m, fromServer' = Append(fromServer, m), m \in Response \cup Event, events' = events
      PROVE  MessagesOK'
  BY <1>2 DEF MessagesOK
<1>3. CASE ReadResponse BY <1>1, <1>3 DEF MessagesOK, ReadResponse
<1>4. CASE ReadEvent
  <2>1. Head(fromServer) \in Event BY <1>1, <1>4 DEF ReadEvent, Response
  <2>2. fromServer' \in Seq(Response \cup Event) BY <1>1, <1>4 DEF ReadEvent
  <2>3. events' = events \/ events' = Append(events, Head(fromServer)) BY <1>4 DEF ReadEvent
  <2>4. events' \in Seq(Event) BY <2>1, <2>3 DEF MessagesOK
  <2> QED BY <2>2, <2>4 DEF MessagesOK
<1>5. CASE AdapterNext BY <1>5 DEF MessagesOK, AdapterNext
<1>6. ASSUME NEW id \in Ids, ServerAnswers(id) PROVE MessagesOK'
  <2>1. [kind |-> "response", id |-> id] \in Response BY DEF Response
  <2> QED BY <1>2, <1>6, <2>1 DEF ServerAnswers
<1>7. ASSUME NEW kind \in {"completed", "item", "approval"}, NEW turn \in Turns, ServerSends(kind, turn)
      PROVE  MessagesOK'
  <2>1. [kind |-> kind, turn |-> turn] \in Event BY DEF Event
  <2> QED BY <1>2, <1>7, <2>1 DEF ServerSends
<1>8. ASSUME UNCHANGED <<fromServer, events>> PROVE MessagesOK' BY <1>8 DEF MessagesOK
<1> QED BY <1>3, <1>4, <1>5, <1>6, <1>7, <1>8
    DEF AppNext, DeliverResponse, ReadEnds, HostCall, HostAnswered, RemoveCredential, StartTurn,
        ObserveTurn, SettleProbe, HostFails, PumpReads, PumpSends, PumpAnswered, PumpFails

-----------------------------------------------------------------------------
(* The turn: what happens to adapter, host and consumed. *)

(* The host goes on, without a call. *)
LEMMA HostGoes ==
  ASSUME host \in [pc : HostPCs, id : 0 .. MaxIDs, seen : SUBSET Turns], NEW pc \in HostPCs,
         host' = [host EXCEPT !.id = NoRequest, !.pc = pc]
  PROVE  /\ host' \in [pc : HostPCs, id : 0 .. MaxIDs, seen : SUBSET Turns]
         /\ host'.pc = pc /\ host'.id = NoRequest
<1> DEFINE free == [host EXCEPT !.id = NoRequest]
<1>1. free \in [pc : HostPCs, id : 0 .. MaxIDs, seen : SUBSET Turns] /\ free.id = NoRequest
  BY ClientAssumption DEF NoRequest
<1>2. host' = [free EXCEPT !.pc = pc] OBVIOUS
<1> HIDE DEF free
<1> QED BY <1>1, <1>2

LEMMA HostCallTurn ==
  ASSUME TurnType, TurnInv, CallsInv, HostCall  PROVE TurnType' /\ TurnInv'
<1>1. client.nextID + 1 \in 1 .. MaxIDs BY ClientAssumption DEF HostCall, CanReserve, CallsInv, CallType
<1>2. /\ host' \in [pc : HostPCs, id : 0 .. MaxIDs, seen : SUBSET Turns]
      /\ host'.pc = host.pc /\ host'.id # NoRequest
  BY <1>1 DEF HostCall, TurnType, NoRequest
<1>3. consumed' = consumed BY DEF HostCall
<1>4. CASE host.pc = "turn"
  <2>1. adapter' = [adapter EXCEPT !.starting = TRUE, !.earlyCompletion = 0] BY <1>4 DEF HostCall
  <2>2. /\ adapter' \in [initialized : BOOLEAN, thread : BOOLEAN, turn : {0, 1}, starting : BOOLEAN,
                         earlyCompletion : {0} \cup Turns]
        /\ adapter'.turn = adapter.turn /\ adapter'.starting
    BY <2>1 DEF TurnType
  <2>3. adapter.turn = 0 /\ 1 \notin consumed
    BY <1>4 DEF TurnInv, HostCall
  <2> QED BY <1>2, <1>3, <1>4, <2>2, <2>3 DEF TurnType, TurnInv
<1>5. CASE host.pc # "turn"
  <2>1. adapter' = adapter BY <1>5 DEF HostCall
  <2> QED BY <1>2, <1>3, <1>5, <2>1 DEF TurnType, TurnInv
<1> QED BY <1>4, <1>5

LEMMA HostAnsweredTurn ==
  ASSUME TurnType, TurnInv, HostAnswered  PROVE TurnType' /\ TurnInv'
<1> DEFINE after == [initialize |-> "warm", warm |-> "remove", thread |-> "turn"][host.pc]
<1>0. host.pc \in {"initialize", "warm", "thread"} /\ consumed' = consumed BY DEF HostAnswered
<1>1. /\ after \in HostPCs /\ after \in {"warm", "remove", "turn"} BY <1>0 DEF HostPCs
<1>2. host' = [host EXCEPT !.id = NoRequest, !.pc = after] BY DEF HostAnswered
<1> HIDE DEF after
<1>3. /\ host' \in [pc : HostPCs, id : 0 .. MaxIDs, seen : SUBSET Turns]
      /\ host'.pc = after /\ host'.id = NoRequest
  BY <1>1, <1>2, HostGoes DEF TurnType
<1>4. /\ adapter' \in [initialized : BOOLEAN, thread : BOOLEAN, turn : {0, 1}, starting : BOOLEAN,
                       earlyCompletion : {0} \cup Turns]
      /\ adapter'.turn = adapter.turn /\ adapter'.starting = adapter.starting
  <2>1. CASE host.pc = "initialize" BY <2>1 DEF HostAnswered, TurnType
  <2>2. CASE host.pc = "thread" BY <2>2 DEF HostAnswered, TurnType
  <2>3. CASE host.pc = "warm" BY <2>3 DEF HostAnswered, TurnType
  <2> QED BY <1>0, <2>1, <2>2, <2>3
<1>5. adapter.turn = 0 /\ ~adapter.starting /\ 1 \notin consumed BY <1>0 DEF TurnInv
<1> QED BY <1>0, <1>1, <1>3, <1>4, <1>5 DEF TurnType, TurnInv

(* The answer to turn/start makes the turn the active one, unless its      *)
(* completion has come first.                                              *)
LEMMA StartTurnTurn ==
  ASSUME TurnType, TurnInv, StartTurn  PROVE TurnType' /\ TurnInv'
<1> DEFINE early == adapter.earlyCompletion
<1>0. /\ host.pc = "turn" /\ consumed' = consumed /\ adapter.turn = 0
      /\ early = 0 => 1 \notin consumed
  BY DEF StartTurn, TurnInv
<1>1. CASE early \notin {0, 1}
  <2>1. /\ adapter' = [adapter EXCEPT !.starting = FALSE]
        /\ host' = [host EXCEPT !.id = NoRequest, !.pc = "failed"]
    BY <1>1 DEF StartTurn
  <2>2. /\ host' \in [pc : HostPCs, id : 0 .. MaxIDs, seen : SUBSET Turns] /\ host'.pc = "failed"
    BY <2>1, HostGoes DEF TurnType, HostPCs
  <2>3. /\ adapter' \in [initialized : BOOLEAN, thread : BOOLEAN, turn : {0, 1}, starting : BOOLEAN,
                         earlyCompletion : {0} \cup Turns]
        /\ adapter'.turn = 0
    BY <1>0, <2>1 DEF TurnType
  <2> QED BY <1>0, <2>2, <2>3 DEF TurnType, TurnInv
<1>2. CASE early \in {0, 1}
  <2> DEFINE turn == IF early = 1 THEN 0 ELSE 1
             begun == [adapter EXCEPT !.starting = FALSE, !.earlyCompletion = 0]
  <2>1. turn \in {0, 1} /\ (turn = 1 => 1 \notin consumed) BY <1>0, <1>2
  <2>2. /\ adapter' = [begun EXCEPT !.turn = turn]
        /\ host' = [host EXCEPT !.id = NoRequest, !.pc = "observe"]
    BY <1>2 DEF StartTurn
  <2>3. /\ begun \in [initialized : BOOLEAN, thread : BOOLEAN, turn : {0, 1}, starting : BOOLEAN,
                      earlyCompletion : {0} \cup Turns]
        /\ begun.starting = FALSE
    BY DEF TurnType
  <2> HIDE DEF turn, begun
  <2>4. /\ adapter' \in [initialized : BOOLEAN, thread : BOOLEAN, turn : {0, 1}, starting : BOOLEAN,
                         earlyCompletion : {0} \cup Turns]
        /\ adapter'.turn = turn /\ adapter'.starting = FALSE
    BY <2>1, <2>2, <2>3
  <2>5. /\ host' \in [pc : HostPCs, id : 0 .. MaxIDs, seen : SUBSET Turns]
        /\ host'.pc = "observe"
    BY <2>2, HostGoes DEF TurnType, HostPCs
  <2> QED BY <1>0, <2>1, <2>4, <2>5 DEF TurnType, TurnInv
<1> QED BY <1>1, <1>2

LEMMA NextTurn ==
  ASSUME TurnType, TurnInv, MessagesOK, AdapterNext  PROVE TurnType' /\ TurnInv'
<1> DEFINE e == Head(events)
<1>0. e \in Event /\ e.turn \in Turns
  <2>1. e \in Event BY DEF AdapterNext, MessagesOK
  <2> QED BY <2>1 DEF Event
<1>1. /\ host.pc \in {"observe", "turn"} /\ (host.pc = "turn" <=> adapter.starting)
      /\ host.pc = "turn" => adapter.turn = 0
  BY DEF AdapterNext, TurnInv
<1>2. ASSUME e.kind = "completed", CompletionAccepted(e.turn), adapter' = Completed(e.turn),
             consumed' = consumed \cup {e.turn}, host' = [host EXCEPT !.seen = @ \cup {e.turn}]
      PROVE  TurnType' /\ TurnInv'
  <2>1. /\ host' \in [pc : HostPCs, id : 0 .. MaxIDs, seen : SUBSET Turns]
        /\ host'.pc = host.pc /\ host'.id = host.id
    BY <1>0, <1>2 DEF TurnType
  <2>2. CASE host.pc = "turn"
    <3>1. adapter' = [adapter EXCEPT !.earlyCompletion = e.turn] BY <1>1, <1>2, <2>2 DEF Completed
    <3>2. adapter.earlyCompletion = 0 BY <1>1, <1>2, <2>2 DEF CompletionAccepted
    <3>3. e.turn # 0 BY <1>0 DEF Turns
    <3>4. /\ adapter' \in [initialized : BOOLEAN, thread : BOOLEAN, turn : {0, 1}, starting : BOOLEAN,
                           earlyCompletion : {0} \cup Turns]
          /\ adapter'.turn = 0 /\ adapter'.starting = adapter.starting
          /\ adapter'.earlyCompletion = e.turn
      BY <1>0, <1>1, <2>2, <3>1 DEF TurnType
    <3> HIDE DEF e
    <3> QED BY <1>0, <1>1, <1>2, <2>1, <2>2, <3>3, <3>4 DEF TurnType, TurnInv
  <2>3. CASE host.pc = "observe"
    <3>1. adapter' = [adapter EXCEPT !.turn = 0] BY <1>1, <1>2, <2>3 DEF Completed
    <3>2. /\ adapter' \in [initialized : BOOLEAN, thread : BOOLEAN, turn : {0, 1}, starting : BOOLEAN,
                           earlyCompletion : {0} \cup Turns]
          /\ adapter'.turn = 0 /\ adapter'.starting = adapter.starting
      BY <3>1 DEF TurnType
    <3> HIDE DEF e
    <3> QED BY <1>0, <1>1, <1>2, <2>1, <2>3, <3>2 DEF TurnType, TurnInv
  <2> QED BY <1>1, <2>2, <2>3
<1>3. CASE UNCHANGED <<adapter, consumed, host>> BY <1>3 DEF TurnType, TurnInv
<1>4. CASE host' = [host EXCEPT !.pc = "failed"] /\ UNCHANGED <<adapter, consumed>>
  <2>1. host' \in [pc : HostPCs, id : 0 .. MaxIDs, seen : SUBSET Turns] /\ host'.pc = "failed"
    BY <1>4 DEF TurnType, HostPCs
  <2> QED BY <1>4, <2>1 DEF TurnType, TurnInv
<1> QED BY <1>2, <1>3, <1>4 DEF AdapterNext

LEMMA OtherTurn ==
  ASSUME TurnType, TurnInv, RemoveCredential \/ ObserveTurn \/ SettleProbe \/ HostFails
  PROVE  TurnType' /\ TurnInv'
<1>1. ASSUME NEW pc \in HostPCs, host' = [host EXCEPT !.pc = pc], UNCHANGED <<adapter, consumed>>,
             \/ pc = "thread" /\ host.pc = "remove"
             \/ pc \in {"settle", "passed", "failed"} /\ host.pc \in {"observe", "settle"}
      PROVE  TurnType' /\ TurnInv'
  <2>1. host' \in [pc : HostPCs, id : 0 .. MaxIDs, seen : SUBSET Turns] /\ host'.pc = pc
    BY <1>1 DEF TurnType
  <2> QED BY <1>1, <2>1 DEF TurnType, TurnInv
<1>2. CASE RemoveCredential BY <1>1, <1>2 DEF RemoveCredential, HostPCs
<1>3. CASE ObserveTurn BY <1>1, <1>3 DEF ObserveTurn, HostPCs
<1>4. CASE SettleProbe BY <1>1, <1>4 DEF SettleProbe, HostPCs
<1>5. CASE HostFails
  <2>1. /\ host' \in [pc : HostPCs, id : 0 .. MaxIDs, seen : SUBSET Turns] /\ host'.pc = "failed"
    BY <1>5, HostGoes DEF HostFails, TurnType, HostPCs
  <2>2. /\ adapter' \in [initialized : BOOLEAN, thread : BOOLEAN, turn : {0, 1}, starting : BOOLEAN,
                         earlyCompletion : {0} \cup Turns]
        /\ adapter'.turn = adapter.turn /\ consumed' = consumed
    BY <1>5 DEF HostFails, TurnType
  <2> QED BY <2>1, <2>2 DEF TurnType, TurnInv
<1> QED BY <1>2, <1>3, <1>4, <1>5

-----------------------------------------------------------------------------
(* The invariant, and what follows from it. *)

LEMMA CallsStep ==
  ASSUME CallsInv, AppNext  PROVE CallsInv'
<1>1. client.reading \in BOOLEAN BY DEF CallsInv, CallType
<1>2. ASSUME UNCHANGED Calls PROVE CallsInv' BY <1>2, CallsKept
<1>3. ASSUME stop, holding' = holding PROVE CallsInv' BY <1>1, <1>3, StopKeepsCalls DEF stop
<1>4. CASE ReadEvent
  <2>1. CASE client' = [client EXCEPT !.reading = FALSE] /\ UNCHANGED <<reply, holding>>
    <3>1. /\ client' \in [done : BOOLEAN, reading : BOOLEAN, nextID : 0 .. MaxIDs, pending : SUBSET Ids]
          /\ client'.pending = client.pending /\ client'.nextID = client.nextID
          /\ client'.done = client.done
      BY <2>1 DEF CallsInv, CallType
    <3> QED BY <2>1, <3>1 DEF CallsInv, CallType, CallInv, StopInv
  <2> QED BY <1>2, <1>4, <2>1, StopKeepsCalls DEF ReadEvent, Calls
<1>5. CASE ReadEnds BY <1>5, StopKeepsCalls DEF ReadEnds
<1>6. CASE HostCall BY <1>6, SendsKeepsCalls DEF HostCall
<1>7. CASE PumpSends BY <1>7, SendsKeepsCalls DEF PumpSends
<1>8. CASE StartTurn BY <1>2, <1>3, <1>8 DEF StartTurn, Calls
<1>9. CASE ObserveTurn \/ HostFails \/ PumpFails BY <1>3, <1>9 DEF ObserveTurn, HostFails, PumpFails
<1>10. CASE \/ HostAnswered \/ RemoveCredential \/ AdapterNext \/ SettleProbe \/ PumpReads \/ PumpAnswered
            \/ \E id \in Ids : ServerAnswers(id)
            \/ \E kind \in {"completed", "item", "approval"}, turn \in Turns : ServerSends(kind, turn)
  BY <1>2, <1>10 DEF HostAnswered, RemoveCredential, AdapterNext, SettleProbe, PumpReads, PumpAnswered,
                     ServerAnswers, ServerSends, Calls
<1> QED BY <1>4, <1>5, <1>6, <1>7, <1>8, <1>9, <1>10, ReadKeepsCalls, DeliverKeepsCalls DEF AppNext

LEMMA TurnStep ==
  ASSUME AInv, AppNext  PROVE TurnType' /\ TurnInv'
<1> USE DEF AInv
<1>1. ASSUME UNCHANGED <<adapter, host, consumed>> PROVE TurnType' /\ TurnInv'
  BY <1>1 DEF TurnType, TurnInv
<1>2. CASE \/ ReadResponse \/ DeliverResponse \/ ReadEvent \/ ReadEnds
           \/ PumpReads \/ PumpSends \/ PumpAnswered \/ PumpFails
           \/ \E id \in Ids : ServerAnswers(id)
           \/ \E kind \in {"completed", "item", "approval"}, turn \in Turns : ServerSends(kind, turn)
  BY <1>1, <1>2 DEF ReadResponse, DeliverResponse, ReadEvent, ReadEnds, PumpReads, PumpSends,
                    PumpAnswered, PumpFails, ServerAnswers, ServerSends
<1> QED BY <1>2, HostCallTurn, HostAnsweredTurn, StartTurnTurn, NextTurn, OtherTurn DEF AppNext

LEMMA AppInitSafe == AppInit => AInv
<1> SUFFICES ASSUME AppInit PROVE AInv OBVIOUS
<1>1. CallType BY ClientAssumption DEF AppInit, CallType
<1>2. \A i \in Ids : CallInv(i) BY DEF AppInit, CallInv, Ids
<1>3. StopInv BY DEF AppInit, StopInv
<1>4. MessagesOK BY DEF AppInit, MessagesOK
<1>5. TurnType BY ClientAssumption DEF AppInit, TurnType, NoRequest, HostPCs
<1>6. TurnInv BY DEF AppInit, TurnInv
<1> QED BY <1>1, <1>2, <1>3, <1>4, <1>5, <1>6 DEF AInv, CallsInv

LEMMA AppStepSafe == AInv /\ [AppNext]_appVars => AInv'
<1>1. ASSUME AInv, AppNext PROVE AInv' BY <1>1, CallsStep, MessagesKept, TurnStep DEF AInv
<1>2. ASSUME AInv, UNCHANGED appVars PROVE AInv'
  BY <1>2, CallsKept DEF AInv, appVars, Calls, MessagesOK, TurnType, TurnInv
<1> QED BY <1>1, <1>2

(* In every reachable state of the connection each call is waited for,     *)
(* held or answered, and the turn the adapter takes for active is running. *)
THEOREM AppInductive == AppSpec => []AInv
<1> QED BY AppInitSafe, AppStepSafe, PTL DEF AppSpec

(* Every Call gets at most one response, and it is its own: neither the    *)
(* read loop nor stop() ever blocks on a full channel.                     *)
THEOREM OneReplyEach == AppSpec => []OneReply
<1>1. ASSUME AInv, NEW i \in Ids
      PROVE  Len(reply[i]) <= 1 /\ (reply[i] # <<>> => reply[i][1] \in {i, ClosedReply})
  <2>1. reply[i] = <<>> \/ reply[i] = <<i>> \/ reply[i] = <<ClosedReply>>
    BY <1>1 DEF AInv, CallsInv, CallInv
  <2>2. Len(<<>>) = 0 /\ Len(<<i>>) = 1 /\ Len(<<ClosedReply>>) = 1 OBVIOUS
  <2>3. <<i>>[1] = i /\ <<ClosedReply>>[1] = ClosedReply OBVIOUS
  <2>4. CASE reply[i] = <<>> BY <2>2, <2>4
  <2>5. CASE reply[i] = <<i>> BY <2>2, <2>3, <2>5
  <2>6. CASE reply[i] = <<ClosedReply>> BY <2>2, <2>3, <2>6
  <2> QED BY <2>1, <2>4, <2>5, <2>6
<1>2. AInv => OneReply BY <1>1 DEF OneReply
<1> QED BY <1>2, AppInductive, PTL

(* The client loses no call: once it is stopped and the read loop has put  *)
(* down the response it held, every call ever made has its answer.         *)
NoCallLost ==
  client.done /\ holding = 0 => \A i \in Ids : i <= client.nextID => reply[i] # <<>>

(* No Call waits for ever on a stopped client: NoCallLost in every         *)
(* reachable state of Client.                                              *)
THEOREM StopAnswersEveryone == AppSpec => []NoCallLost
<1>1. AInv => NoCallLost BY DEF AInv, CallsInv, CallInv, StopInv, NoCallLost, Ids
<1> QED BY <1>1, AppInductive, PTL

(* The adapter never takes a turn for active whose completion it has       *)
(* already handed on, also when it overtook the answer to turn/start.      *)
THEOREM NoTurnIsAGhost == AppSpec => []NoGhostTurn
<1>1. AInv => NoGhostTurn BY DEF AInv, TurnType, TurnInv, NoGhostTurn
<1> QED BY <1>1, AppInductive, PTL

=============================================================================
