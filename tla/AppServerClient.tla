--------------------------- MODULE AppServerClient ---------------------------
(***************************************************************************)
(* The connection to one codex app-server process                          *)
(* (internal/runtime/codexapp): Client correlates replies and queues       *)
(* events, Adapter keeps the thread and the turn, a probe drives both from *)
(* initialize to the end of one model turn, and a control pump steers or   *)
(* interrupts that turn meanwhile.                                         *)
(*                                                                         *)
(* The host, the pump and the read loop are goroutines.  The server        *)
(* answers in any order, twice or never, and may complete a turn before it *)
(* answers the call that started it.  CodexExecution models what the pump  *)
(* reports to Core; here its calls only share the connection.              *)
(***************************************************************************)
EXTENDS Naturals, Sequences, FiniteSets

CONSTANTS
  MaxIDs,      \* bound: requests of one connection
  MaxPending,  \* maxPending, requests waiting at once
  MaxEvents,   \* capacity of the event queue
  MaxSent      \* bound: messages the server sends beside first answers

ASSUME ClientAssumption == MaxIDs \in Nat /\ MaxPending \in Nat /\ MaxEvents \in Nat /\ MaxSent \in Nat

VARIABLES
  client,      \* done: stopped.  reading: readLoop runs.  nextID, pending: [id -> a channel waits]
  reply,       \* [id -> the channel of that Call, the responses put into it]
  holding,     \* the id of the response readLoop has taken off pending, or 0
  requests,    \* [id -> method the server received or "none"]
  fromServer,  \* messages on their way to readLoop
  events,      \* the bounded queue
  adapter,     \* thread, turn, starting, earlyCompletion
  host,        \* the probe
  pump,        \* pumpControls
  credential,  \* the identity token or bootstrap login file exists
  consumed,    \* history: turns whose completion Next has returned
  sent         \* messages counted against MaxSent

appVars == <<client, reply, holding, requests, fromServer, events, adapter, host, pump, credential, consumed, sent>>

Ids == 1 .. MaxIDs
Turns == {1, 2}             \* 1 is the turn the server runs, 2 an identity it does not

(* The request that each step of the host makes. *)
MethodOf == [initialize |-> "initialize", warm |-> "account/rateLimits/read",
             thread |-> "thread/start", turn |-> "turn/start"]

ClosedReply == 0            \* response{err: ErrClientClosed} or the error that stopped the client
NoRequest == 0

-----------------------------------------------------------------------------
(* Client. *)

(* stop: every waiting call gets the error, once, and done is closed. *)
Stopped(reading) ==
  /\ client' = [client EXCEPT !.done = TRUE, !.pending = {}, !.reading = reading]
  /\ reply' = [i \in Ids |-> IF i \in client.pending THEN Append(reply[i], ClosedReply) ELSE reply[i]]
stop == Stopped(client.reading)

(* reserve and write: the id is new, the frame is written whole. *)
CanReserve == ~client.done /\ Cardinality(client.pending) < MaxPending /\ client.nextID < MaxIDs
Sends(method) ==
  /\ client' = [client EXCEPT !.nextID = @ + 1, !.pending = @ \cup {client.nextID + 1}]
  /\ requests' = [requests EXCEPT ![client.nextID + 1] = method]

(* Call's select: an answer that is there wins over done. *)
Answered(id) == id # NoRequest /\ reply[id] # <<>> /\ reply[id][1] # ClosedReply

(* Mutant of ReadResponse: pending keeps the id until the call forgets it. *)
ReadKeepsPending ==
  LET m == Head(fromServer) IN
  /\ client.reading /\ holding = 0
  /\ fromServer # <<>> /\ m.kind = "response"
  /\ fromServer' = Tail(fromServer)
  /\ holding' = IF m.id \in client.pending THEN m.id ELSE 0
  /\ UNCHANGED <<client, reply, requests, events, adapter, host, pump, credential, consumed, sent>>

(* readLoop, a response: taken off pending under the mutex; one that       *)
(* nobody waits for is dropped.                                            *)
ReadResponse ==
  LET m == Head(fromServer) IN
  /\ client.reading /\ holding = 0
  /\ fromServer # <<>> /\ m.kind = "response"
  /\ fromServer' = Tail(fromServer)
  /\ IF m.id \in client.pending
     THEN holding' = m.id /\ client' = [client EXCEPT !.pending = @ \ {m.id}]
     ELSE UNCHANGED <<holding, client>>
  /\ UNCHANGED <<reply, requests, events, adapter, host, pump, credential, consumed, sent>>

(* The response is put into the channel after the mutex was released. *)
DeliverResponse ==
  /\ holding # 0
  /\ reply' = [reply EXCEPT ![holding] = Append(@, holding)]
  /\ holding' = 0
  /\ UNCHANGED <<client, requests, fromServer, events, adapter, host, pump, credential, consumed, sent>>

(* A notification or a server request: queued, or the client stops. *)
ReadEvent ==
  LET m == Head(fromServer) IN
  /\ client.reading /\ holding = 0
  /\ fromServer # <<>> /\ m.kind # "response"
  /\ fromServer' = Tail(fromServer)
  /\ \/ ~client.done /\ Len(events) < MaxEvents /\ events' = Append(events, m) /\ UNCHANGED <<client, reply>>
     \/ ~client.done /\ Len(events) = MaxEvents /\ Stopped(FALSE) /\ UNCHANGED events
     \/ client.done /\ client' = [client EXCEPT !.reading = FALSE] /\ UNCHANGED <<events, reply>>
  /\ UNCHANGED <<holding, requests, adapter, host, pump, credential, consumed, sent>>

(* End of input, a frame that does not decode, or the pipe was closed. *)
ReadEnds ==
  /\ client.reading /\ holding = 0
  /\ Stopped(FALSE)
  /\ UNCHANGED <<holding, requests, fromServer, events, adapter, host, pump, credential, consumed, sent>>

-----------------------------------------------------------------------------
(* The probe: LiveWIFProbe, LiveSavedLoginProbe and the engineering turns. *)

(* Initialize, WarmCredential, startThread and StartTurn begin a Call. *)
HostCall ==
  /\ host.pc \in DOMAIN MethodOf /\ host.id = NoRequest
  /\ CanReserve
  /\ Sends(MethodOf[host.pc])
  /\ host' = [host EXCEPT !.id = client.nextID + 1]
  /\ adapter' = IF host.pc = "turn" THEN [adapter EXCEPT !.starting = TRUE, !.earlyCompletion = 0] ELSE adapter
  /\ UNCHANGED <<reply, holding, fromServer, events, pump, credential, consumed, sent>>

(* Initialize ends with a notification; a warmed credential may be removed *)
(* from the host; startThread takes the thread.                            *)
HostAnswered ==
  /\ host.pc \in {"initialize", "warm", "thread"} /\ Answered(host.id)
  /\ host' = [host EXCEPT !.id = NoRequest,
       !.pc = [initialize |-> "warm", warm |-> "remove", thread |-> "turn"][@]]
  /\ adapter' = CASE host.pc = "initialize" -> [adapter EXCEPT !.initialized = TRUE]
                  [] host.pc = "thread" -> [adapter EXCEPT !.thread = TRUE]
                  [] OTHER -> adapter
  /\ UNCHANGED <<client, reply, holding, requests, fromServer, events, pump, credential, consumed, sent>>

(* The token or bootstrap file is removed and seen to be gone. *)
RemoveCredential ==
  /\ host.pc = "remove"
  /\ credential' = FALSE
  /\ host' = [host EXCEPT !.pc = "thread"]
  /\ UNCHANGED <<client, reply, holding, requests, fromServer, events, adapter, pump, consumed, sent>>

(* Mutant of StartTurn: the answer always makes the turn the active one. *)
StartTurnLate ==
  /\ host.pc = "turn" /\ Answered(host.id)
  /\ adapter' = [adapter EXCEPT !.starting = FALSE, !.earlyCompletion = 0, !.turn = 1]
  /\ host' = [host EXCEPT !.id = NoRequest, !.pc = "observe"]
  /\ UNCHANGED <<client, reply, holding, requests, fromServer, events, pump, credential, consumed, sent>>

(* StartTurn returns: a completion of another turn came first and stops    *)
(* the client; one of this turn means it is already over.                  *)
StartTurn ==
  LET early == adapter.earlyCompletion IN
  /\ host.pc = "turn" /\ Answered(host.id)
  /\ IF early \notin {0, 1}
     THEN /\ stop
          /\ adapter' = [adapter EXCEPT !.starting = FALSE]
          /\ host' = [host EXCEPT !.id = NoRequest, !.pc = "failed"]
     ELSE /\ adapter' = [adapter EXCEPT !.starting = FALSE, !.earlyCompletion = 0,
                                       !.turn = IF early = 1 THEN 0 ELSE 1]
          /\ host' = [host EXCEPT !.id = NoRequest, !.pc = "observe"]
          /\ UNCHANGED <<client, reply>>
  /\ UNCHANGED <<holding, requests, fromServer, events, pump, credential, consumed, sent>>

(* Next's part for turn/completed: of the turn that is starting, it is     *)
(* kept; of the active turn, it ends it; anything else is an error.        *)
CompletionAccepted(t) ==
  \/ adapter.starting /\ adapter.turn = 0 /\ adapter.earlyCompletion = 0
  \/ ~(adapter.starting /\ adapter.turn = 0) /\ adapter.turn = t
Completed(t) ==
  IF adapter.starting /\ adapter.turn = 0 THEN [adapter EXCEPT !.earlyCompletion = t]
  ELSE [adapter EXCEPT !.turn = 0]

(* Adapter.Next: by the observer of the turn, or by whoever drains the events      *)
(* during StartTurn as Next's contract asks.  An approval is declined and  *)
(* fails the probe, as does an item of another turn.                       *)
AdapterNext ==
  LET e == Head(events) IN
  /\ \/ host.pc = "observe"
     \/ host.pc = "turn" /\ adapter.starting
  /\ events # <<>>
  /\ events' = Tail(events)
  /\ \/ /\ e.kind = "completed" /\ CompletionAccepted(e.turn)
        /\ adapter' = Completed(e.turn)
        /\ consumed' = consumed \cup {e.turn}
        /\ host' = [host EXCEPT !.seen = @ \cup {e.turn}]
     \/ e.kind = "item" /\ e.turn = 1 /\ UNCHANGED <<adapter, consumed, host>>
     \/ /\ \/ e.kind = "completed" /\ ~CompletionAccepted(e.turn)
           \/ e.kind = "item" /\ e.turn # 1
           \/ e.kind = "approval"
        /\ host' = [host EXCEPT !.pc = "failed"]
        /\ UNCHANGED <<adapter, consumed>>
  /\ UNCHANGED <<client, reply, holding, requests, fromServer, pump, credential, sent>>

(* The matching completion ends the observation; the client is closed and  *)
(* the process joined.                                                     *)
ObserveTurn ==
  /\ host.pc = "observe" /\ 1 \in host.seen
  /\ host' = [host EXCEPT !.pc = "settle"]
  /\ stop
  /\ UNCHANGED <<holding, requests, fromServer, events, adapter, pump, credential, consumed, sent>>

(* scope.Wait: quiescent after the pump is joined, or the probe fails. *)
SettleProbe ==
  /\ host.pc = "settle" /\ pump.pc # "wait"
  /\ \E pc \in {"passed", "failed"} : host' = [host EXCEPT !.pc = pc]
  /\ UNCHANGED <<client, reply, holding, requests, fromServer, events, adapter, pump, credential, consumed, sent>>

(* A call or the observation fails: closed client, RPC error, a file that  *)
(* cannot be removed, or the context ended, which stops the client.  On    *)
(* the way out the credential file is removed, unless that fails.          *)
HostFails ==
  /\ host.pc \in {"initialize", "warm", "remove", "thread", "turn", "observe"}
  /\ host' = [host EXCEPT !.id = NoRequest, !.pc = "failed"]
  /\ adapter' = [adapter EXCEPT !.starting = FALSE]
  /\ credential' \in {credential, FALSE}
  /\ stop
  /\ UNCHANGED <<holding, requests, fromServer, events, pump, consumed, sent>>

-----------------------------------------------------------------------------
(* The pump: Steer and Interrupt read the turn, then call. *)

PumpReads ==
  /\ pump.pc = "idle" /\ host.pc = "observe"
  /\ adapter.turn = 1
  /\ pump' = [pump EXCEPT !.pc = "send"]
  /\ UNCHANGED <<client, reply, holding, requests, fromServer, events, adapter, host, credential, consumed, sent>>

PumpSends ==
  /\ pump.pc = "send" /\ CanReserve
  /\ Sends("turn/control")
  /\ pump' = [pc |-> "wait", id |-> client.nextID + 1]
  /\ UNCHANGED <<reply, holding, fromServer, events, adapter, host, credential, consumed, sent>>

(* The acknowledged turn is the expected one. *)
PumpAnswered ==
  /\ pump.pc = "wait" /\ Answered(pump.id)
  /\ pump' = [pc |-> "idle", id |-> NoRequest]
  /\ UNCHANGED <<client, reply, holding, requests, fromServer, events, adapter, host, credential, consumed, sent>>

(* Closed, answered with another turn, or timed out: the client stops. *)
PumpFails ==
  /\ pump.pc \in {"send", "wait"}
  /\ stop
  /\ pump' = [pc |-> "ended", id |-> NoRequest]
  /\ UNCHANGED <<holding, requests, fromServer, events, adapter, host, credential, consumed, sent>>

-----------------------------------------------------------------------------
(* The app-server. *)

(* An answer to any request it has received; a repeated one counts. *)
ServerAnswers(id) ==
  /\ requests[id] # "none"
  /\ \/ requests[id] # "answered" /\ UNCHANGED sent
     \/ requests[id] = "answered" /\ sent < MaxSent /\ sent' = sent + 1
  /\ requests' = [requests EXCEPT ![id] = "answered"]
  /\ fromServer' = Append(fromServer, [kind |-> "response", id |-> id])
  /\ UNCHANGED <<client, reply, holding, events, adapter, host, pump, credential, consumed>>

(* A notification or an approval request, from when turn/start arrived. *)
ServerSends(kind, turn) ==
  /\ host.pc = "observe" \/ (host.pc = "turn" /\ host.id # NoRequest)
  /\ sent < MaxSent
  /\ sent' = sent + 1
  /\ fromServer' = Append(fromServer, [kind |-> kind, turn |-> turn])
  /\ UNCHANGED <<client, reply, holding, requests, events, adapter, host, pump, credential, consumed>>

AppInit ==
  /\ client = [done |-> FALSE, reading |-> TRUE, nextID |-> 0, pending |-> {}]
  /\ reply = [i \in Ids |-> <<>>]
  /\ holding = 0
  /\ requests = [i \in Ids |-> "none"]
  /\ fromServer = <<>> /\ events = <<>>
  /\ adapter = [initialized |-> FALSE, thread |-> FALSE, turn |-> 0, starting |-> FALSE, earlyCompletion |-> 0]
  /\ host = [pc |-> "initialize", id |-> NoRequest, seen |-> {}]
  /\ pump = [pc |-> "idle", id |-> NoRequest]
  /\ credential = TRUE /\ consumed = {} /\ sent = 0

AppNext ==
  \/ ReadResponse \/ DeliverResponse \/ ReadEvent \/ ReadEnds
  \/ HostCall \/ HostAnswered \/ RemoveCredential \/ StartTurn \/ AdapterNext \/ ObserveTurn \/ SettleProbe \/ HostFails
  \/ PumpReads \/ PumpSends \/ PumpAnswered \/ PumpFails
  \/ \E id \in Ids : ServerAnswers(id)
  \/ \E kind \in {"completed", "item", "approval"}, turn \in Turns : ServerSends(kind, turn)

AppSpec == AppInit /\ [][AppNext]_appVars

-----------------------------------------------------------------------------
(* Every call gets at most one answer and it is its own: a second send     *)
(* would block the read loop, or stop() under the mutex, for ever.         *)
OneReply == \A i \in Ids : Len(reply[i]) <= 1 /\ (reply[i] # <<>> => reply[i][1] \in {i, ClosedReply})

(* The adapter never takes a turn for active whose completion it has       *)
(* already handed on, also when the completion overtook the answer to      *)
(* turn/start: no control goes to a finished turn because of that race.    *)
NoGhostTurn == adapter.turn # 0 => adapter.turn \notin consumed
=============================================================================
