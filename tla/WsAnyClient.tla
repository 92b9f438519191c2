----------------------------- MODULE WsAnyClient -----------------------------
(***************************************************************************)
(* The server of a WebSocket connection with any client that keeps to one  *)
(* rule: an id that is in use for an operation is not used for another     *)
(* before the operation is complete.  The client may send anything else at *)
(* any time, a list or an object for an id included, stop what has ended   *)
(* or never started, and vanish.                                           *)
(***************************************************************************)
EXTENDS WsServer

VARIABLE open        \* the ids that the client considers in use

vars == <<network, serverVars, open>>

TypeOK == NetworkTypeOK /\ ServerTypeOK /\ open \in SUBSET Id

Init == NetworkInit /\ ServerInit /\ open = {}

\* The client writes m.
ClientSend(m) ==
  /\ connected /\ Len(toServer) < Buffer
  /\ toServer' = Append(toServer, m)
  /\ UNCHANGED <<connected, toClient, serverVars>>

ClientStart(i) ==
  /\ i \notin open
  /\ ClientSend([type |-> "start", id |-> i])
  /\ open' = open \cup {i}

ClientStop(i) ==
  /\ ClientSend([type |-> "stop", id |-> i])
  /\ UNCHANGED open

\* An id that the server cannot look up is not one that the client uses.
ClientNames(type) ==
  /\ ClientSend([type |-> type, id |-> BadId])
  /\ UNCHANGED open

ClientSays(type) ==
  /\ ClientSend([type |-> type, id |-> NoId])
  /\ UNCHANGED open

\* The client reads a message.  After "complete" it may use the id again.
ClientRead ==
  /\ toClient # <<>>
  /\ toClient' = Tail(toClient)
  /\ \/ UNCHANGED open
     \/ Head(toClient).type = "complete" /\ open' = open \ {Head(toClient).id}
  /\ UNCHANGED <<connected, toServer, serverVars>>

Client ==
  \/ \E i \in Id : ClientStart(i) \/ ClientStop(i)
  \/ \E type \in {"start", "stop"} : ClientNames(type)
  \/ \E type \in {"connection_init", "other", "malformed"} : ClientSays(type)
  \/ ClientRead
  \/ Disconnect /\ UNCHANGED <<serverVars, open>>

Next == Client \/ (ServerNext /\ UNCHANGED open)

SafetySpec == Init /\ [][Next]_vars

Spec == SafetySpec /\ ServerFairness /\ WF_vars(ClientRead)

-----------------------------------------------------------------------------
(* The inductive invariant *)

\* A message that starts an operation: the server can look up its id.
Starts(m) == m.type = "start" /\ m.id # BadId

\* A stream uses its id until the client has read the "complete" of it.
OnTheWay(s) == \E p \in 1..Len(toClient) : toClient[p].stream = s

InUse(s) == s <= started /\ (forwarder[s] # "done" \/ OnTheWay(s))

\* Streams are numbered as they are started, and only the last may still lack a forwarder.
StartInv ==
  /\ \A s \in Stream : s <= started => idOf[s] \in Id
  /\ \A s \in Stream : s > started =>
       /\ idOf[s] = NoId /\ forwarder[s] = "none" /\ ~sourceClosed[s]
       /\ produced[s] = 0 /\ taken[s] = 0 /\ written[s] = 0
  /\ loop = "starting" => started # 0 /\ forwarder[started] = "none"

\* An id in use is used once, by a stream or by a "start" that was not read yet, and the
\* client knows it.
UseInv ==
  /\ \A s \in Stream : InUse(s) => idOf[s] \in open
  /\ \A s, t \in Stream : InUse(s) /\ s < t => idOf[t] # idOf[s]
  /\ \A q \in 1..Len(toServer) : Starts(toServer[q]) =>
       /\ toServer[q].id \in open
       /\ \A s \in Stream : InUse(s) => idOf[s] # toServer[q].id
       /\ \A r \in 1..Len(toServer) :
            Starts(toServer[r]) /\ toServer[r].id = toServer[q].id => r = q

\* A message bears the id of its stream, and none follows "complete".
MessageInv ==
  \A p \in 1..Len(toClient) : toClient[p].stream # 0 =>
    LET m == toClient[p] IN
    /\ m.stream <= started /\ m.id = idOf[m.stream]
    /\ m.type = "complete" =>
         /\ forwarder[m.stream] = "done"
         /\ \A q \in 1..Len(toClient) : toClient[q].stream = m.stream => q <= p

\* The table holds each stream that can still be cancelled.
RegisteredInv ==
  \A s \in Stream : forwarder[s] \in {"receiving", "sending", "unregister"} =>
    s <= started /\ streams[idOf[s]] = s

\* All that was received is written, but for what a forwarder has in hand.
CountInv ==
  \A s \in Stream :
    /\ taken[s] <= produced[s]
    /\ forwarder[s] = "sending" => taken[s] > 0
    /\ forwarder[s] \in {"unregister", "completing", "done"} =>
         sourceClosed[s] /\ taken[s] = produced[s]
    /\ connected => written[s] = taken[s] - (IF forwarder[s] = "sending" THEN 1 ELSE 0)

ServerInv ==
  TypeOK /\ StartInv /\ UseInv /\ MessageInv /\ RegisteredInv /\ CountInv

-----------------------------------------------------------------------------
(* Properties *)

\* A stop takes effect: whenever the server reads one under an id that it can look up, every
\* operation that is being forwarded under that id is cancelled.  So the table must hold it,
\* although streams that end delete their entry by id while the client starts others under
\* the same id.
StopIsHonoured ==
  [][ReadStop => \A s \in Stream :
        Forwarding(s) /\ idOf[s] = Head(toServer).id => cancelled'[s]]_vars

\* The client can tell by its id what a message is for: it is for the operation that the
\* client started last under that id and regards as in use, and nothing of the operation
\* is left to come after "complete".
MessagesFindTheirOperation ==
  \A p \in 1..Len(toClient) : toClient[p].stream # 0 =>
    LET m == toClient[p] IN
    /\ m.id \in open
    /\ \A s \in Stream : s > m.stream => idOf[s] # m.id
    /\ \A q \in 1..Len(toServer) : toServer[q].type = "start" => toServer[q].id # m.id
    /\ m.type = "complete" => forwarder[m.stream] = "done"

\* An operation is complete when every response of it was written, unless the connection
\* broke: nothing that the engine still had to deliver is dropped, a cancelled operation
\* included.
CompleteMeansEverything ==
  connected => \A s \in Stream :
    forwarder[s] \in {"unregister", "completing", "done"} => written[s] = produced[s]

\* A stop, and the end of the connection, end the goroutines of the operations: none waits
\* for ever for the mutex, for room, or for a response, whatever happens to the others.  Two
\* panics are excepted: one in a forwarder ends the process, and one on an id that cannot be
\* a key leaves the mutex locked, so that no goroutine of the connection ends any more.
StreamsEnd ==
  \A s \in Stream : cancelled[s] \/ ~connected ~>
    forwarder[s] \in {"none", "done"} \/ loop \in {"dead", "stuck"}

=============================================================================
