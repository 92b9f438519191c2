------------------------------ MODULE WsSession ------------------------------
(***************************************************************************)
(* Both ends of a WebSocket connection: callers of the client, the         *)
(* network, the server and its engine.                                     *)
(***************************************************************************)
EXTENDS WsClient, WsServer

vars == <<network, clientVars, serverVars>>

TypeOK == NetworkTypeOK /\ ClientTypeOK /\ ServerTypeOK

Init == NetworkInit /\ ClientInit /\ ServerInit

Next ==
  \/ ClientNext /\ UNCHANGED serverVars
  \/ ServerNext /\ UNCHANGED clientVars
  \/ Disconnect /\ UNCHANGED <<clientVars, serverVars>>

\* Each goroutine goes on when it can; a goroutine that waits in a send is served in its
\* turn; the callers read their responses.
ClientFairness ==
  /\ \A c \in Caller : SF_<<network, clientVars>>(Call(c)) /\ WF_<<network, clientVars>>(ReadResponse(c))
  /\ SF_<<network, clientVars>>(Service)
  /\ WF_<<network, clientVars>>(ReadSide)

Spec == Init /\ [][Next]_vars /\ ClientFairness /\ ServerFairness

-----------------------------------------------------------------------------
(* Properties *)

\* All that came out of the response channel of c or is still in it.
Responses(c) == received[c] \o chan[c]

Failed(c) == \E k \in 1..Len(Responses(c)) : Responses(c)[k] = Failure

\* A caller gets the responses to its own request, from the first, in order and without a
\* gap, although all operations share one connection and one goroutine; after an error it
\* gets nothing.
ResponsesAreItsOwn ==
  \A c \in Caller : \A k \in 1..Len(Responses(c)) :
    LET r == Responses(c)[k] IN
    \/ r = Failure /\ k = Len(Responses(c))
    \/ r.stream # 0 /\ idOf[r.stream] = operationId[c] /\ r.number = k

\* A response channel that is closed without an error has delivered everything that the
\* engine produced for the request: a lost connection cannot pass for the end of a stream.
ClosedMeansEverything ==
  \A c \in Caller : chanClosed[c] /\ ~Failed(c) =>
    \E s \in Stream : /\ idOf[s] = operationId[c]
                      /\ forwarder[s] = "done"
                      /\ produced[s] = Len(Responses(c))

\* Nothing is sent to a response channel once it is closed, which would panic, and nothing
\* that was sent is lost: whatever closes it, its operation is in the table no more.
ClosedIsQuiet ==
  [][\A c \in Caller : chanClosed[c] => chanClosed'[c] /\ Responses(c)' = Responses(c)]_vars

\* The client is one of those that the server was checked with.
AnyClient == INSTANCE WsAnyClient
  WITH open <- {operationId[c] : c \in Caller} \ {NoId}

KeepsToTheProtocol == AnyClient!SafetySpec

-----------------------------------------------------------------------------
(* What ties the two ends together: the inductive invariant *)

Served == {c \in Caller : caller[c] = "served"}

Ending == service \in {"ending", "returned"}

\* Nothing was done for the request of c yet.
Untouched(c) ==
  operationId[c] = NoId /\ chan[c] = <<>> /\ received[c] = <<>> /\ ~chanClosed[c]

\* One caller dials, and waits for the answer before there is anybody else to read it, and
\* anybody to serve.  The two goroutines of the client start and end together.
DialInv ==
  /\ ~dialed => /\ ~registered /\ service = "off" /\ toServer = <<>>
                /\ \A c \in Caller : caller[c] = "new"
  /\ \A c, d \in Caller : caller[c] = "acking" =>
       service = "off" /\ (caller[d] = "acking" => d = c)
  /\ service = "off" => Served = {}
  /\ service = "off" <=> reader = "off"
  /\ Ending <=> reader \in {"closing", "unregister", "done"}
  /\ handed # None <=> reader = "handing"

\* The answer to connection_init is the first message, and the callers read it.
HandshakeInv ==
  /\ loop = "handshake" => started = 0 /\ toClient = <<>> /\ reader = "off"
  /\ \A p \in 1..Len(toClient) : toClient[p].stream = 0 => p = 1 /\ reader = "off"

\* An operation of the table was started under its id, which no other has, and its channel
\* is open.
TableInv ==
  \A i \in Id : operations[i] # None =>
    /\ operationId[operations[i]] = i
    /\ ~chanClosed[operations[i]]

\* Ids are given out in turn, each at most once, and to callers that have handed over.
IdInv ==
  /\ \A c, d \in Caller : operationId[c] # NoId =>
       /\ operationId[c] < nextStreamId
       /\ operationId[d] = operationId[c] => d = c
  /\ \A c \in Caller \ Served : Untouched(c)
  /\ nextStreamId <= Cardinality(Served \ (IF service = "opening" THEN {working} ELSE {}))

\* What the service goroutine holds in its hands.
ServiceInv ==
  /\ service = "opening" => working \in Served /\ Untouched(working)
  /\ service = "delivering" => \E s \in Stream :
       /\ s <= started /\ operations[idOf[s]] = working
       /\ item = [stream |-> s, number |-> Len(Responses(working)) + 1]
  /\ service \in {"opening", "delivering"} <=> working # None
  /\ commandsClosed => Ending
  /\ service = "returned" => operations = [i \in Id |-> None]

\* The server never sends what makes the client fail all of its operations at once: an
\* answer under an id that is not, or no longer, in the client's table.
ServerKnowsTheClientsIds == service # "failing"

\* An id that was given out is in one place: in a "start" that was not read yet, or with one
\* stream.
OnceInv ==
  /\ \A s \in Stream : s <= started => \E c \in Caller : operationId[c] = idOf[s]
  /\ \A s, t \in Stream : s <= started /\ t <= started /\ idOf[s] = idOf[t] => s = t
  /\ \A q \in 1..Len(toServer) : toServer[q].type = "start" =>
       /\ \E c \in Caller : operationId[c] = toServer[q].id
       /\ \A s \in Stream : s <= started => idOf[s] # toServer[q].id
       /\ \A r \in 1..Len(toServer) :
            toServer[r].type = "start" /\ toServer[r].id = toServer[q].id => r = q

\* The message that is handed over is of stream s.
HandedOf(s) == handed # None /\ handed.stream = s

\* As long as the client serves, its table has every operation that the server may still
\* answer.
KnownInv ==
  ~Ending =>
    /\ \A q \in 1..Len(toServer) :
         toServer[q].type = "start" => operations[toServer[q].id] # None
    /\ \A s \in Stream :
         AnyClient!InUse(s) \/ HandedOf(s) => operations[idOf[s]] # None

\* The message that is handed over bears the id of its stream, and none follows "complete".
HandedInv ==
  handed # None =>
    /\ handed.stream \in Stream /\ handed.stream <= started
    /\ handed.id = idOf[handed.stream]
    /\ handed.type = "complete" =>
         forwarder[handed.stream] = "done" /\ ~AnyClient!OnTheWay(handed.stream)

\* The responses of s that the client has taken off the network.
Passed(s) ==
  LET c == operations[idOf[s]] IN
  Len(Responses(c)) + (IF working = c /\ service = "delivering" THEN 1 ELSE 0)
                    + (IF HandedOf(s) /\ handed.type = "data" THEN 1 ELSE 0)

DataOf(s) == {p \in 1..Len(toClient) : toClient[p].type = "data" /\ toClient[p].stream = s}

\* Those that it has not passed are on the way, in order and without a gap.
FlowInv ==
  /\ \A s \in Stream : s <= started /\ operations[idOf[s]] # None =>
       /\ Passed(s) <= written[s]
       /\ {toClient[p].number : p \in DataOf(s)} = (Passed(s) + 1) .. written[s]
       /\ HandedOf(s) /\ handed.type = "data" => handed.number = Passed(s)
  /\ \A s \in Stream : \A p \in DataOf(s) :
       /\ toClient[p].number <= written[s]
       /\ \A q \in DataOf(s) : p < q => toClient[p].number < toClient[q].number

\* "complete" is sent when everything was written.
CompleteInv ==
  /\ \A p \in 1..Len(toClient) : toClient[p].type = "complete" =>
       written[toClient[p].stream] = produced[toClient[p].stream]
  /\ handed # None /\ handed.type = "complete" =>
       written[handed.stream] = produced[handed.stream]

\* A caller has the responses of a stream that was started for it; the error comes last.
OwnInv ==
  \A c \in Caller :
    /\ Failed(c) => chanClosed[c]
    /\ \A k \in 1..Len(Responses(c)) :
         LET r == Responses(c)[k] IN
         \/ r = Failure /\ k = Len(Responses(c))
         \/ r.stream \in Stream /\ r.stream <= started
            /\ idOf[r.stream] = operationId[c] /\ r.number = k
    /\ chanClosed[c] /\ ~Failed(c) => \E s \in Stream :
         s <= started /\ idOf[s] = operationId[c] /\ forwarder[s] = "done"
         /\ produced[s] = Len(Responses(c))

SessionInv ==
  /\ TypeOK
  /\ AnyClient!ServerInv
  /\ DialInv
  /\ HandshakeInv
  /\ TableInv
  /\ IdInv
  /\ ServiceInv
  /\ ServerKnowsTheClientsIds
  /\ OnceInv
  /\ KnownInv
  /\ HandedInv
  /\ FlowInv
  /\ CompleteInv
  /\ OwnInv

-----------------------------------------------------------------------------
(* Liveness *)

\* What a caller of c waits for without any doing of the engine's: to be rid of its request;
\* and, with the stream in its hands, for the end of an operation whose source is closed or
\* whose connection is lost.
Waiting(c) ==
  \/ caller[c] = "calling"
  \/ /\ caller[c] = "served" /\ ~chanClosed[c]
     /\ ~connected \/ \E s \in Stream : idOf[s] = operationId[c] /\ sourceClosed[s]

\* Nobody waits for ever: callers, both goroutines of the client, the loop and the
\* forwarders of the server never wait in a circle for the mutex, for a command to be taken or
\* for room, as long as the network has room for all that can be on the way and the callers
\* read; a call that waits while the connection ends panics, which ends its waiting too.
NobodyWaitsForEver == \A c \in Caller : []<>~Waiting(c)
=============================================================================
