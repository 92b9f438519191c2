--------------------------- MODULE WsSessionProofs ---------------------------
(***************************************************************************)
(* Proofs about the two ends of a WebSocket connection: with any number of *)
(* callers, operations and responses, the client is one that the server    *)
(* may have, each caller gets the responses to its own request and all of  *)
(* them, and nothing is sent to a channel that is closed.                  *)
(***************************************************************************)
EXTENDS WsSession, FiniteSetTheorems, TLAPS

\* What was proved of the server with any client.
Server == INSTANCE WsServerProofs
  WITH open <- {operationId[c] : c \in Caller} \ {NoId}

-----------------------------------------------------------------------------
(* Constants and sequences.                                                *)

LEMMA Constants ==
  /\ Stream = 1..MaxStreams /\ MaxStreams \in Nat
  /\ \A s \in Stream : s \in Nat /\ s # 0
  /\ NoId \notin Id /\ BadId \notin Id /\ BadId # NoId /\ \A i \in Id : i \in Nat
  /\ None \notin Caller /\ None \notin ToClient
  /\ Buffer \in Nat /\ Buffer > 0
  /\ IsFiniteSet(Caller) /\ Cardinality(Caller) \in Nat
<1>1. IsFiniteSet(Caller) /\ Cardinality(Caller) \in Nat
  BY ClientAssumption, FS_CardinalityType
<1>2. \A i \in Id : i \in Nat
  BY <1>1, ClientAssumption
<1>. QED BY <1>1, <1>2, ClientAssumption, NetworkAssumption DEF Stream

\* The elements of a sequence after its first was taken out.
LEMMA TailElements ==
  ASSUME NEW S, NEW q \in Seq(S), q # <<>>
  PROVE  /\ Tail(q) \in Seq(S)
         /\ Len(Tail(q)) = Len(q) - 1 /\ Len(q) \in Nat \ {0}
         /\ Head(q) = q[1] /\ Head(q) \in S
         /\ \A p \in 1..Len(Tail(q)) : Tail(q)[p] = q[p + 1] /\ p + 1 \in 1..Len(q)
OBVIOUS

\* The elements of a sequence after one was put at its end.
LEMMA AppendElements ==
  ASSUME NEW S, NEW q \in Seq(S), NEW e \in S
  PROVE  /\ Append(q, e) \in Seq(S)
         /\ Len(Append(q, e)) = Len(q) + 1 /\ Len(q) \in Nat
         /\ Append(q, e)[Len(q) + 1] = e
         /\ \A p \in 1..Len(q) : Append(q, e)[p] = q[p]
OBVIOUS

\* Reading a channel changes nothing about what came out of it or is in it.
LEMMA ReadingKeeps ==
  ASSUME NEW S, NEW q \in Seq(S), NEW r \in Seq(S), q # <<>>
  PROVE  Append(r, Head(q)) \o Tail(q) = r \o q
<1>1. /\ Len(Append(r, Head(q)) \o Tail(q)) = Len(r) + Len(q)
      /\ Len(r \o q) = Len(r) + Len(q)
      /\ Append(r, Head(q)) \o Tail(q) \in Seq(S) /\ r \o q \in Seq(S)
  OBVIOUS
<1>2. ASSUME NEW k \in 1..(Len(r) + Len(q))
      PROVE  (Append(r, Head(q)) \o Tail(q))[k] = (r \o q)[k]
  OBVIOUS
<1>. QED BY <1>1, <1>2

\* Sending appends to what came out of it or is in it.
LEMMA SendingAppends ==
  ASSUME NEW S, NEW q \in Seq(S), NEW r \in Seq(S), NEW e \in S
  PROVE  r \o Append(q, e) = Append(r \o q, e)
<1>1. /\ Len(r \o Append(q, e)) = Len(r) + Len(q) + 1
      /\ Len(Append(r \o q, e)) = Len(r) + Len(q) + 1
      /\ r \o Append(q, e) \in Seq(S) /\ Append(r \o q, e) \in Seq(S)
  OBVIOUS
<1>2. ASSUME NEW k \in 1..(Len(r) + Len(q) + 1)
      PROVE  (r \o Append(q, e))[k] = Append(r \o q, e)[k]
  OBVIOUS
<1>. QED BY <1>1, <1>2

LEMMA ResponsesTyped ==
  ASSUME TypeOK, NEW c \in Caller
  PROVE  /\ chan[c] \in Seq(Item) /\ received[c] \in Seq(Item)
         /\ Responses(c) \in Seq(Item) /\ Len(Responses(c)) \in Nat
BY DEF TypeOK, ClientTypeOK, Responses

-----------------------------------------------------------------------------
(* The server with any client.                                             *)

\* The invariant of the server, read through either instance.
LEMMA SameInvariant ==
  /\ AnyClient!ServerInv <=> Server!ServerInv
  /\ AnyClient!ServerInv' <=> Server!ServerInv'
<1>. USE DEF
  AnyClient!TypeOK, AnyClient!NetworkTypeOK, AnyClient!ServerTypeOK, AnyClient!Stream,
  AnyClient!ToServer, AnyClient!ToClient, AnyClient!StartInv, AnyClient!UseInv,
  AnyClient!Reader, AnyClient!Starts, AnyClient!InUse, AnyClient!OnTheWay,
  AnyClient!MessageInv, AnyClient!RegisteredInv, AnyClient!CountInv, AnyClient!ServerInv,
  Server!TypeOK, Server!NetworkTypeOK, Server!ServerTypeOK, Server!Stream, Server!ToServer,
  Server!ToClient, Server!StartInv, Server!UseInv, Server!Reader, Server!Starts,
  Server!InUse, Server!OnTheWay, Server!MessageInv, Server!RegisteredInv, Server!CountInv,
  Server!ServerInv
<1>1. AnyClient!ServerInv <=> Server!ServerInv
  OBVIOUS
<1>2. AnyClient!ServerInv' <=> Server!ServerInv'
  OBVIOUS
<1>. QED BY <1>1, <1>2

\* The next-state relation, read through either instance.
LEMMA SameStep == [AnyClient!Next]_AnyClient!vars => [Server!Next]_Server!vars
BY DEF
  AnyClient!Next, AnyClient!vars, AnyClient!serverVars, AnyClient!network,
  AnyClient!sources, AnyClient!Client, AnyClient!ClientStart, AnyClient!ClientStop,
  AnyClient!ClientNames, AnyClient!ClientSays, AnyClient!ClientSend, AnyClient!ClientRead,
  AnyClient!Disconnect, AnyClient!ServerNext, AnyClient!Stream, AnyClient!Loop,
  AnyClient!Forwarder, AnyClient!Engine, AnyClient!Reader, AnyClient!PanicOnId,
  AnyClient!Handshake, AnyClient!ReadStart, AnyClient!Register, AnyClient!ReadStop,
  AnyClient!ReadOther, AnyClient!ReadFails, AnyClient!Return, AnyClient!Receive,
  AnyClient!ReceiveClosed, AnyClient!Unregister, AnyClient!MarshalFails,
  AnyClient!LockToWrite, AnyClient!WriteData, AnyClient!WriteComplete, AnyClient!Produce,
  AnyClient!CloseSource, AnyClient!CanWrite, AnyClient!Written, AnyClient!Reply,
  Server!Next, Server!vars, Server!serverVars, Server!network, Server!sources,
  Server!Client, Server!ClientStart, Server!ClientStop, Server!ClientNames,
  Server!ClientSays, Server!ClientSend, Server!ClientRead, Server!Disconnect,
  Server!ServerNext, Server!Stream, Server!Loop, Server!Forwarder, Server!Engine,
  Server!Reader, Server!PanicOnId, Server!Handshake, Server!ReadStart, Server!Register,
  Server!ReadStop, Server!ReadOther, Server!ReadFails, Server!Return, Server!Receive,
  Server!ReceiveClosed, Server!Unregister, Server!MarshalFails, Server!LockToWrite,
  Server!WriteData, Server!WriteComplete, Server!Produce, Server!CloseSource,
  Server!CanWrite, Server!Written, Server!Reply

\* A server whose client keeps to the protocol keeps its invariant.
LEMMA ServerKeeps ==
  AnyClient!ServerInv /\ [AnyClient!Next]_AnyClient!vars => AnyClient!ServerInv'
BY SameInvariant, SameStep, NetworkAssumption, Server!InvStep DEF Server!InvStep

\* What the server's invariant says of a session.
LEMMA ServerFacts ==
  ASSUME AnyClient!ServerInv
  PROVE  /\ started \in Nat /\ NetworkTypeOK /\ ServerTypeOK
         /\ \A s \in Stream : s <= started => idOf[s] \in Id
         /\ \A s \in Stream : s > started =>
              /\ idOf[s] = NoId /\ forwarder[s] = "none" /\ written[s] = 0
         /\ loop = "starting" => started # 0 /\ forwarder[started] = "none"
         /\ \A p \in 1..Len(toClient) : toClient[p].stream # 0 =>
              /\ toClient[p].stream <= started
              /\ toClient[p].id = idOf[toClient[p].stream]
              /\ toClient[p].type = "complete" =>
                   /\ forwarder[toClient[p].stream] = "done"
                   /\ \A q \in 1..Len(toClient) :
                        toClient[q].stream = toClient[p].stream => q <= p
         /\ \A s \in Stream :
              /\ forwarder[s] = "done" => sourceClosed[s]
              /\ connected => /\ forwarder[s] = "sending" => taken[s] = written[s] + 1
                              /\ forwarder[s] = "completing" => produced[s] = written[s]
<1>. USE DEF
  AnyClient!TypeOK, AnyClient!NetworkTypeOK, AnyClient!ServerTypeOK, AnyClient!Stream,
  AnyClient!ToServer, AnyClient!ToClient, AnyClient!StartInv, AnyClient!MessageInv,
  AnyClient!CountInv, AnyClient!ServerInv, AnyClient!Reader, Stream, ToServer, ToClient,
  Reader
<1>1. NetworkTypeOK /\ ServerTypeOK
  BY DEF NetworkTypeOK, ServerTypeOK
<1>2. started \in Nat
  BY <1>1, NetworkAssumption DEF ServerTypeOK
<1>3. ASSUME NEW s \in Stream
      PROVE  /\ forwarder[s] = "done" => sourceClosed[s]
             /\ connected => /\ forwarder[s] = "sending" => taken[s] = written[s] + 1
                             /\ forwarder[s] = "completing" => produced[s] = written[s]
  <2>1. taken[s] \in Nat /\ produced[s] \in Nat /\ written[s] \in Nat
    BY <1>1 DEF ServerTypeOK
  <2>2. /\ forwarder[s] \in {"unregister", "completing", "done"} =>
             sourceClosed[s] /\ taken[s] = produced[s]
        /\ connected => written[s] = taken[s] - (IF forwarder[s] = "sending" THEN 1 ELSE 0)
    OBVIOUS
  <2>. QED BY <2>1, <2>2
<1>4. \A p \in 1..Len(toClient) : toClient[p].stream # 0 =>
        /\ toClient[p].stream <= started
        /\ toClient[p].id = idOf[toClient[p].stream]
        /\ toClient[p].type = "complete" =>
             /\ forwarder[toClient[p].stream] = "done"
             /\ \A q \in 1..Len(toClient) : toClient[q].stream = toClient[p].stream => q <= p
  OBVIOUS
<1>5. /\ \A s \in Stream : s <= started => idOf[s] \in Id
      /\ \A s \in Stream : s > started =>
           /\ idOf[s] = NoId /\ forwarder[s] = "none" /\ written[s] = 0
      /\ loop = "starting" => started # 0 /\ forwarder[started] = "none"
  OBVIOUS
<1>. QED BY <1>1, <1>2, <1>3, <1>4, <1>5

-----------------------------------------------------------------------------
(* What the steps do.                                                      *)

\* What a step of the server does to its streams: it starts one, with the id of the "start"
\* that it reads, or none; what was started keeps its id, and what is done stays so.
LEMMA ServerStarts ==
  ASSUME TypeOK, AnyClient!ServerInv, ServerNext
  PROVE  /\ \A s \in Stream : s <= started => idOf'[s] = idOf[s]
         /\ \A s \in Stream : forwarder[s] = "done" =>
              /\ forwarder'[s] = "done"
              /\ produced'[s] = produced[s] /\ written'[s] = written[s]
         /\ \/ /\ started' = started
               /\ toServer' = toServer \/ (toServer # <<>> /\ toServer' = Tail(toServer))
            \/ /\ started' = started + 1 /\ started' \in Stream
               /\ toServer # <<>> /\ toServer' = Tail(toServer)
               /\ Head(toServer).type = "start" /\ Head(toServer).id \in Id
               /\ idOf'[started'] = Head(toServer).id
               /\ UNCHANGED <<toClient, forwarder, written>>
<1>. USE DEF sources
<1>0. /\ started \in Nat /\ \A s \in Stream : s \in Nat /\ s # 0
      /\ loop = "starting" => started # 0 /\ forwarder[started] = "none"
      /\ \A s \in Stream : forwarder[s] = "done" => sourceClosed[s]
  BY Constants, ServerFacts
<1>1. ServerTypeOK /\ toServer \in Seq(ToServer)
  BY DEF TypeOK, NetworkTypeOK
<1>2. CASE ReadStart
  <2>1. Head(toServer) \in ToServer
    BY <1>1, <1>2, TailElements DEF ReadStart
  <2>2. Head(toServer).id \in Id
    BY <1>2, <2>1 DEF ToServer, ReadStart
  <2>3. started + 1 \in Stream
    BY <1>0, <1>2, Constants DEF ReadStart
  <2>. QED BY <1>0, <1>1, <1>2, <2>2, <2>3 DEF ReadStart, ServerTypeOK
<1>3. CASE Register
  <2>1. \A s \in Stream : forwarder[s] = "done" => forwarder'[s] = "done"
    BY <1>0, <1>1, <1>3 DEF Register, ServerTypeOK
  <2>. QED BY <1>3, <2>1 DEF Register, network
<1>4. CASE Handshake \/ ReadStop \/ PanicOnId \/ ReadOther \/ ReadFails \/ Return
  BY <1>4 DEF Handshake, ReadStop, PanicOnId, ReadOther, ReadFails, Return, serverVars
<1>5. ASSUME NEW t \in Stream, Forwarder(t) \/ Engine(t)
      PROVE  /\ UNCHANGED <<idOf, started, toServer>>
             /\ \A s \in Stream : forwarder[s] = "done" =>
                  /\ forwarder'[s] = "done"
                  /\ produced'[s] = produced[s] /\ written'[s] = written[s]
  <2>1. UNCHANGED <<idOf, started, toServer>>
    BY <1>5 DEF Forwarder, Engine, Receive, ReceiveClosed, Unregister, MarshalFails,
                LockToWrite, WriteData, WriteComplete, Produce, CloseSource, network
  <2>. SUFFICES ASSUME NEW s \in Stream, forwarder[s] = "done"
                PROVE  /\ forwarder'[s] = "done"
                       /\ produced'[s] = produced[s] /\ written'[s] = written[s]
    BY <2>1
  <2>2. forwarder'[s] = "done"
    BY <1>1, <1>5 DEF Forwarder, Engine, Receive, ReceiveClosed, Unregister, MarshalFails,
              LockToWrite, WriteData, WriteComplete, Produce, CloseSource, ServerTypeOK
  <2>3. produced'[s] = produced[s]
    BY <1>0, <1>1, <1>5 DEF Forwarder, Engine, Receive, ReceiveClosed, Unregister, MarshalFails,
              LockToWrite, WriteData, WriteComplete, Produce, CloseSource, ServerTypeOK
  <2>4. written'[s] = written[s]
    BY <1>1, <1>5 DEF Forwarder, Engine, Receive, ReceiveClosed, Unregister, MarshalFails,
              LockToWrite, WriteData, WriteComplete, Produce, CloseSource, ServerTypeOK
  <2>. QED BY <2>2, <2>3, <2>4
<1>. QED BY <1>2, <1>3, <1>4, <1>5 DEF ServerNext, Loop

\* What a step of the server does to the messages on their way: it writes the answer to
\* connection_init, or the next response of a stream, or "complete" when all are written, or
\* nothing.
LEMMA ServerWrites ==
  ASSUME TypeOK, AnyClient!ServerInv, ServerNext
  PROVE  \/ UNCHANGED <<toClient, written>>
         \/ /\ Handshake /\ UNCHANGED written
            /\ \E m \in ToClient : m.stream = 0 /\ toClient' = Append(toClient, m)
         \/ \E t \in Stream, m \in ToClient :
              /\ toClient' = Append(toClient, m)
              /\ t <= started /\ forwarder[t] # "done"
              /\ m.stream = t /\ m.id = idOf[t]
              /\ \/ /\ m.type = "data" /\ m.number = written[t] + 1
                    /\ written' = [written EXCEPT ![t] = @ + 1]
                 \/ /\ m.type = "complete" /\ written[t] = produced[t]
                    /\ UNCHANGED <<written, produced>>
                    /\ forwarder'[t] = "done"
<1>. USE DEF sources
<1>1. ServerTypeOK
  BY DEF TypeOK
<1>2. CASE Handshake
  <2>1. /\ Reply("connection_ack", NoId, 0, 0) \in ToClient
        /\ Reply("connection_error", NoId, 0, 0) \in ToClient
        /\ Reply("connection_ack", NoId, 0, 0).stream = 0
        /\ Reply("connection_error", NoId, 0, 0).stream = 0
    BY DEF Reply, ToClient
  <2>. QED BY <1>2, <2>1 DEF Handshake, Written
<1>3. ASSUME NEW t \in Stream, WriteData(t) \/ WriteComplete(t), connected
      PROVE  \E m \in ToClient :
              /\ toClient' = Append(toClient, m)
              /\ t <= started /\ forwarder[t] # "done"
              /\ m.stream = t /\ m.id = idOf[t]
              /\ \/ /\ m.type = "data" /\ m.number = written[t] + 1
                    /\ written' = [written EXCEPT ![t] = @ + 1]
                 \/ /\ m.type = "complete" /\ written[t] = produced[t]
                    /\ UNCHANGED <<written, produced>>
                    /\ forwarder'[t] = "done"
  <2>1. t <= started /\ idOf[t] \in Id /\ t \in Nat
    <3>1. forwarder[t] # "none"
      BY <1>3 DEF WriteData, WriteComplete
    <3>2. t \in Nat /\ started \in Nat /\ (t > started => forwarder[t] = "none")
          /\ (t <= started => idOf[t] \in Id)
      BY Constants, ServerFacts
    <3>. QED BY <3>1, <3>2
  <2>2. taken[t] \in Nat
    BY <1>1 DEF ServerTypeOK
  <2>3. CASE WriteData(t)
    <3>. DEFINE m == Reply("data", idOf[t], t, taken[t])
    <3>1. m \in ToClient
      BY <2>1, <2>2 DEF Reply, ToClient
    <3>2. /\ toClient' = Append(toClient, m) /\ forwarder[t] # "done"
          /\ written' = [written EXCEPT ![t] = @ + 1]
      BY <1>3, <2>3 DEF WriteData, Written
    <3>3. m.number = written[t] + 1
      BY <1>3, <2>3, ServerFacts DEF Reply, WriteData
    <3>4. m.stream = t /\ m.id = idOf[t] /\ m.type = "data"
      BY DEF Reply
    <3>. QED BY <2>1, <3>1, <3>2, <3>3, <3>4
  <2>4. CASE WriteComplete(t)
    <3>. DEFINE m == Reply("complete", idOf[t], t, 0)
    <3>1. m \in ToClient
      BY <2>1 DEF Reply, ToClient
    <3>2. /\ toClient' = Append(toClient, m) /\ forwarder[t] # "done"
          /\ UNCHANGED <<written, produced>> /\ forwarder'[t] = "done"
      BY <1>1, <1>3, <2>4 DEF WriteComplete, Written, ServerTypeOK
    <3>3. written[t] = produced[t]
      BY <1>3, <2>4, ServerFacts DEF WriteComplete
    <3>4. m.stream = t /\ m.id = idOf[t] /\ m.type = "complete"
      BY DEF Reply
    <3>. QED BY <2>1, <3>1, <3>2, <3>3, <3>4
  <2>. QED BY <1>3, <2>3, <2>4
<1>4. ASSUME NEW t \in Stream, WriteData(t) \/ WriteComplete(t), ~connected
      PROVE  UNCHANGED <<toClient, written>>
  <2>1. CASE WriteData(t)
    <3>1. written' = [written EXCEPT ![t] = written[t]] /\ toClient' = toClient
      BY <1>4, <2>1 DEF WriteData, Written
    <3>. QED BY <1>1, <3>1 DEF ServerTypeOK
  <2>2. CASE WriteComplete(t)
    BY <1>4, <2>2 DEF WriteComplete, Written
  <2>. QED BY <1>4, <2>1, <2>2
<1>5. (ReadStart \/ Register \/ ReadStop \/ PanicOnId \/ ReadOther \/ ReadFails \/ Return)
        => UNCHANGED <<toClient, written>>
  BY DEF ReadStart, Register, ReadStop, PanicOnId, ReadOther, ReadFails, Return, network,
         serverVars
<1>6. ASSUME NEW t \in Stream, Forwarder(t) \/ Engine(t), ~WriteData(t), ~WriteComplete(t)
      PROVE  UNCHANGED <<toClient, written>>
  BY <1>6 DEF Forwarder, Engine, Receive, ReceiveClosed, Unregister, MarshalFails, LockToWrite,
              Produce, CloseSource, network
<1>7. connected \in BOOLEAN
  BY DEF TypeOK, NetworkTypeOK
<1>. QED BY <1>2, <1>3, <1>4, <1>5, <1>6, <1>7 DEF ServerNext, Loop

-----------------------------------------------------------------------------
(* The client keeps to the protocol.                                       *)

\* What the service goroutine may rely on when it opens an operation: the caller has waited
\* for it with an empty channel, and the next id was never given out.
LEMMA OpeningFacts ==
  ASSUME TypeOK, IdInv, ServiceInv, service = "opening"
  PROVE  /\ working \in Caller /\ caller[working] = "served" /\ Untouched(working)
         /\ nextStreamId \in Id /\ nextStreamId # NoId
         /\ \A c \in Caller : operationId[c] # nextStreamId
         /\ nextStreamId + 1 <= Cardinality(Served)
<1>1. working \in Served /\ Untouched(working)
  BY DEF ServiceInv
<1>2. IsFiniteSet(Served) /\ Served \subseteq Caller
      /\ Cardinality(Served) <= Cardinality(Caller) /\ Cardinality(Served) \in Nat
  BY Constants, FS_Subset, FS_CardinalityType DEF Served
<1>3. Cardinality(Served \ {working}) = Cardinality(Served) - 1
  BY <1>1, <1>2, FS_RemoveElement
<1>4. nextStreamId \in Nat /\ nextStreamId <= Cardinality(Served) - 1
  BY <1>3 DEF IdInv, TypeOK, ClientTypeOK
<1>5. nextStreamId \in Id
  BY <1>2, <1>4, ClientAssumption, Constants
<1>6. ASSUME NEW c \in Caller PROVE operationId[c] # nextStreamId
  <2>1. operationId[c] # NoId => operationId[c] < nextStreamId
    BY DEF IdInv
  <2>2. operationId[c] \in Id \cup {NoId}
    BY DEF TypeOK, ClientTypeOK
  <2>. QED BY <1>5, <2>1, <2>2, Constants
<1>. QED BY <1>1, <1>2, <1>4, <1>5, <1>6, Constants DEF Served

\* A step of the server in a session is one of the server with any client.
LEMMA ServerStepMaps ==
  ASSUME ServerNext, UNCHANGED clientVars
  PROVE  AnyClient!Next
<1>1. AnyClient!ServerNext
  BY DEF
    AnyClient!ServerNext, AnyClient!serverVars, AnyClient!network, AnyClient!sources,
    AnyClient!Stream, AnyClient!Loop, AnyClient!Forwarder, AnyClient!Engine,
    AnyClient!Reader, AnyClient!PanicOnId, AnyClient!Handshake, AnyClient!ReadStart,
    AnyClient!Register, AnyClient!ReadStop, AnyClient!ReadOther, AnyClient!ReadFails,
    AnyClient!Return, AnyClient!Receive, AnyClient!ReceiveClosed, AnyClient!Unregister,
    AnyClient!MarshalFails, AnyClient!LockToWrite, AnyClient!WriteData,
    AnyClient!WriteComplete, AnyClient!Produce, AnyClient!CloseSource, AnyClient!CanWrite,
    AnyClient!Written, AnyClient!Reply,
    ServerNext, serverVars, network, sources, Stream, Loop, Forwarder, Engine,
    Handshake, ReadStart, Register, ReadStop, ReadOther, ReadFails, Return, Receive,
    ReceiveClosed, Unregister, MarshalFails, LockToWrite, WriteData, WriteComplete, Produce,
    CloseSource, PanicOnId, Reader,
    CanWrite, Written, Reply
<1>2. UNCHANGED operationId
  BY DEF clientVars, table
<1>. QED BY <1>1, <1>2 DEF AnyClient!Next

\* A step of the client is one that the server allows, or is none to it.
LEMMA ClientStepMaps ==
  ASSUME TypeOK, DialInv, IdInv, ServiceInv, ClientNext, UNCHANGED serverVars
  PROVE  [AnyClient!Next]_AnyClient!vars
<1>. USE DEF dialing, handover, table, channels, network
<1>. DEFINE Given == {operationId[c] : c \in Caller} \ {NoId}
<1>0. connected \in BOOLEAN /\ toServer \in Seq(ToServer)
  BY DEF TypeOK, NetworkTypeOK
<1>1. UNCHANGED AnyClient!serverVars
  BY DEF serverVars, sources, AnyClient!serverVars, AnyClient!sources
<1>2. ASSUME NEW c \in Caller, Dial(c), connected PROVE AnyClient!Next
  <2>1. AnyClient!ClientSays("connection_init")
    BY <1>0, <1>1, <1>2, Constants
    DEF Dial, Written, DialInv, AnyClient!ClientSays, AnyClient!ClientSend
  <2>. QED BY <2>1 DEF AnyClient!Next, AnyClient!Client
<1>3. ASSUME toClient # <<>>, toClient' = Tail(toClient),
             UNCHANGED <<connected, toServer, operationId>>
      PROVE  AnyClient!Next
  BY <1>1, <1>3 DEF AnyClient!Next, AnyClient!Client, AnyClient!ClientRead
<1>4. CASE OpenOperation
  <2>1. /\ working \in Caller /\ Untouched(working)
        /\ nextStreamId \in Id /\ nextStreamId # NoId
        /\ \A c \in Caller : operationId[c] # nextStreamId
    BY <1>4, OpeningFacts DEF OpenOperation
  <2>2. operationId' = [operationId EXCEPT ![working] = nextStreamId]
    BY <1>4 DEF OpenOperation
  <2>3. Given' = Given \cup {nextStreamId}
    <3>1. ASSUME NEW c \in Caller
          PROVE  operationId'[c] = IF c = working THEN nextStreamId ELSE operationId[c]
      BY <2>1, <2>2 DEF TypeOK, ClientTypeOK
    <3>2. operationId[working] = NoId
      BY <2>1 DEF Untouched
    <3>3. Given' \subseteq Given \cup {nextStreamId}
      BY <3>1
    <3>4. ASSUME NEW i \in Given PROVE i \in Given'
      <4>1. PICK c \in Caller : operationId[c] = i /\ i # NoId
        OBVIOUS
      <4>2. operationId'[c] = i
        BY <3>1, <3>2, <4>1
      <4>. QED BY <4>1, <4>2
    <3>5. nextStreamId \in Given'
      BY <2>1, <3>1
    <3>. QED BY <3>3, <3>4, <3>5
  <2>4. nextStreamId \notin Given
    BY <2>1
  <2>5. PICK i \in Id : i = nextStreamId
    BY <2>1
  <2>6. AnyClient!ClientStart(i)
    BY <1>1, <1>4, <2>3, <2>4, <2>5
    DEF OpenOperation, CanWrite, Written, AnyClient!ClientStart, AnyClient!ClientSend
  <2>. QED BY <2>6 DEF AnyClient!Next, AnyClient!Client
<1>5. ASSUME connected, connected' = FALSE, UNCHANGED <<toServer, toClient, operationId>>
      PROVE  AnyClient!Next
  BY <1>1, <1>5 DEF AnyClient!Next, AnyClient!Client, AnyClient!Disconnect
<1>6. ASSUME UNCHANGED <<network, operationId>> PROVE UNCHANGED AnyClient!vars
  BY <1>1, <1>6 DEF AnyClient!vars, AnyClient!network
<1>7. ASSUME NEW c \in Caller, Call(c) \/ ReadResponse(c)
      PROVE  \/ Dial(c) /\ connected
             \/ /\ toClient # <<>> /\ toClient' = Tail(toClient)
                /\ UNCHANGED <<connected, toServer, operationId>>
             \/ /\ connected /\ connected' = FALSE
                /\ UNCHANGED <<toServer, toClient, operationId>>
             \/ UNCHANGED <<network, operationId>>
  BY <1>0, <1>7 DEF Call, Dial, ReadAck, GiveUp, RegisterConnection, UseConnection, DialAnother,
                    HandOver, Crash, ReadResponse, Written
<1>8. ASSUME Service \/ ReadSide
      PROVE  \/ OpenOperation
             \/ /\ toClient # <<>> /\ toClient' = Tail(toClient)
                /\ UNCHANGED <<connected, toServer, operationId>>
             \/ /\ connected /\ connected' = FALSE
                /\ UNCHANGED <<toServer, toClient, operationId>>
             \/ UNCHANGED <<network, operationId>>
  BY <1>0, <1>8 DEF Service, ReadSide, OpenFails, TakeMessage, Deliver, TakeError,
                    FailOperation, FailedAll, ReadMessage, ReadError, CloseCommands,
                    UnregisterConnection
<1>. QED BY <1>2, <1>3, <1>4, <1>5, <1>6, <1>7, <1>8 DEF ClientNext

\* Every step of a session is one of the server with a client that keeps to the protocol.
LEMMA StepMaps ==
  TypeOK /\ DialInv /\ IdInv /\ ServiceInv /\ [Next]_vars => [AnyClient!Next]_AnyClient!vars
<1>. SUFFICES ASSUME TypeOK, DialInv, IdInv, ServiceInv, [Next]_vars
              PROVE  [AnyClient!Next]_AnyClient!vars
  OBVIOUS
<1>1. CASE Disconnect /\ UNCHANGED <<clientVars, serverVars>>
  BY <1>1 DEF Disconnect, clientVars, table, serverVars, sources, AnyClient!Next,
              AnyClient!Client, AnyClient!Disconnect, AnyClient!serverVars, AnyClient!sources
<1>2. CASE UNCHANGED vars
  BY <1>2 DEF vars, network, clientVars, table, serverVars, sources, AnyClient!vars,
              AnyClient!network, AnyClient!serverVars, AnyClient!sources
<1>. QED BY <1>1, <1>2, ServerStepMaps, ClientStepMaps DEF Next

LEMMA InitMaps == Init => AnyClient!Init
BY DEF Init, NetworkInit, ClientInit, ServerInit, AnyClient!Init, AnyClient!NetworkInit,
       AnyClient!ServerInit, AnyClient!Stream, Stream

-----------------------------------------------------------------------------
(* Type correctness.                                                       *)

\* The invariant of the server types the network and the server.
LEMMA ServerTyped ==
  AnyClient!ServerInv' => NetworkTypeOK' /\ ServerTypeOK'
BY DEF AnyClient!ServerInv, AnyClient!TypeOK, AnyClient!NetworkTypeOK,
       AnyClient!ServerTypeOK, AnyClient!Stream, AnyClient!ToServer, AnyClient!ToClient,
       AnyClient!Reader, NetworkTypeOK, ServerTypeOK, Stream, ToServer, ToClient, Reader

\* What the client reads or holds has the type of a message.
LEMMA MessagesTyped ==
  ASSUME TypeOK
  PROVE  /\ toClient # <<>> => Head(toClient) \in ToClient
         /\ \A m \in ToClient : m.stream # 0 <=> m.type \in {"data", "complete"}
         /\ \A m \in ToClient : m.stream # 0 => m.stream \in Stream /\ m.id \in Id
         /\ \A m \in ToClient : m.type = "data" => Data(m) \in Item
         /\ Failure \in Item
<1>1. toClient # <<>> => Head(toClient) \in ToClient
  BY TailElements DEF TypeOK, NetworkTypeOK
<1>. QED BY <1>1, Constants DEF ToClient, Data, Item, Failure

LEMMA ClientTypeStep ==
  ASSUME TypeOK, DialInv, IdInv, ServiceInv, [Next]_vars
  PROVE  ClientTypeOK'
<1>. USE DEF TypeOK, dialing, handover, table, channels
<1>1. CASE UNCHANGED clientVars
  BY <1>1 DEF clientVars, ClientTypeOK
<1>2. ASSUME NEW c \in Caller, Dial(c) \/ ReadAck(c) \/ GiveUp(c) PROVE ClientTypeOK'
  BY <1>2 DEF Dial, ReadAck, GiveUp, Goes, ClientTypeOK
<1>3. ASSUME NEW c \in Caller,
             RegisterConnection(c) \/ UseConnection(c) \/ DialAnother(c) \/ HandOver(c) \/ Crash(c)
      PROVE  ClientTypeOK'
  BY <1>3 DEF RegisterConnection, UseConnection, DialAnother, HandOver, Crash, Goes, ClientTypeOK
<1>4. ASSUME NEW c \in Caller, ReadResponse(c) PROVE ClientTypeOK'
  <2>1. Tail(chan[c]) \in Seq(Item) /\ Head(chan[c]) \in Item
    BY <1>4, TailElements DEF ReadResponse, ClientTypeOK
  <2>2. Append(received[c], Head(chan[c])) \in Seq(Item)
    BY <2>1, AppendElements DEF ClientTypeOK
  <2>3. chan' \in [Caller -> Seq(Item)]
    BY <1>4, <2>1 DEF ReadResponse, ClientTypeOK
  <2>4. received' \in [Caller -> Seq(Item)]
    BY <1>4, <2>2 DEF ReadResponse, ClientTypeOK
  <2>. QED BY <1>4, <2>3, <2>4 DEF ReadResponse, ClientTypeOK
<1>5. CASE OpenOperation
  <2>1. working \in Caller /\ nextStreamId \in Id /\ nextStreamId + 1 \in Nat
    BY <1>5, OpeningFacts, Constants DEF OpenOperation
  <2>. QED BY <1>5, <2>1 DEF OpenOperation, ClientTypeOK
<1>6. ASSUME NEW c \in Caller, FailChannel(c)
      PROVE  chan' \in [Caller -> Seq(Item)] /\ chanClosed' \in [Caller -> BOOLEAN]
  <2>1. Append(chan[c], Failure) \in Seq(Item)
    BY MessagesTyped, AppendElements DEF ClientTypeOK
  <2>. QED BY <1>6, <2>1 DEF FailChannel, ClientTypeOK
<1>7. CASE OpenFails
  <2>1. working \in Caller /\ FailChannel(working)
    BY <1>7, OpeningFacts DEF OpenFails
  <2>2. nextStreamId' \in Nat
    BY <1>7 DEF OpenFails, ClientTypeOK
  <2>. QED BY <1>6, <1>7, <2>1, <2>2 DEF OpenFails, ClientTypeOK
<1>8. CASE TakeMessage
  <2>1. handed.type = "data" => Data(handed) \in Item /\ handed.id \in Id
    <3>1. handed \in ToClient
      BY <1>8 DEF TakeMessage, DialInv, ClientTypeOK
    <3>. QED BY <3>1, MessagesTyped
  <2>2. service' \in {"select", "delivering", "failing"}
    BY <1>8 DEF TakeMessage
  <2>3. operations' \in [Id -> Caller \cup {None}]
    BY <1>8 DEF TakeMessage, ClientTypeOK
  <2>4. chanClosed' \in [Caller -> BOOLEAN]
    BY <1>8 DEF TakeMessage, ClientTypeOK
  <2>5. working' \in Caller \cup {None}
    BY <1>8, <2>1 DEF TakeMessage, ClientTypeOK
  <2>6. item' \in Item
    BY <1>8, <2>1 DEF TakeMessage, ClientTypeOK
  <2>. QED BY <1>8, <2>2, <2>3, <2>4, <2>5, <2>6 DEF TakeMessage, ClientTypeOK
<1>9. CASE Deliver
  <2>1. working \in Caller
    BY <1>9 DEF Deliver, ServiceInv, ClientTypeOK
  <2>2. Append(chan[working], item) \in Seq(Item)
    BY <2>1, AppendElements DEF ClientTypeOK
  <2>3. chan' \in [Caller -> Seq(Item)]
    BY <1>9, <2>2 DEF Deliver, ClientTypeOK
  <2>. QED BY <1>9, <2>3, MessagesTyped DEF Deliver, ClientTypeOK
<1>10. CASE TakeError \/ FailedAll \/ ReadError \/ CloseCommands \/ UnregisterConnection
  BY <1>10 DEF TakeError, FailedAll, ReadError, CloseCommands, UnregisterConnection, ClientTypeOK
<1>11. ASSUME NEW i \in Id, FailOperation(i) PROVE ClientTypeOK'
  <2>1. operations[i] \in Caller /\ FailChannel(operations[i])
    BY <1>11 DEF FailOperation, ClientTypeOK
  <2>2. operations' \in [Id -> Caller \cup {None}]
    BY <1>11 DEF FailOperation, ClientTypeOK
  <2>. QED BY <1>6, <1>11, <2>1, <2>2 DEF FailOperation, ClientTypeOK
<1>12. CASE ReadMessage
  <2>1. handed' \in ToClient
    BY <1>12, MessagesTyped DEF ReadMessage
  <2>. QED BY <1>12, <2>1 DEF ReadMessage, ClientTypeOK
<1>13. UNCHANGED vars => UNCHANGED clientVars
  BY DEF vars
<1>. QED
  BY <1>1, <1>2, <1>3, <1>4, <1>5, <1>7, <1>8, <1>9, <1>10, <1>11, <1>12, <1>13
  DEF Next, ClientNext, Call, Service, ReadSide

-----------------------------------------------------------------------------
(* Dialing and the handshake.                                              *)

\* What of a session a step of the server leaves alone.
LEMMA ServerLeaves ==
  UNCHANGED clientVars =>
    UNCHANGED <<dialed, registered, caller, service, working, item, reader, handed,
                commandsClosed, nextStreamId, operations, operationId, chan, chanClosed,
                received>>
BY DEF clientVars, dialing, handover, table, channels

\* Nobody is served before the goroutines start.
LEMMA NobodyServedStep ==
  ASSUME TypeOK, DialInv, [Next]_vars, service' = "off"
  PROVE  Served' = {}
<1>. USE DEF dialing, handover, table, channels
<1>1. ASSUME NEW c \in Caller, Call(c)
      PROVE  service = "off" /\ \A d \in Caller : caller'[d] = "served" => caller[d] = "served"
  BY <1>1 DEF Call, Dial, ReadAck, GiveUp, RegisterConnection, UseConnection, DialAnother,
              HandOver, Crash, Goes, TypeOK, ClientTypeOK
<1>2. ASSUME NEW c \in Caller, ReadResponse(c) PROVE UNCHANGED <<service, caller>>
  BY <1>2 DEF ReadResponse
<1>3. Service => FALSE
  BY DEF Service, OpenOperation, OpenFails, TakeMessage, Deliver, TakeError, FailOperation,
         FailedAll
<1>4. ReadSide => UNCHANGED <<service, caller>>
  BY DEF ReadSide, ReadMessage, ReadError, CloseCommands, UnregisterConnection
<1>5. UNCHANGED clientVars => UNCHANGED <<service, caller>>
  BY ServerLeaves
<1>6. UNCHANGED vars => UNCHANGED clientVars
  BY DEF vars
<1>. QED BY <1>1, <1>2, <1>3, <1>4, <1>5, <1>6 DEF DialInv, Served, Next, ClientNext

LEMMA DialStep ==
  ASSUME TypeOK, AnyClient!ServerInv, DialInv, ServiceInv, [Next]_vars
  PROVE  DialInv'
<1>. USE DEF dialing, handover, table, channels, network
<1>0. service' = "off" => Served' = {}
  BY NobodyServedStep
<1>1. CASE UNCHANGED <<dialed, registered, toServer, caller, service, reader, handed>>
  BY <1>0, <1>1 DEF DialInv, Ending
<1>2. CASE ServerNext /\ UNCHANGED clientVars
  <2>1. UNCHANGED <<dialed, registered, caller, service, reader, handed>>
    BY <1>2, ServerLeaves
  <2>2. toServer = <<>> => toServer' = <<>>
    BY <1>2, ServerStarts
  <2>. QED BY <1>0, <2>1, <2>2 DEF DialInv, Ending
<1>3. ASSUME NEW c \in Caller, Dial(c) PROVE DialInv'
  <2>1. /\ dialed' /\ UNCHANGED <<service, reader, handed>>
        /\ ~dialed /\ service = "off"
    BY <1>3 DEF Dial, DialInv
  <2>2. \A d \in Caller : caller'[d] = "acking" => d = c
    BY <1>3 DEF Dial, Goes, DialInv, TypeOK, ClientTypeOK
  <2>. QED BY <1>0, <2>1, <2>2 DEF DialInv, Ending
<1>4. ASSUME NEW c \in Caller, Call(c), ~Dial(c), ~ReadAck(c) PROVE DialInv'
  <2>1. /\ dialed /\ dialed'
        /\ UNCHANGED <<reader, handed>>
        /\ \A d \in Caller : caller'[d] = "acking" => caller[d] = "acking"
        /\ \/ UNCHANGED service
           \/ service = "select" /\ service' = "opening"
    BY <1>4 DEF Call, GiveUp, RegisterConnection, UseConnection, DialAnother, HandOver, Crash,
                Goes, DialInv, TypeOK, ClientTypeOK
  <2>. QED BY <1>0, <2>1 DEF DialInv, Ending
<1>5. ASSUME NEW c \in Caller, ReadAck(c) PROVE DialInv'
  <2>1. /\ caller[c] = "acking" /\ service = "off" /\ reader = "off" /\ handed = None
        /\ dialed /\ dialed' /\ UNCHANGED handed
        /\ \/ service' = "select" /\ reader' = "reading"
           \/ service' = "off" /\ reader' = "off"
    BY <1>5 DEF ReadAck, Goes, DialInv
  <2>2. \A d \in Caller : caller'[d] # "acking"
    BY <1>5 DEF ReadAck, Goes, DialInv, TypeOK, ClientTypeOK
  <2>. QED BY <1>0, <2>1, <2>2 DEF DialInv, Ending
<1>6. CASE Service
  <2>1. service # "off" /\ service' # "off" /\ dialed /\ UNCHANGED <<dialed, caller>>
    BY <1>6 DEF Service, OpenOperation, OpenFails, TakeMessage, Deliver, TakeError,
                FailOperation, FailedAll, DialInv
  <2>2. \/ /\ UNCHANGED <<reader, handed>> /\ (Ending' <=> Ending)
        \/ reader = "handing" /\ reader' = "reading" /\ handed' = None /\ ~Ending /\ ~Ending'
        \/ reader = "handingError" /\ reader' = "closing" /\ UNCHANGED handed /\ Ending'
    BY <1>6 DEF Service, OpenOperation, OpenFails, TakeMessage, Deliver, TakeError,
                FailOperation, FailedAll, Ending
  <2>. QED BY <1>0, <2>1, <2>2 DEF DialInv, Ending
<1>7. CASE ReadSide
  <2>1. reader # "off" /\ reader' # "off" /\ UNCHANGED <<caller, dialed, service, toServer>>
    BY <1>7 DEF ReadSide, ReadMessage, ReadError, CloseCommands, UnregisterConnection
  <2>2. service # "off" /\ dialed
    BY <2>1 DEF DialInv
  <2>3. reader \in {"closing", "unregister", "done"} <=> reader' \in {"closing", "unregister", "done"}
    BY <1>7 DEF ReadSide, ReadMessage, ReadError, CloseCommands, UnregisterConnection
  <2>4. \/ handed' # None /\ reader' = "handing"
        \/ reader # "handing" /\ reader' # "handing" /\ UNCHANGED handed
    BY <1>7, MessagesTyped, Constants
    DEF ReadSide, ReadMessage, ReadError, CloseCommands, UnregisterConnection
  <2>. QED BY <1>0, <2>1, <2>2, <2>3, <2>4 DEF DialInv, Ending
<1>8. ASSUME NEW c \in Caller, ReadResponse(c)
      PROVE  UNCHANGED <<dialed, registered, toServer, caller, service, reader, handed>>
  BY <1>8 DEF ReadResponse
<1>9. Disconnect /\ UNCHANGED <<clientVars, serverVars>> =>
        UNCHANGED <<dialed, registered, toServer, caller, service, reader, handed>>
  BY ServerLeaves DEF Disconnect
<1>10. UNCHANGED vars =>
        UNCHANGED <<dialed, registered, toServer, caller, service, reader, handed>>
  BY ServerLeaves DEF vars
<1>. QED BY <1>1, <1>2, <1>3, <1>4, <1>5, <1>6, <1>7, <1>8, <1>9, <1>10 DEF Next, ClientNext

LEMMA HandshakeStep ==
  ASSUME TypeOK, AnyClient!ServerInv, DialInv, HandshakeInv, ServiceInv, [Next]_vars
  PROVE  HandshakeInv'
<1>. USE DEF dialing, handover, table, channels, network
<1>1. CASE UNCHANGED <<loop, started, toClient, reader>>
  BY <1>1 DEF HandshakeInv
<1>2. CASE ServerNext /\ UNCHANGED clientVars
  <2>1. UNCHANGED reader /\ ServerTypeOK /\ toClient \in Seq(ToClient)
    BY <1>2, ServerLeaves DEF TypeOK, NetworkTypeOK
  <2>2. loop' # "handshake" \/ (loop = "handshake" /\ UNCHANGED <<started, toClient>>)
    <3>1. Loop => loop' # "handshake" \/ (loop = "handshake" /\ UNCHANGED <<started, toClient>>)
      BY DEF Loop, Handshake, ReadStart, Register, ReadStop, PanicOnId, ReadOther, ReadFails,
             Return, serverVars
    <3>2. ASSUME NEW t \in Stream, Forwarder(t) \/ Engine(t), loop' = "handshake" PROVE FALSE
      <4>1. started = 0 /\ UNCHANGED loop
        BY <3>2 DEF Forwarder, Engine, Receive, ReceiveClosed, Unregister, MarshalFails,
                    LockToWrite, WriteData, WriteComplete, Produce, CloseSource, HandshakeInv
      <4>2. forwarder[t] = "none" /\ t \in Nat /\ t > started
        BY <4>1, Constants, ServerFacts
      <4>. QED BY <3>2, <4>1, <4>2
           DEF Forwarder, Engine, Receive, ReceiveClosed, Unregister, MarshalFails, LockToWrite,
               WriteData, WriteComplete, Produce, CloseSource
    <3>. QED BY <1>2, <3>1, <3>2 DEF ServerNext
  <2>3. CASE UNCHANGED toClient
    BY <2>1, <2>2, <2>3 DEF HandshakeInv
  <2>4. ASSUME Handshake, NEW m \in ToClient, toClient' = Append(toClient, m)
        PROVE  HandshakeInv'
    <3>1. toClient = <<>> /\ reader = "off" /\ loop' # "handshake" /\ started = 0
      BY <2>4 DEF Handshake, HandshakeInv
    <3>2. Len(toClient') = 1
      BY <2>4, <3>1
    <3>. QED BY <2>1, <3>1, <3>2 DEF HandshakeInv
  <2>5. ASSUME NEW m \in ToClient, m.stream # 0, toClient' = Append(toClient, m)
        PROVE  HandshakeInv'
    <3>1. /\ Len(toClient') = Len(toClient) + 1 /\ Len(toClient) \in Nat
          /\ toClient'[Len(toClient) + 1] = m
          /\ \A p \in 1..Len(toClient) : toClient'[p] = toClient[p]
      BY <2>1, <2>5, AppendElements
    <3>2. ASSUME NEW p \in 1..Len(toClient'), toClient'[p].stream = 0
          PROVE  p = 1 /\ reader' = "off"
      <4>1. p \in 1..Len(toClient)
        BY <2>5, <3>1, <3>2
      <4>. QED BY <2>1, <3>1, <3>2, <4>1 DEF HandshakeInv
    <3>3. loop' # "handshake"
      BY <2>2, <3>1
    <3>. QED BY <3>2, <3>3 DEF HandshakeInv
  <2>. QED BY <1>2, <2>3, <2>4, <2>5, ServerWrites, Constants
<1>3. ASSUME toClient # <<>>, toClient' = Tail(toClient), UNCHANGED <<loop, started>>
      PROVE  HandshakeInv'
  <2>1. /\ Len(toClient') = Len(toClient) - 1 /\ Len(toClient) \in Nat
        /\ \A p \in 1..Len(toClient') : toClient'[p] = toClient[p + 1] /\ p + 1 \in 1..Len(toClient)
    BY <1>3, TailElements DEF TypeOK, NetworkTypeOK
  <2>2. \A p \in 1..Len(toClient') : toClient'[p].stream # 0
    BY <2>1 DEF HandshakeInv
  <2>. QED BY <1>3, <2>2 DEF HandshakeInv
<1>4. ClientNext /\ UNCHANGED serverVars =>
        \/ UNCHANGED <<loop, started, toClient>> /\ (reader = "off" <=> reader' = "off")
        \/ toClient # <<>> /\ toClient' = Tail(toClient) /\ UNCHANGED <<loop, started>>
  BY DEF ClientNext, Call, Dial, ReadAck, GiveUp, RegisterConnection, UseConnection,
         DialAnother, HandOver, Crash, ReadResponse, Service, OpenOperation, OpenFails,
         TakeMessage, Deliver, TakeError, FailOperation, FailedAll, ReadSide, ReadMessage,
         ReadError, CloseCommands, UnregisterConnection, serverVars
<1>5. CASE UNCHANGED <<loop, started, toClient>> /\ (reader = "off" <=> reader' = "off")
  BY <1>5 DEF HandshakeInv
<1>6. Disconnect /\ UNCHANGED <<clientVars, serverVars>> =>
        UNCHANGED <<loop, started, toClient, reader>>
  BY ServerLeaves DEF Disconnect, serverVars
<1>7. UNCHANGED vars => UNCHANGED <<loop, started, toClient, reader>>
  BY ServerLeaves DEF vars, serverVars
<1>. QED BY <1>1, <1>2, <1>3, <1>4, <1>5, <1>6, <1>7 DEF Next

-----------------------------------------------------------------------------
(* The steps of the client, in terms of the responses of the callers.      *)

\* An error is sent to the channel of c.
LEMMA FailChannelSteps ==
  ASSUME TypeOK, NEW c \in Caller, FailChannel(c), UNCHANGED received
  PROVE  /\ chan[c] = <<>>
         /\ chan' = [chan EXCEPT ![c] = <<Failure>>]
         /\ chanClosed' = [chanClosed EXCEPT ![c] = TRUE]
         /\ Responses(c)' = Append(Responses(c), Failure)
         /\ \A d \in Caller : d # c => Responses(d)' = Responses(d)
<1>1. chan' = [chan EXCEPT ![c] = Append(chan[c], Failure)]
  BY DEF FailChannel
<1>2. chan \in [Caller -> Seq(Item)] /\ received \in [Caller -> Seq(Item)] /\ Failure \in Item
  BY MessagesTyped DEF TypeOK, ClientTypeOK
<1>3. chan[c] \in Seq(Item) /\ received[c] \in Seq(Item) /\ chan[c] = <<>>
  <2>1. chan[c] \in Seq(Item) /\ received[c] \in Seq(Item)
    BY <1>2
  <2>2. Len(chan[c]) < 1
    BY DEF FailChannel
  <2>. QED BY <2>1, <2>2
<1>4. chan'[c] = Append(chan[c], Failure) /\ \A d \in Caller : d # c => chan'[d] = chan[d]
  BY <1>1, <1>2
<1>5. received[c] \o Append(chan[c], Failure) = Append(received[c] \o chan[c], Failure)
  BY <1>2, <1>3, SendingAppends
<1>6. Append(chan[c], Failure) = <<Failure>>
  BY <1>3
<1>. QED BY <1>1, <1>3, <1>4, <1>5, <1>6 DEF Responses, FailChannel

\* A response is sent to the channel of its operation.
LEMMA DeliverSteps ==
  ASSUME TypeOK, ServiceInv, Deliver
  PROVE  \E w \in Caller :
           /\ w = working /\ service = "delivering" /\ item \in Item
           /\ Responses(w)' = Append(Responses(w), item)
           /\ \A d \in Caller : d # w => Responses(d)' = Responses(d) /\ chan'[d] = chan[d]
           /\ service' = "select" /\ working' = None
           /\ UNCHANGED <<network, caller, reader, handed, commandsClosed, nextStreamId,
                          operations, operationId, chanClosed, received>>
<1>1. service = "delivering" /\ item \in Item
  BY DEF Deliver, TypeOK, ClientTypeOK
<1>2. PICK w \in Caller : w = working
  BY <1>1 DEF ServiceInv, TypeOK, ClientTypeOK
<1>3. chan \in [Caller -> Seq(Item)] /\ received \in [Caller -> Seq(Item)]
  BY DEF TypeOK, ClientTypeOK
<1>4. chan' = [chan EXCEPT ![w] = Append(chan[w], item)]
  BY <1>2 DEF Deliver
<1>5. chan'[w] = Append(chan[w], item) /\ \A d \in Caller : d # w => chan'[d] = chan[d]
  BY <1>3, <1>4
<1>6. received[w] \o Append(chan[w], item) = Append(received[w] \o chan[w], item)
  <2>1. received[w] \in Seq(Item) /\ chan[w] \in Seq(Item)
    BY <1>3
  <2>. QED BY <1>1, <2>1, SendingAppends
<1>7. /\ service' = "select" /\ working' = None
      /\ UNCHANGED <<network, caller, reader, handed, commandsClosed, nextStreamId,
                     operations, operationId, chanClosed, received>>
  BY DEF Deliver, table
<1>. QED BY <1>1, <1>2, <1>5, <1>6, <1>7 DEF Responses

\* A caller reads its channel.
LEMMA ReadResponseSteps ==
  ASSUME TypeOK, NEW c \in Caller, ReadResponse(c)
  PROVE  /\ \A d \in Caller : Responses(d)' = Responses(d)
         /\ chan[c] # <<>> /\ caller[c] = "served"
         /\ \A d \in Caller : d # c => chan'[d] = chan[d] /\ received'[d] = received[d]
         /\ UNCHANGED <<network, dialing, caller, service, working, item, reader, handed,
                        commandsClosed, nextStreamId, operations, operationId, chanClosed>>
<1>1. chan \in [Caller -> Seq(Item)] /\ received \in [Caller -> Seq(Item)]
  BY DEF TypeOK, ClientTypeOK
<1>2. /\ chan' = [chan EXCEPT ![c] = Tail(chan[c])]
      /\ received' = [received EXCEPT ![c] = Append(received[c], Head(chan[c]))]
      /\ chan[c] # <<>> /\ caller[c] = "served"
  BY DEF ReadResponse
<1>3. received'[c] \o chan'[c] = received[c] \o chan[c]
  <2>1. chan[c] \in Seq(Item) /\ received[c] \in Seq(Item)
    BY <1>1
  <2>2. Append(received[c], Head(chan[c])) \o Tail(chan[c]) = received[c] \o chan[c]
    BY <1>2, <2>1, ReadingKeeps
  <2>. QED BY <1>1, <1>2, <2>2
<1>4. \A d \in Caller : d # c => chan'[d] = chan[d] /\ received'[d] = received[d]
  BY <1>1, <1>2
<1>5. UNCHANGED <<network, dialing, caller, service, working, item, reader, handed,
                  commandsClosed, nextStreamId, operations, operationId, chanClosed>>
  BY DEF ReadResponse, handover, table
<1>. QED BY <1>2, <1>3, <1>4, <1>5 DEF Responses

\* An operation is opened.
LEMMA OpenSteps ==
  ASSUME TypeOK, IdInv, ServiceInv, OpenOperation
  PROVE  \E w \in Caller, n \in Id :
           /\ w = working /\ n = nextStreamId /\ nextStreamId' = n + 1
           /\ caller[w] = "served" /\ Untouched(w)
           /\ \A c \in Caller : operationId[c] # n
           /\ service = "opening" /\ service' = "select" /\ working' = None
           /\ operations' = [operations EXCEPT ![n] = w]
           /\ operationId' = [operationId EXCEPT ![w] = n]
           /\ toServer' = Append(toServer, [type |-> "start", id |-> n])
           /\ UNCHANGED <<connected, toClient, dialed, registered, caller, item, reader,
                          handed, commandsClosed, chan, chanClosed, received>>
<1>1. PICK w \in Caller, n \in Id :
        /\ w = working /\ n = nextStreamId /\ caller[w] = "served" /\ Untouched(w)
        /\ \A c \in Caller : operationId[c] # n
  BY OpeningFacts DEF OpenOperation
<1>. QED BY <1>1 DEF OpenOperation, Written, dialing, channels

\* An operation is not opened.
LEMMA OpenFailsSteps ==
  ASSUME TypeOK, IdInv, ServiceInv, OpenFails
  PROVE  \E w \in Caller :
           /\ w = working /\ caller[w] = "served" /\ Untouched(w)
           /\ service = "opening" /\ service' = "select" /\ working' = None
           /\ nextStreamId' \in {nextStreamId, nextStreamId + 1}
           /\ chan' = [chan EXCEPT ![w] = <<Failure>>]
           /\ chanClosed' = [chanClosed EXCEPT ![w] = TRUE]
           /\ Responses(w)' = <<Failure>>
           /\ \A d \in Caller : d # w => Responses(d)' = Responses(d)
           /\ UNCHANGED <<network, dialed, registered, caller, item, reader, handed,
                          commandsClosed, operations, operationId, received>>
<1>1. PICK w \in Caller : w = working /\ caller[w] = "served" /\ Untouched(w)
  BY OpeningFacts DEF OpenFails
<1>2. FailChannel(w) /\ UNCHANGED received
  BY <1>1 DEF OpenFails
<1>3. /\ chan' = [chan EXCEPT ![w] = <<Failure>>]
      /\ chanClosed' = [chanClosed EXCEPT ![w] = TRUE]
      /\ Responses(w)' = Append(Responses(w), Failure)
      /\ \A d \in Caller : d # w => Responses(d)' = Responses(d)
  BY <1>2, FailChannelSteps
<1>4. Responses(w) = <<>>
  BY <1>1 DEF Untouched, Responses
<1>5. Responses(w)' = <<Failure>>
  BY <1>3, <1>4
<1>6. nextStreamId' \in {nextStreamId, nextStreamId + 1}
  BY DEF OpenFails
<1>7. /\ service = "opening" /\ service' = "select" /\ working' = None
      /\ UNCHANGED <<network, dialed, registered, caller, item, reader, handed,
                     commandsClosed, operations, operationId, received>>
  BY DEF OpenFails, dialing
<1>. QED BY <1>1, <1>3, <1>5, <1>6, <1>7

\* A message is taken: it is for an operation of the table.
LEMMA TakeSteps ==
  ASSUME TypeOK, AnyClient!ServerInv, DialInv, KnownInv, HandedInv, TakeMessage
  PROVE  \E s \in Stream, c \in Caller :
           /\ s <= started /\ idOf[s] \in Id /\ operations[idOf[s]] = c
           /\ handed # None /\ handed.stream = s /\ handed.id = idOf[s]
           /\ service = "select" /\ reader = "handing" /\ reader' = "reading" /\ handed' = None
           /\ UNCHANGED <<network, dialed, registered, caller, commandsClosed, nextStreamId,
                          operationId, chan, received>>
           /\ \/ /\ handed.type = "data"
                 /\ service' = "delivering" /\ working' = c
                 /\ item' = [stream |-> s, number |-> handed.number]
                 /\ UNCHANGED <<operations, chanClosed>>
              \/ /\ handed.type = "complete" /\ UNCHANGED <<service, working, item>>
                 /\ operations' = [operations EXCEPT ![idOf[s]] = None]
                 /\ chanClosed' = [chanClosed EXCEPT ![c] = TRUE]
<1>1. service = "select" /\ reader = "handing" /\ reader' = "reading" /\ handed' = None
  BY DEF TakeMessage
<1>2. handed # None /\ handed \in ToClient
  BY <1>1 DEF DialInv, TypeOK, ClientTypeOK
<1>3. PICK s \in Stream : s = handed.stream /\ s <= started /\ handed.id = idOf[s]
  BY <1>2 DEF HandedInv
<1>4. idOf[s] \in Id
  BY <1>3, ServerFacts
<1>5. operations[idOf[s]] # None
  BY <1>1, <1>2, <1>3 DEF KnownInv, HandedOf, Ending
<1>6. PICK c \in Caller : c = operations[idOf[s]]
  BY <1>4, <1>5 DEF TypeOK, ClientTypeOK
<1>7. handed.type \in {"data", "complete"}
  BY <1>2, <1>3, MessagesTyped, Constants
<1>8. \/ /\ handed.type = "data"
         /\ service' = "delivering" /\ working' = c
         /\ item' = Data(handed)
         /\ UNCHANGED <<operations, chanClosed>>
      \/ /\ handed.type = "complete" /\ UNCHANGED <<service, working, item>>
         /\ operations' = [operations EXCEPT ![idOf[s]] = None]
         /\ chanClosed' = [chanClosed EXCEPT ![c] = TRUE]
  BY <1>3, <1>5, <1>6, <1>7 DEF TakeMessage
<1>9. UNCHANGED <<network, dialed, registered, caller, commandsClosed, nextStreamId,
                  operationId, chan, received>>
  BY DEF TakeMessage, dialing
<1>. QED BY <1>1, <1>2, <1>3, <1>4, <1>6, <1>8, <1>9 DEF Data

\* An operation of the table fails.
LEMMA FailSteps ==
  ASSUME TypeOK, ServerKnowsTheClientsIds, NEW i \in Id, FailOperation(i)
  PROVE  \E c \in Caller :
           /\ operations[i] = c /\ operations' = [operations EXCEPT ![i] = None]
           /\ service = "ending"
           /\ chan[c] = <<>> /\ chan' = [chan EXCEPT ![c] = <<Failure>>]
           /\ chanClosed' = [chanClosed EXCEPT ![c] = TRUE]
           /\ Responses(c)' = Append(Responses(c), Failure)
           /\ \A d \in Caller : d # c => Responses(d)' = Responses(d)
           /\ UNCHANGED <<network, dialed, registered, caller, service, working, item, reader,
                          handed, commandsClosed, nextStreamId, operationId, received>>
<1>1. PICK c \in Caller : c = operations[i]
  BY DEF FailOperation, TypeOK, ClientTypeOK
<1>2. FailChannel(c) /\ UNCHANGED received
  BY <1>1 DEF FailOperation
<1>3. /\ chan[c] = <<>> /\ chan' = [chan EXCEPT ![c] = <<Failure>>]
      /\ chanClosed' = [chanClosed EXCEPT ![c] = TRUE]
      /\ Responses(c)' = Append(Responses(c), Failure)
      /\ \A d \in Caller : d # c => Responses(d)' = Responses(d)
  BY <1>2, FailChannelSteps
<1>4. service = "ending"
  BY DEF FailOperation, ServerKnowsTheClientsIds
<1>. QED BY <1>1, <1>3, <1>4 DEF FailOperation, dialing, handover

\* A step that leaves the operations and their responses alone.
Quiet ==
  /\ UNCHANGED <<working, item, nextStreamId, operations, operationId, chan, chanClosed,
                 received>>
  /\ Served' = Served
  /\ service \in {"opening", "delivering"} \/ service' \in {"opening", "delivering"} =>
       service' = service
  /\ Ending => Ending'
  /\ service' = "failing" => service = "failing"
  /\ service' = "returned" => service = "returned" \/ operations = [i \in Id |-> None]
  /\ commandsClosed' => commandsClosed \/ reader = "closing"
  /\ UNCHANGED handed \/ ReadMessage

LEMMA StepKinds ==
  ASSUME TypeOK, DialInv, [Next]_vars
  PROVE  \/ \E c \in Caller : HandOver(c) /\ UNCHANGED serverVars
         \/ OpenOperation /\ UNCHANGED serverVars
         \/ OpenFails /\ UNCHANGED serverVars
         \/ TakeMessage /\ UNCHANGED serverVars
         \/ Deliver /\ UNCHANGED serverVars
         \/ \E i \in Id : FailOperation(i) /\ UNCHANGED serverVars
         \/ \E c \in Caller : ReadResponse(c) /\ UNCHANGED serverVars
         \/ Quiet
<1>. USE DEF dialing, handover, table, channels
<1>1. UNCHANGED clientVars => Quiet
  BY ServerLeaves DEF Quiet, Served, Ending
<1>2. ASSUME NEW c \in Caller, Call(c), ~HandOver(c) PROVE Quiet
  <2>1. Served' = Served
    <3>1. \A d \in Caller : caller'[d] = "served" <=> caller[d] = "served"
      BY <1>2 DEF Call, Dial, ReadAck, GiveUp, RegisterConnection, UseConnection, DialAnother,
                  Crash, Goes, TypeOK, ClientTypeOK
    <3>. QED BY <3>1 DEF Served
  <2>2. UNCHANGED service \/ (service = "off" /\ service' = "select")
    <3>1. ReadAck(c) => service = "off"
      BY DEF ReadAck, Goes, DialInv
    <3>. QED BY <1>2, <3>1 DEF Call, Dial, ReadAck, GiveUp, RegisterConnection, UseConnection,
                DialAnother, Crash
  <2>3. UNCHANGED <<working, item, nextStreamId, operations, operationId, chan, chanClosed,
                    received, commandsClosed, handed>>
    BY <1>2 DEF Call, Dial, ReadAck, GiveUp, RegisterConnection, UseConnection, DialAnother,
                Crash
  <2>. QED BY <2>1, <2>2, <2>3 DEF Quiet, Ending
<1>3. CASE TakeError \/ FailedAll \/ ReadSide
  <2>1. UNCHANGED <<caller, working, item, nextStreamId, operations, operationId, chan,
                    chanClosed, received>>
    BY <1>3 DEF TakeError, FailedAll, ReadSide, ReadMessage, ReadError, CloseCommands,
                UnregisterConnection
  <2>2. \/ UNCHANGED service
        \/ service = "select" /\ service' = "ending"
        \/ service = "failing" /\ service' = "select"
        \/ service = "ending" /\ service' = "returned" /\ operations = [i \in Id |-> None]
    BY <1>3 DEF TakeError, FailedAll, ReadSide, ReadMessage, ReadError, CloseCommands,
                UnregisterConnection
  <2>3. /\ commandsClosed' => commandsClosed \/ reader = "closing"
        /\ UNCHANGED handed \/ ReadMessage
    BY <1>3 DEF TakeError, FailedAll, ReadSide, ReadMessage, ReadError, CloseCommands,
                UnregisterConnection
  <2>. QED BY <2>1, <2>2, <2>3 DEF Quiet, Served, Ending
<1>4. UNCHANGED vars => UNCHANGED clientVars
  BY DEF vars
<1>. QED BY <1>1, <1>2, <1>3, <1>4 DEF Next, ClientNext, Call, Service

-----------------------------------------------------------------------------
(* The table and the ids.                                                  *)

LEMMA TableStep ==
  ASSUME TypeOK, AnyClient!ServerInv, DialInv, TableInv, IdInv, ServiceInv,
         ServerKnowsTheClientsIds, KnownInv, HandedInv, [Next]_vars
  PROVE  TableInv'
<1>. USE DEF TypeOK, ClientTypeOK
<1>1. CASE UNCHANGED <<operations, operationId, chanClosed>>
  BY <1>1 DEF TableInv
<1>2. CASE OpenOperation
  <2>1. PICK w \in Caller, n \in Id :
          /\ Untouched(w)
          /\ operations' = [operations EXCEPT ![n] = w]
          /\ operationId' = [operationId EXCEPT ![w] = n]
          /\ UNCHANGED chanClosed
    BY <1>2, OpenSteps
  <2>2. \A i \in Id : operations[i] # None => operations[i] # w
    BY <2>1, Constants DEF TableInv, Untouched
  <2>3. ASSUME NEW i \in Id, operations'[i] # None
        PROVE  operationId'[operations'[i]] = i /\ ~chanClosed'[operations'[i]]
    <3>1. CASE i = n
      BY <2>1, <3>1 DEF Untouched
    <3>2. CASE i # n
      <4>1. operations'[i] = operations[i] /\ operations[i] \in Caller /\ operations[i] # w
        BY <2>1, <2>2, <2>3, <3>2
      <4>. QED BY <2>1, <2>3, <4>1 DEF TableInv
    <3>. QED BY <3>1, <3>2
  <2>. QED BY <2>3 DEF TableInv
<1>3. CASE OpenFails
  <2>1. PICK w \in Caller : /\ Untouched(w) /\ chanClosed' = [chanClosed EXCEPT ![w] = TRUE]
                            /\ UNCHANGED <<operations, operationId>>
    BY <1>3, OpenFailsSteps
  <2>2. \A i \in Id : operations[i] # None => operations[i] # w
    BY <2>1, Constants DEF TableInv, Untouched
  <2>. QED BY <2>1, <2>2 DEF TableInv
<1>4. ASSUME NEW i \in Id, NEW c \in Caller, operations[i] = c,
             operations' = [operations EXCEPT ![i] = None],
             chanClosed' = [chanClosed EXCEPT ![c] = TRUE],
             UNCHANGED operationId
      PROVE  TableInv'
  <2>1. operationId[c] = i
    BY <1>4, Constants DEF TableInv
  <2>2. ASSUME NEW j \in Id, operations'[j] # None
        PROVE  operationId'[operations'[j]] = j /\ ~chanClosed'[operations'[j]]
    <3>1. j # i /\ operations'[j] = operations[j]
      BY <1>4, <2>2
    <3>2. operationId[operations[j]] = j /\ ~chanClosed[operations[j]] /\ operations[j] \in Caller
      BY <2>2, <3>1 DEF TableInv
    <3>. QED BY <1>4, <2>1, <3>1, <3>2
  <2>. QED BY <2>2 DEF TableInv
<1>5. CASE TakeMessage
  <2>1. PICK s \in Stream, c \in Caller :
          /\ idOf[s] \in Id /\ operations[idOf[s]] = c /\ UNCHANGED operationId
          /\ \/ UNCHANGED <<operations, chanClosed>>
             \/ /\ operations' = [operations EXCEPT ![idOf[s]] = None]
                /\ chanClosed' = [chanClosed EXCEPT ![c] = TRUE]
    BY <1>5, TakeSteps
  <2>. QED BY <1>1, <1>4, <2>1
<1>6. ASSUME NEW i \in Id, FailOperation(i) PROVE TableInv'
  BY <1>4, <1>6, FailSteps
<1>7. Deliver => UNCHANGED <<operations, operationId, chanClosed>>
  BY DEF Deliver, table
<1>8. ASSUME NEW c \in Caller, HandOver(c) \/ ReadResponse(c)
      PROVE  UNCHANGED <<operations, operationId, chanClosed>>
  BY <1>8 DEF HandOver, ReadResponse, table, channels
<1>9. Quiet => UNCHANGED <<operations, operationId, chanClosed>>
  BY DEF Quiet
<1>. QED BY <1>1, <1>2, <1>3, <1>5, <1>6, <1>7, <1>8, <1>9, StepKinds

\* An operation of the table is of a caller that has handed over.
LEMMA TableServed ==
  ASSUME TypeOK, TableInv, IdInv, NEW i \in Id, operations[i] # None
  PROVE  /\ operations[i] \in Caller /\ operations[i] \in Served
         /\ operationId[operations[i]] = i /\ ~chanClosed[operations[i]]
<1>1. operations[i] \in Caller
  BY DEF TypeOK, ClientTypeOK
<1>2. operationId[operations[i]] = i /\ ~chanClosed[operations[i]] /\ i # NoId
  BY Constants DEF TableInv
<1>3. ~Untouched(operations[i])
  BY <1>2 DEF Untouched
<1>. QED BY <1>1, <1>2, <1>3 DEF IdInv

LEMMA IdStep ==
  ASSUME TypeOK, AnyClient!ServerInv, DialInv, TableInv, IdInv, ServiceInv,
         ServerKnowsTheClientsIds, KnownInv, HandedInv, [Next]_vars
  PROVE  IdInv'
<1>. USE DEF TypeOK, ClientTypeOK
<1>. DEFINE Held == IF service = "opening" THEN {working} ELSE {}
<1>0. IsFiniteSet(Served) /\ Served \subseteq Caller /\ Cardinality(Served) \in Nat
  BY Constants, FS_Subset, FS_CardinalityType DEF Served
<1>1. ASSUME UNCHANGED <<nextStreamId, operationId>>, Served' \ Held' = Served \ Held,
             \A c \in Caller \ Served' : Untouched(c)'
      PROVE  IdInv'
  BY <1>1 DEF IdInv
<1>2. ASSUME NEW c \in Caller, HandOver(c) PROVE IdInv'
  <2>1. Served' = Served \cup {c} /\ c \notin Served
    BY <1>2 DEF HandOver, Goes, Served
  <2>2. Served' \ Held' = Served \ Held
    BY <1>2, <2>1 DEF HandOver
  <2>3. UNCHANGED <<nextStreamId, operationId, chan, received, chanClosed>>
    BY <1>2 DEF HandOver, table, channels
  <2>4. \A d \in Caller \ Served' : Untouched(d)'
    BY <2>1, <2>3 DEF IdInv, Untouched
  <2>. QED BY <1>1, <2>2, <2>3, <2>4
<1>3. CASE OpenOperation
  <2>1. PICK w \in Caller, n \in Id :
          /\ n = nextStreamId /\ nextStreamId' = n + 1 /\ caller[w] = "served"
          /\ \A c \in Caller : operationId[c] # n
          /\ operationId' = [operationId EXCEPT ![w] = n]
          /\ service' = "select"
          /\ UNCHANGED <<caller, chan, chanClosed, received>>
    BY <1>3, OpenSteps
  <2>2. nextStreamId + 1 <= Cardinality(Served)
    BY <1>3, OpeningFacts DEF OpenOperation
  <2>3. Served' = Served /\ Served' \ Held' = Served /\ w \in Served
    BY <2>1 DEF Served
  <2>4. nextStreamId' <= Cardinality(Served' \ Held')
    BY <2>1, <2>2, <2>3
  <2>5. ASSUME NEW c \in Caller, NEW d \in Caller, operationId'[c] # NoId
        PROVE  /\ operationId'[c] < nextStreamId'
               /\ operationId'[d] = operationId'[c] => d = c
    <3>1. n \in Nat /\ \A e \in Caller : operationId[e] # NoId =>
            operationId[e] < n /\ operationId[e] \in Nat
      BY <2>1, Constants DEF IdInv
    <3>2. CASE c = w
      BY <2>1, <3>1, <3>2
    <3>3. CASE c # w /\ d = w
      BY <2>1, <2>5, <3>1, <3>3
    <3>4. CASE c # w /\ d # w
      <4>1. operationId'[c] = operationId[c] /\ operationId'[d] = operationId[d]
        BY <2>1, <3>4
      <4>. QED BY <2>1, <2>5, <3>1, <4>1 DEF IdInv
    <3>. QED BY <3>2, <3>3, <3>4
  <2>6. ASSUME NEW c \in Caller \ Served' PROVE Untouched(c)'
    <3>1. c # w /\ Untouched(c)
      BY <2>3, <2>6 DEF IdInv
    <3>. QED BY <2>1, <3>1 DEF Untouched
  <2>. QED BY <2>4, <2>5, <2>6 DEF IdInv
<1>4. CASE OpenFails
  <2>1. PICK w \in Caller :
          /\ caller[w] = "served" /\ service' = "select"
          /\ nextStreamId' \in {nextStreamId, nextStreamId + 1}
          /\ chan' = [chan EXCEPT ![w] = <<Failure>>]
          /\ chanClosed' = [chanClosed EXCEPT ![w] = TRUE]
          /\ UNCHANGED <<caller, operationId, received>>
    BY <1>4, OpenFailsSteps
  <2>2. nextStreamId + 1 <= Cardinality(Served)
    BY <1>4, OpeningFacts DEF OpenFails
  <2>3. Served' = Served /\ Served' \ Held' = Served /\ w \in Served
    BY <2>1 DEF Served
  <2>4. nextStreamId' <= Cardinality(Served' \ Held')
    BY <1>0, <2>1, <2>2, <2>3
  <2>5. \A c, d \in Caller : operationId[c] # NoId =>
          /\ operationId[c] < nextStreamId'
          /\ operationId[d] = operationId[c] => d = c
    BY <2>1, Constants DEF IdInv
  <2>6. ASSUME NEW c \in Caller \ Served' PROVE Untouched(c)'
    <3>1. c # w /\ Untouched(c)
      BY <2>3, <2>6 DEF IdInv
    <3>. QED BY <2>1, <3>1 DEF Untouched
  <2>. QED BY <2>1, <2>4, <2>5, <2>6 DEF IdInv
<1>5. CASE TakeMessage
  <2>1. PICK s \in Stream, c \in Caller :
          /\ idOf[s] \in Id /\ operations[idOf[s]] = c
          /\ UNCHANGED <<caller, nextStreamId, operationId, chan, received>>
          /\ service = "select" /\ service' # "opening"
          /\ chanClosed' = chanClosed \/ chanClosed' = [chanClosed EXCEPT ![c] = TRUE]
    BY <1>5, TakeSteps
  <2>2. Served' \ Held' = Served \ Held /\ Served' = Served
    BY <2>1 DEF Served
  <2>3. c \in Served
    BY <2>1, TableServed, Constants
  <2>4. ASSUME NEW d \in Caller \ Served' PROVE Untouched(d)'
    <3>1. d # c /\ Untouched(d)
      BY <2>2, <2>3, <2>4 DEF IdInv
    <3>. QED BY <2>1, <3>1 DEF Untouched
  <2>. QED BY <1>1, <2>1, <2>2, <2>4
<1>6. ASSUME NEW i \in Id, FailOperation(i) PROVE IdInv'
  <2>1. PICK c \in Caller :
          /\ operations[i] = c /\ service = "ending"
          /\ chan' = [chan EXCEPT ![c] = <<Failure>>]
          /\ chanClosed' = [chanClosed EXCEPT ![c] = TRUE]
          /\ UNCHANGED <<caller, service, nextStreamId, operationId, received>>
    BY <1>6, FailSteps
  <2>2. Served' \ Held' = Served \ Held /\ Served' = Served
    BY <2>1 DEF Served
  <2>3. c \in Served
    BY <2>1, TableServed, Constants
  <2>4. ASSUME NEW d \in Caller \ Served' PROVE Untouched(d)'
    <3>1. d # c /\ Untouched(d)
      BY <2>2, <2>3, <2>4 DEF IdInv
    <3>. QED BY <2>1, <3>1 DEF Untouched
  <2>. QED BY <1>1, <2>1, <2>2, <2>4
<1>7. CASE Deliver
  <2>1. PICK w \in Caller :
          /\ w = working /\ service = "delivering" /\ service' = "select"
          /\ \A d \in Caller : d # w => chan'[d] = chan[d]
          /\ UNCHANGED <<caller, nextStreamId, operationId, chanClosed, received>>
    BY <1>7, DeliverSteps
  <2>2. Served' \ Held' = Served \ Held /\ Served' = Served
    BY <2>1 DEF Served
  <2>3. w \in Served
    <3>1. PICK s \in Stream : s <= started /\ operations[idOf[s]] = w
      BY <2>1 DEF ServiceInv
    <3>2. idOf[s] \in Id
      BY <3>1, ServerFacts
    <3>. QED BY <3>1, <3>2, TableServed, Constants
  <2>4. ASSUME NEW d \in Caller \ Served' PROVE Untouched(d)'
    <3>1. d # w /\ Untouched(d)
      BY <2>2, <2>3, <2>4 DEF IdInv
    <3>. QED BY <2>1, <3>1 DEF Untouched
  <2>. QED BY <1>1, <2>1, <2>2, <2>4
<1>8. ASSUME NEW c \in Caller, ReadResponse(c) PROVE IdInv'
  <2>1. /\ caller[c] = "served"
        /\ \A d \in Caller : d # c => chan'[d] = chan[d] /\ received'[d] = received[d]
        /\ UNCHANGED <<caller, service, working, nextStreamId, operationId, chanClosed>>
    BY <1>8, ReadResponseSteps
  <2>2. Served' \ Held' = Served \ Held /\ Served' = Served /\ c \in Served
    BY <2>1 DEF Served
  <2>3. ASSUME NEW d \in Caller \ Served' PROVE Untouched(d)'
    <3>1. d # c /\ Untouched(d)
      BY <2>2, <2>3 DEF IdInv
    <3>. QED BY <2>1, <3>1 DEF Untouched
  <2>. QED BY <1>1, <2>1, <2>2, <2>3
<1>9. CASE Quiet
  <2>1. Served' \ Held' = Served \ Held /\ Served' = Served
    BY <1>9 DEF Quiet
  <2>2. \A d \in Caller \ Served' : Untouched(d)'
    BY <1>9, <2>1 DEF Quiet, IdInv, Untouched
  <2>. QED BY <1>1, <1>9, <2>1, <2>2 DEF Quiet
<1>. QED BY <1>2, <1>3, <1>4, <1>5, <1>6, <1>7, <1>8, <1>9, StepKinds

-----------------------------------------------------------------------------
(* What the service goroutine holds.                                       *)

\* What was started stays so, under its id, and what is done stays done.
LEMMA StreamsKept ==
  ASSUME TypeOK, AnyClient!ServerInv, [Next]_vars
  PROVE  /\ started \in Nat /\ started' \in Nat /\ started <= started'
         /\ \A s \in Stream : s <= started => s <= started' /\ idOf'[s] = idOf[s]
         /\ \A s \in Stream : forwarder[s] = "done" =>
              /\ forwarder'[s] = "done"
              /\ produced'[s] = produced[s] /\ written'[s] = written[s]
<1>1. started \in Nat
  BY ServerFacts
<1>2. CASE UNCHANGED <<started, idOf, forwarder, produced, written>>
  BY <1>1, <1>2
<1>3. CASE ServerNext
  BY <1>1, <1>3, ServerStarts, Constants
<1>4. UNCHANGED serverVars => UNCHANGED <<started, idOf, forwarder, produced, written>>
  BY DEF serverVars, sources
<1>5. UNCHANGED vars => UNCHANGED serverVars
  BY DEF vars
<1>. QED BY <1>2, <1>3, <1>4, <1>5 DEF Next

LEMMA ServiceStep ==
  ASSUME TypeOK, AnyClient!ServerInv, DialInv, TableInv, IdInv, ServiceInv,
         ServerKnowsTheClientsIds, KnownInv, HandedInv, FlowInv, [Next]_vars
  PROVE  ServiceInv'
<1>0. \A s \in Stream : s <= started => s <= started' /\ idOf'[s] = idOf[s]
  BY StreamsKept
<1>1. ASSUME service' = "select", working' = None, UNCHANGED commandsClosed,
             service \in {"opening", "delivering"}
      PROVE  ServiceInv'
  BY <1>1 DEF ServiceInv, Ending
<1>2. ASSUME NEW c \in Caller, HandOver(c) PROVE ServiceInv'
  <2>1. /\ service' = "opening" /\ working' = c /\ ~commandsClosed'
        /\ caller[c] # "served" /\ caller'[c] = "served"
        /\ UNCHANGED <<operationId, chan, chanClosed, received>>
    BY <1>2 DEF HandOver, Goes, table, channels, TypeOK, ClientTypeOK
  <2>2. c \in Served' /\ Untouched(c)
    BY <2>1 DEF IdInv, Served
  <2>3. Untouched(working)'
    BY <2>1, <2>2 DEF Untouched
  <2>. QED BY <2>1, <2>2, <2>3, Constants DEF ServiceInv
<1>3. CASE OpenOperation
  BY <1>1, <1>3, OpenSteps
<1>4. CASE OpenFails
  BY <1>1, <1>4, OpenFailsSteps
<1>5. CASE Deliver
  BY <1>1, <1>5, DeliverSteps
<1>6. CASE TakeMessage
  <2>1. PICK s \in Stream, c \in Caller :
          /\ s <= started /\ operations[idOf[s]] = c
          /\ handed # None /\ handed.stream = s /\ service = "select"
          /\ UNCHANGED <<commandsClosed, chan, received>>
          /\ \/ /\ handed.type = "data"
                /\ service' = "delivering" /\ working' = c
                /\ item' = [stream |-> s, number |-> handed.number]
                /\ UNCHANGED operations
             \/ UNCHANGED <<service, working, item>>
    BY <1>6, TakeSteps
  <2>2. working = None /\ ~commandsClosed
    BY <2>1 DEF ServiceInv, Ending
  <2>3. CASE UNCHANGED <<service, working, item>>
    BY <2>1, <2>2, <2>3 DEF ServiceInv
  <2>4. CASE /\ handed.type = "data"
             /\ service' = "delivering" /\ working' = c
             /\ item' = [stream |-> s, number |-> handed.number]
             /\ UNCHANGED operations
    <3>1. handed.number = Passed(s)
      BY <2>1, <2>4, Constants DEF FlowInv, HandedOf
    <3>2. Passed(s) = Len(Responses(c)) + 1
      BY <2>1, <2>4, ResponsesTyped DEF Passed, HandedOf
    <3>3. Responses(c)' = Responses(c)
      BY <2>1 DEF Responses
    <3>4. Responses(working)' = Responses(c)'
      BY <2>4 DEF Responses
    <3>5. \E t \in Stream :
            /\ t <= started' /\ operations'[idOf'[t]] = working'
            /\ item' = [stream |-> t, number |-> Len(Responses(working)') + 1]
      BY <1>0, <2>1, <2>4, <3>1, <3>2, <3>3, <3>4
    <3>. QED BY <2>1, <2>2, <2>4, <3>5, Constants DEF ServiceInv
  <2>. QED BY <2>1, <2>3, <2>4
<1>7. ASSUME NEW i \in Id, FailOperation(i) PROVE ServiceInv'
  BY <1>7, FailSteps DEF ServiceInv, Ending
<1>8. ASSUME NEW c \in Caller, ReadResponse(c), UNCHANGED serverVars PROVE ServiceInv'
  <2>1. /\ \A d \in Caller : Responses(d)' = Responses(d)
        /\ chan[c] # <<>> /\ caller[c] = "served"
        /\ \A d \in Caller : d # c => chan'[d] = chan[d] /\ received'[d] = received[d]
        /\ UNCHANGED <<caller, service, working, item, commandsClosed,
                       operations, operationId, chanClosed>>
    BY <1>8, ReadResponseSteps
  <2>2. service = "opening" => working' \in Served' /\ Untouched(working)'
    <3>. SUFFICES ASSUME service = "opening" PROVE working' \in Served' /\ Untouched(working)'
      OBVIOUS
    <3>1. PICK w \in Caller : w = working /\ w \in Served /\ Untouched(w)
      BY DEF ServiceInv, Served
    <3>2. w # c
      BY <2>1, <3>1 DEF Untouched
    <3>. QED BY <2>1, <3>1, <3>2 DEF Untouched, Served
  <2>3. ASSUME service = "delivering"
        PROVE  \E t \in Stream :
                 /\ t <= started' /\ operations'[idOf'[t]] = working'
                 /\ item' = [stream |-> t, number |-> Len(Responses(working)') + 1]
    <3>1. PICK w \in Caller : w = working
      BY <2>3 DEF ServiceInv, TypeOK, ClientTypeOK
    <3>2. Responses(working)' = Responses(w)' /\ Responses(working) = Responses(w)
      BY <2>1, <3>1 DEF Responses
    <3>3. PICK t \in Stream :
            /\ t <= started /\ operations[idOf[t]] = working
            /\ item = [stream |-> t, number |-> Len(Responses(working)) + 1]
      BY <2>3 DEF ServiceInv
    <3>. QED BY <1>0, <2>1, <3>1, <3>2, <3>3
  <2>. QED BY <2>1, <2>2, <2>3 DEF ServiceInv, Ending
<1>9. CASE Quiet
  <2>1. /\ UNCHANGED <<working, item, operations, operationId, chan, chanClosed, received>>
        /\ Served' = Served
        /\ service \in {"opening", "delivering"} \/ service' \in {"opening", "delivering"} =>
             service' = service
        /\ Ending => Ending'
        /\ service' = "returned" => service = "returned" \/ operations = [i \in Id |-> None]
        /\ commandsClosed' => commandsClosed \/ reader = "closing"
    BY <1>9 DEF Quiet
  <2>2. Untouched(working)' <=> Untouched(working)
    BY <2>1 DEF Untouched
  <2>3. Responses(working)' = Responses(working)
    BY <2>1 DEF Responses
  <2>4. ASSUME service = "delivering"
        PROVE  \E t \in Stream :
                 /\ t <= started' /\ operations'[idOf'[t]] = working'
                 /\ item' = [stream |-> t, number |-> Len(Responses(working)') + 1]
    <3>1. PICK t \in Stream :
            /\ t <= started /\ operations[idOf[t]] = working
            /\ item = [stream |-> t, number |-> Len(Responses(working)) + 1]
      BY <2>4 DEF ServiceInv
    <3>. QED BY <1>0, <2>1, <2>3, <3>1
  <2>5. commandsClosed' => Ending'
    BY <2>1 DEF ServiceInv, DialInv
  <2>6. service' = "opening" => working' \in Served' /\ Untouched(working)'
    BY <2>1, <2>2 DEF ServiceInv
  <2>7. service' = "delivering" => service = "delivering"
    BY <2>1
  <2>8. service' \in {"opening", "delivering"} <=> working' # None
    BY <2>1 DEF ServiceInv
  <2>9. service' = "returned" => operations' = [i \in Id |-> None]
    BY <2>1 DEF ServiceInv
  <2>. QED BY <2>4, <2>5, <2>6, <2>7, <2>8, <2>9 DEF ServiceInv
<1>. QED BY <1>2, <1>3, <1>4, <1>5, <1>6, <1>7, <1>8, <1>9, StepKinds

LEMMA KnowsStep ==
  ASSUME TypeOK, AnyClient!ServerInv, DialInv, IdInv, ServiceInv, ServerKnowsTheClientsIds,
         KnownInv, HandedInv, [Next]_vars
  PROVE  ServerKnowsTheClientsIds'
<1>1. TakeMessage => service' # "failing"
  BY TakeSteps
<1>2. ASSUME NEW c \in Caller, HandOver(c) \/ ReadResponse(c) PROVE service' # "failing"
  BY <1>2 DEF HandOver, ReadResponse, handover, ServerKnowsTheClientsIds
<1>3. OpenOperation \/ OpenFails \/ Deliver => service' # "failing"
  BY DEF OpenOperation, OpenFails, Deliver
<1>4. ASSUME NEW i \in Id, FailOperation(i) PROVE service' # "failing"
  BY <1>4, FailSteps
<1>5. Quiet => service' # "failing"
  BY DEF Quiet, ServerKnowsTheClientsIds
<1>. QED BY <1>1, <1>2, <1>3, <1>4, <1>5, StepKinds DEF ServerKnowsTheClientsIds

-----------------------------------------------------------------------------
(* Each id is in one place.                                                *)

\* What a step does to the messages to the server.
LEMMA ToServerKinds ==
  ASSUME TypeOK, DialInv, AnyClient!ServerInv, IdInv, ServiceInv, [Next]_vars
  PROVE  \/ UNCHANGED <<toServer, started>>
         \/ toServer # <<>> /\ toServer' = Tail(toServer) /\ UNCHANGED <<started, clientVars>>
         \/ ServerNext /\ UNCHANGED clientVars /\ started' = started + 1 /\ started' \in Stream
            /\ toServer # <<>> /\ toServer' = Tail(toServer)
            /\ Head(toServer).type = "start" /\ Head(toServer).id \in Id
            /\ idOf'[started'] = Head(toServer).id
            /\ UNCHANGED <<toClient, forwarder, written>>
         \/ /\ toServer' = Append(toServer, [type |-> "connection_init", id |-> NoId])
            /\ toServer = <<>> /\ UNCHANGED started
         \/ OpenOperation /\ UNCHANGED serverVars
<1>1. CASE ServerNext /\ UNCHANGED clientVars
  BY <1>1, ServerStarts
<1>2. UNCHANGED serverVars => UNCHANGED started
  BY DEF serverVars
<1>3. ASSUME NEW c \in Caller, Dial(c)
      PROVE  \/ UNCHANGED toServer
             \/ /\ toServer' = Append(toServer, [type |-> "connection_init", id |-> NoId])
                /\ toServer = <<>>
  BY <1>3 DEF Dial, Written, DialInv
<1>4. ClientNext => \/ UNCHANGED toServer \/ OpenOperation
                    \/ \E c \in Caller : Dial(c)
  BY DEF ClientNext, Call, ReadAck, GiveUp, RegisterConnection, UseConnection,
         DialAnother, HandOver, Crash, ReadResponse, Service, OpenFails, TakeMessage, Deliver,
         TakeError, FailOperation, FailedAll, ReadSide, ReadMessage, ReadError, CloseCommands,
         UnregisterConnection, network
<1>5. Disconnect => UNCHANGED toServer
  BY DEF Disconnect
<1>6. UNCHANGED vars => UNCHANGED <<toServer, started>>
  BY DEF vars, network, serverVars
<1>. QED BY <1>1, <1>2, <1>3, <1>4, <1>5, <1>6 DEF Next

\* The part of OnceInv about the messages to the server.
StartsOnce ==
  \A q \in 1..Len(toServer) : toServer[q].type = "start" =>
    /\ \E c \in Caller : operationId[c] = toServer[q].id
    /\ \A s \in Stream : s <= started => idOf[s] # toServer[q].id
    /\ \A r \in 1..Len(toServer) :
         toServer[r].type = "start" /\ toServer[r].id = toServer[q].id => r = q

\* A "start" that is on the way bears an id that the client has given out.
LEMMA StartsTyped ==
  ASSUME TypeOK, OnceInv, NEW q \in 1..Len(toServer), toServer[q].type = "start"
  PROVE  toServer[q].id \in Id
<1>1. PICK c \in Caller : operationId[c] = toServer[q].id
  BY DEF OnceInv
<1>2. toServer[q].id \in Id \cup {NoId}
  BY <1>1 DEF TypeOK, ClientTypeOK
<1>3. toServer[q].id \in Id \cup {BadId}
  BY DEF TypeOK, NetworkTypeOK, ToServer
<1>. QED BY <1>2, <1>3, Constants

LEMMA OnceStep ==
  ASSUME TypeOK, AnyClient!ServerInv, DialInv, TableInv, IdInv, ServiceInv, OnceInv, [Next]_vars
  PROVE  OnceInv'
<1>0. /\ started \in Nat /\ started' \in Nat /\ started <= started'
      /\ \A s \in Stream : s <= started => s <= started' /\ idOf'[s] = idOf[s]
      /\ \A s \in Stream : s \in Nat
  BY StreamsKept, Constants
<1>. DEFINE GivenOut(i) == \E c \in Caller : operationId[c] = i
<1>1. \A i \in Id : GivenOut(i) => \E c \in Caller : operationId'[c] = i
  <2>1. CASE OpenOperation
    <3>1. PICK w \in Caller, n \in Id : /\ Untouched(w)
                                        /\ operationId' = [operationId EXCEPT ![w] = n]
      BY <2>1, OpenSteps
    <3>. QED BY <3>1, Constants DEF Untouched, TypeOK, ClientTypeOK
  <2>2. CASE UNCHANGED operationId
    BY <2>2
  <2>3. ~OpenOperation => UNCHANGED operationId
    BY StepKinds
    DEF HandOver, OpenFails, TakeMessage, Deliver, FailOperation, ReadResponse, Quiet, table
  <2>. QED BY <2>1, <2>2, <2>3
<1>2. \A s \in Stream : s <= started => idOf[s] \in Id /\ GivenOut(idOf[s])
  BY ServerFacts DEF OnceInv
<1>3. \A q \in 1..Len(toServer) : toServer[q].type = "start" => toServer[q].id \in Id
  BY StartsTyped
<1>4. ASSUME started' = started, StartsOnce' PROVE OnceInv'
  <2>1. \A s \in Stream : s <= started => \E c \in Caller : operationId'[c] = idOf'[s]
    BY <1>0, <1>1, <1>2
  <2>2. \A s, t \in Stream : s <= started /\ t <= started /\ idOf'[s] = idOf'[t] => s = t
    BY <1>0 DEF OnceInv
  <2>. QED BY <1>4, <2>1, <2>2 DEF OnceInv, StartsOnce
<1>5. CASE UNCHANGED <<toServer, started>>
  <2>1. StartsOnce'
    BY <1>0, <1>1, <1>3, <1>5 DEF StartsOnce, OnceInv
  <2>. QED BY <1>4, <1>5, <2>1
<1>6. ASSUME toServer # <<>>, toServer' = Tail(toServer)
      PROVE  /\ Len(toServer') = Len(toServer) - 1 /\ Len(toServer) \in Nat \ {0}
             /\ Head(toServer) = toServer[1] /\ 1 \in 1..Len(toServer)
             /\ \A q \in 1..Len(toServer') :
                  /\ toServer'[q] = toServer[q + 1]
                  /\ q + 1 \in 1..Len(toServer) /\ q + 1 # 1 /\ q \in Nat
  BY <1>6, TailElements DEF TypeOK, NetworkTypeOK
<1>7. ASSUME toServer # <<>>, toServer' = Tail(toServer),
             NEW q \in 1..Len(toServer'), toServer'[q].type = "start"
      PROVE  /\ \E c \in Caller : operationId'[c] = toServer'[q].id
             /\ \A s \in Stream : s <= started => idOf'[s] # toServer'[q].id
             /\ \A r \in 1..Len(toServer') :
                  toServer'[r].type = "start" /\ toServer'[r].id = toServer'[q].id => r = q
             /\ toServer[1].type = "start" => toServer'[q].id # toServer[1].id
  <2>1. /\ toServer'[q] = toServer[q + 1] /\ q + 1 \in 1..Len(toServer) /\ q + 1 # 1
        /\ 1 \in 1..Len(toServer)
    BY <1>6, <1>7
  <2>2. /\ GivenOut(toServer[q + 1].id) /\ toServer[q + 1].id \in Id
        /\ \A s \in Stream : s <= started => idOf[s] # toServer[q + 1].id
        /\ \A r \in 1..Len(toServer) :
             toServer[r].type = "start" /\ toServer[r].id = toServer[q + 1].id => r = q + 1
    BY <1>3, <1>7, <2>1 DEF OnceInv
  <2>3. ASSUME NEW r \in 1..Len(toServer'), toServer'[r].type = "start",
               toServer'[r].id = toServer'[q].id
        PROVE  r = q
    <3>1. r + 1 = q + 1
      BY <1>6, <1>7, <2>1, <2>2, <2>3
    <3>. QED BY <1>6, <1>7, <3>1
  <2>. QED BY <1>0, <1>1, <2>1, <2>2, <2>3
<1>8. CASE toServer # <<>> /\ toServer' = Tail(toServer) /\ UNCHANGED started
  <2>1. StartsOnce'
    BY <1>7, <1>8 DEF StartsOnce
  <2>. QED BY <1>4, <1>8, <2>1
<1>9. CASE /\ started' = started + 1 /\ started' \in Stream
           /\ toServer # <<>> /\ toServer' = Tail(toServer)
           /\ Head(toServer).type = "start" /\ Head(toServer).id \in Id
           /\ idOf'[started'] = Head(toServer).id
  <2>1. PICK n \in Stream, i \in Id :
          /\ n = started' /\ idOf'[n] = i /\ i = toServer[1].id /\ toServer[1].type = "start"
          /\ 1 \in 1..Len(toServer)
    BY <1>6, <1>9
  <2>2. GivenOut(i) /\ \A s \in Stream : s <= started => idOf[s] # i
    BY <2>1 DEF OnceInv
  <2>3. \A s \in Stream : s <= started' => s = n \/ s <= started
    BY <1>0, <1>9, <2>1
  <2>4. \A s \in Stream : s <= started' => \E c \in Caller : operationId'[c] = idOf'[s]
    BY <1>0, <1>1, <1>2, <2>1, <2>2, <2>3
  <2>5. \A s, t \in Stream : s <= started' /\ t <= started' /\ idOf'[s] = idOf'[t] => s = t
    <3>. SUFFICES ASSUME NEW s \in Stream, NEW t \in Stream, s <= started', t <= started',
                         idOf'[s] = idOf'[t]
                  PROVE  s = t
      OBVIOUS
    <3>1. CASE s = n \/ t = n
      BY <1>0, <2>1, <2>2, <2>3, <3>1
    <3>2. CASE s # n /\ t # n
      BY <1>0, <2>3, <3>2 DEF OnceInv
    <3>. QED BY <3>1, <3>2
  <2>6. StartsOnce'
    <3>. SUFFICES ASSUME NEW q \in 1..Len(toServer'), toServer'[q].type = "start"
                  PROVE  /\ \E c \in Caller : operationId'[c] = toServer'[q].id
                         /\ \A s \in Stream : s <= started' => idOf'[s] # toServer'[q].id
                         /\ \A r \in 1..Len(toServer') :
                              toServer'[r].type = "start" /\ toServer'[r].id = toServer'[q].id
                              => r = q
      BY DEF StartsOnce
    <3>. QED BY <1>7, <1>9, <2>1, <2>3
  <2>. QED BY <2>4, <2>5, <2>6 DEF OnceInv, StartsOnce
<1>10. CASE /\ toServer' = Append(toServer, [type |-> "connection_init", id |-> NoId])
            /\ toServer = <<>> /\ UNCHANGED started
  <2>1. \A q \in 1..Len(toServer') : toServer'[q].type # "start"
    BY <1>10
  <2>. QED BY <1>4, <1>10, <2>1 DEF StartsOnce
<1>11. CASE OpenOperation /\ UNCHANGED serverVars
  <2>1. PICK w \in Caller, n \in Id :
          /\ \A c \in Caller : operationId[c] # n
          /\ operationId' = [operationId EXCEPT ![w] = n]
          /\ toServer' = Append(toServer, [type |-> "start", id |-> n])
    BY <1>11, OpenSteps
  <2>2. started' = started
    BY <1>11 DEF serverVars
  <2>3. operationId'[w] = n
    BY <2>1 DEF TypeOK, ClientTypeOK
  <2>4. [type |-> "start", id |-> n] \in ToServer
    BY DEF ToServer
  <2>5. /\ Len(toServer') = Len(toServer) + 1 /\ Len(toServer) \in Nat
        /\ toServer'[Len(toServer) + 1].id = n
        /\ \A q \in 1..Len(toServer) : toServer'[q] = toServer[q]
    BY <2>1, <2>4, AppendElements DEF TypeOK, NetworkTypeOK
  <2>6. \A q \in 1..Len(toServer) : toServer[q].type = "start" => toServer[q].id # n
    BY <2>1 DEF OnceInv
  <2>7. \A s \in Stream : s <= started => idOf[s] # n
    BY <1>2, <2>1
  <2>8. StartsOnce'
    <3>. SUFFICES ASSUME NEW q \in 1..Len(toServer'), toServer'[q].type = "start"
                  PROVE  /\ \E c \in Caller : operationId'[c] = toServer'[q].id
                         /\ \A s \in Stream : s <= started' => idOf'[s] # toServer'[q].id
                         /\ \A r \in 1..Len(toServer') :
                              toServer'[r].type = "start" /\ toServer'[r].id = toServer'[q].id
                              => r = q
      BY DEF StartsOnce
    <3>1. CASE q = Len(toServer) + 1
      BY <1>0, <2>2, <2>3, <2>5, <2>6, <2>7, <3>1
    <3>2. CASE q \in 1..Len(toServer)
      <4>1. /\ GivenOut(toServer[q].id) /\ toServer[q].id \in Id /\ toServer[q].id # n
            /\ \A s \in Stream : s <= started => idOf[s] # toServer[q].id
            /\ \A r \in 1..Len(toServer) :
                 toServer[r].type = "start" /\ toServer[r].id = toServer[q].id => r = q
        BY <1>3, <2>5, <2>6, <3>2 DEF OnceInv
      <4>. QED BY <1>0, <1>1, <2>2, <2>5, <3>2, <4>1
    <3>. QED BY <2>5, <3>1, <3>2
  <2>. QED BY <1>4, <2>2, <2>8
<1>. QED BY <1>5, <1>8, <1>9, <1>10, <1>11, ToServerKinds

-----------------------------------------------------------------------------
(* The client's table has what the server may still answer.                *)

\* What a step does to the messages to the client, and to the one that is handed over.
LEMMA ToClientKinds ==
  ASSUME TypeOK, DialInv, AnyClient!ServerInv, [Next]_vars
  PROVE  \/ UNCHANGED <<toClient, written>> /\ (UNCHANGED handed \/ handed' = None)
         \/ /\ ReadMessage /\ UNCHANGED serverVars /\ toClient # <<>> /\ handed = None
            /\ handed' = Head(toClient) /\ toClient' = Tail(toClient) /\ reader = "reading"
         \/ /\ service = "off" /\ toClient # <<>> /\ toClient' = Tail(toClient)
            /\ UNCHANGED serverVars /\ handed = None /\ handed' = None
         \/ ServerNext /\ UNCHANGED clientVars
<1>. USE DEF network, handover
<1>1. CASE ServerNext /\ UNCHANGED clientVars
  BY <1>1
<1>2. UNCHANGED serverVars => UNCHANGED written
  BY DEF serverVars
<1>3. ASSUME NEW c \in Caller, ReadAck(c)
      PROVE  /\ service = "off" /\ toClient # <<>> /\ toClient' = Tail(toClient)
             /\ handed = None /\ handed' = None
  BY <1>3 DEF ReadAck, Goes, DialInv
<1>4. ClientNext => \/ UNCHANGED toClient /\ (UNCHANGED handed \/ handed' = None)
                    \/ ReadMessage \/ \E c \in Caller : ReadAck(c)
  BY DEF ClientNext, Call, Dial, GiveUp, RegisterConnection, UseConnection,
         DialAnother, HandOver, Crash, ReadResponse, Service, OpenOperation, OpenFails,
         TakeMessage, Deliver, TakeError, FailOperation, FailedAll, ReadSide, ReadError,
         CloseCommands, UnregisterConnection
<1>5. ReadMessage => /\ toClient # <<>> /\ handed = None /\ reader = "reading"
                     /\ handed' = Head(toClient) /\ toClient' = Tail(toClient)
  BY DEF ReadMessage, DialInv
<1>6. Disconnect /\ UNCHANGED clientVars => UNCHANGED <<toClient, handed>>
  BY ServerLeaves DEF Disconnect
<1>7. UNCHANGED vars => UNCHANGED <<toClient, handed, serverVars>>
  BY ServerLeaves DEF vars
<1>. QED BY <1>1, <1>2, <1>3, <1>4, <1>5, <1>6, <1>7 DEF Next

\* The client may still get something of stream s.
Expected(s) == AnyClient!InUse(s) \/ HandedOf(s)

\* Nothing more is expected of a stream than before, unless it is started.
LEMMA ExpectedSteps ==
  ASSUME TypeOK, DialInv, AnyClient!ServerInv, [Next]_vars,
         NEW s \in Stream, Expected(s)'
  PROVE  \/ Expected(s) /\ (s <= started \/ HandedOf(s))
         \/ /\ s = started' /\ toServer # <<>> /\ Head(toServer).type = "start"
            /\ UNCHANGED clientVars
            /\ idOf'[s] = Head(toServer).id
<1>. USE DEF Expected, HandedOf, AnyClient!InUse, AnyClient!OnTheWay
<1>0. /\ started \in Nat /\ started' \in Nat /\ started <= started' /\ s \in Nat /\ s # 0
      /\ forwarder[s] = "done" => forwarder'[s] = "done"
      /\ toClient \in Seq(ToClient)
  BY StreamsKept, Constants DEF TypeOK, NetworkTypeOK
<1>1. ASSUME UNCHANGED toClient, UNCHANGED handed \/ handed' = None, UNCHANGED started
      PROVE  Expected(s) /\ (s <= started \/ HandedOf(s))
  BY <1>0, <1>1, Constants
<1>2. ASSUME toClient # <<>>, toClient' = Tail(toClient)
      PROVE  /\ AnyClient!OnTheWay(s)' => AnyClient!OnTheWay(s)
             /\ Head(toClient) = toClient[1] /\ 1 \in 1..Len(toClient)
  BY <1>0, <1>2, TailElements
<1>3. CASE /\ ReadMessage /\ UNCHANGED serverVars /\ toClient # <<>> /\ handed = None
           /\ handed' = Head(toClient) /\ toClient' = Tail(toClient)
  <2>1. UNCHANGED <<started, forwarder>>
    BY <1>3 DEF serverVars
  <2>2. HandedOf(s)' => s <= started /\ AnyClient!OnTheWay(s)
    BY <1>0, <1>2, <1>3, ServerFacts
  <2>. QED BY <1>0, <1>2, <1>3, <2>1, <2>2
<1>4. CASE /\ toClient # <<>> /\ toClient' = Tail(toClient)
           /\ UNCHANGED serverVars /\ handed' = None
  <2>1. UNCHANGED <<started, forwarder>>
    BY <1>4 DEF serverVars
  <2>. QED BY <1>0, <1>2, <1>4, <2>1, Constants
<1>5. CASE ServerNext /\ UNCHANGED clientVars
  <2>1. UNCHANGED handed
    BY <1>5, ServerLeaves
  <2>2. CASE UNCHANGED started
    <3>1. CASE UNCHANGED toClient
      BY <1>1, <2>1, <2>2, <3>1
    <3>2. ASSUME NEW m \in ToClient, toClient' = Append(toClient, m),
                 AnyClient!OnTheWay(s)', ~AnyClient!OnTheWay(s)
          PROVE  m.stream = s
      BY <1>0, <3>2, AppendElements
    <3>3. ASSUME NEW m \in ToClient, toClient' = Append(toClient, m), m.stream = 0
          PROVE  Expected(s) /\ (s <= started \/ HandedOf(s))
      BY <1>0, <2>1, <2>2, <3>2, <3>3
    <3>4. ASSUME NEW t \in Stream, NEW m \in ToClient, toClient' = Append(toClient, m),
                 t <= started, forwarder[t] # "done", m.stream = t
          PROVE  Expected(s) /\ (s <= started \/ HandedOf(s))
      BY <1>0, <2>1, <2>2, <3>2, <3>4
    <3>. QED BY <1>5, <3>1, <3>3, <3>4, ServerWrites
  <2>3. CASE /\ started' = started + 1 /\ started' \in Stream
             /\ toServer # <<>> /\ Head(toServer).type = "start"
             /\ idOf'[started'] = Head(toServer).id
             /\ UNCHANGED <<toClient, forwarder, written>>
    <3>1. CASE s = started'
      BY <1>5, <2>3, <3>1
    <3>2. CASE s # started'
      BY <1>0, <2>1, <2>3, <3>2
    <3>. QED BY <3>1, <3>2
  <2>. QED BY <1>5, <2>2, <2>3, ServerStarts
<1>6. CASE UNCHANGED <<toClient, written>> /\ (UNCHANGED handed \/ handed' = None)
  <2>1. CASE ServerNext /\ UNCHANGED clientVars
    BY <1>5, <2>1
  <2>2. CASE UNCHANGED started
    BY <1>1, <1>6, <2>2
  <2>3. UNCHANGED serverVars => UNCHANGED started
    BY DEF serverVars
  <2>. QED BY <2>1, <2>2, <2>3 DEF Next, vars
<1>. QED BY <1>3, <1>4, <1>5, <1>6, ToClientKinds

\* What is expected was started, and has its id.
LEMMA ExpectedStarted ==
  ASSUME AnyClient!ServerInv, HandedInv, NEW s \in Stream, Expected(s)
  PROVE  s <= started /\ idOf[s] \in Id
BY ServerFacts DEF Expected, HandedOf, HandedInv, AnyClient!InUse

LEMMA KnownStep ==
  ASSUME TypeOK, AnyClient!ServerInv, DialInv, TableInv, IdInv, ServiceInv,
         ServerKnowsTheClientsIds, OnceInv, KnownInv, HandedInv, [Next]_vars
  PROVE  KnownInv'
<1>0. /\ started \in Nat /\ started' \in Nat /\ started <= started'
      /\ \A s \in Stream : s <= started => s <= started' /\ idOf'[s] = idOf[s]
      /\ toServer \in Seq(ToServer)
  BY StreamsKept DEF TypeOK, NetworkTypeOK
<1>. SUFFICES ASSUME ~Ending'
              PROVE  /\ \A q \in 1..Len(toServer') :
                          toServer'[q].type = "start" => operations'[toServer'[q].id] # None
                     /\ \A s \in Stream : Expected(s)' => operations'[idOf'[s]] # None
  BY DEF KnownInv, Expected
<1>1. ~Ending
  <2>1. OpenOperation \/ OpenFails \/ TakeMessage \/ Deliver => ~Ending
    BY DEF OpenOperation, OpenFails, TakeMessage, Deliver, Ending
  <2>2. ASSUME NEW i \in Id, FailOperation(i) PROVE UNCHANGED service
    BY <2>2, FailSteps
  <2>3. ASSUME NEW c \in Caller, HandOver(c) \/ ReadResponse(c) PROVE UNCHANGED service \/ ~Ending
    BY <2>3 DEF HandOver, ReadResponse, handover, Ending
  <2>. QED BY <2>1, <2>2, <2>3, StepKinds DEF Quiet, Ending
<1>2. /\ \A q \in 1..Len(toServer) : toServer[q].type = "start" =>
           toServer[q].id \in Id /\ operations[toServer[q].id] # None
      /\ \A s \in Stream : Expected(s) => operations[idOf[s]] # None
  BY <1>1, StartsTyped DEF KnownInv, Expected
\* Where the table keeps what it has, all that is left to show is what is new.
<1>3. ASSUME \A i \in Id : operations[i] # None => operations'[i] # None
      PROVE  /\ \A q \in 1..Len(toServer') : toServer'[q].type = "start" =>
                  operations'[toServer'[q].id] # None
             /\ \A s \in Stream : Expected(s)' => operations'[idOf'[s]] # None
  <2>1. ASSUME NEW q \in 1..Len(toServer'), toServer'[q].type = "start"
        PROVE  operations'[toServer'[q].id] # None
    <3>1. CASE UNCHANGED toServer
      BY <1>2, <1>3, <2>1, <3>1
    <3>2. CASE toServer # <<>> /\ toServer' = Tail(toServer)
      <4>1. q + 1 \in 1..Len(toServer) /\ toServer'[q] = toServer[q + 1]
        BY <1>0, <2>1, <3>2, TailElements
      <4>. QED BY <1>2, <1>3, <2>1, <4>1
    <3>3. CASE /\ toServer' = Append(toServer, [type |-> "connection_init", id |-> NoId])
               /\ toServer = <<>>
      BY <2>1, <3>3
    <3>4. CASE OpenOperation
      <4>1. PICK w \in Caller, n \in Id :
              /\ operations' = [operations EXCEPT ![n] = w]
              /\ toServer' = Append(toServer, [type |-> "start", id |-> n])
        BY <3>4, OpenSteps
      <4>2. [type |-> "start", id |-> n] \in ToServer
        BY DEF ToServer
      <4>3. \/ q \in 1..Len(toServer) /\ toServer'[q] = toServer[q]
            \/ toServer'[q] = [type |-> "start", id |-> n]
        BY <1>0, <2>1, <4>1, <4>2, AppendElements
      <4>4. operations'[n] # None
        BY <4>1, Constants DEF TypeOK, ClientTypeOK
      <4>. QED BY <1>2, <1>3, <2>1, <4>3, <4>4
    <3>. QED BY <3>1, <3>2, <3>3, <3>4, ToServerKinds
  <2>2. ASSUME NEW s \in Stream, Expected(s)' PROVE operations'[idOf'[s]] # None
    <3>1. CASE Expected(s)
      BY <1>0, <1>2, <1>3, <3>1, ExpectedStarted
    <3>2. CASE /\ toServer # <<>> /\ Head(toServer).type = "start"
               /\ idOf'[s] = Head(toServer).id
      <4>1. 1 \in 1..Len(toServer) /\ Head(toServer) = toServer[1]
        BY <1>0, <3>2, TailElements
      <4>. QED BY <1>2, <1>3, <3>2, <4>1
    <3>. QED BY <2>2, <3>1, <3>2, ExpectedSteps
  <2>. QED BY <2>1, <2>2
<1>4. CASE TakeMessage /\ UNCHANGED serverVars
  <2>1. PICK s \in Stream, c \in Caller :
          /\ s <= started /\ idOf[s] \in Id /\ handed # None /\ handed.stream = s
          /\ UNCHANGED network /\ handed' = None
          /\ \/ UNCHANGED operations
             \/ /\ handed.type = "complete"
                /\ operations' = [operations EXCEPT ![idOf[s]] = None]
    BY <1>4, TakeSteps
  <2>2. CASE UNCHANGED operations
    BY <1>3, <2>2
  <2>3. CASE /\ handed.type = "complete"
             /\ operations' = [operations EXCEPT ![idOf[s]] = None]
    <3>1. \A i \in Id : i # idOf[s] /\ operations[i] # None => operations'[i] # None
      BY <2>3 DEF TypeOK, ClientTypeOK
    <3>2. UNCHANGED <<toServer, toClient, started, forwarder, idOf>>
      BY <1>4, <2>1 DEF network, serverVars
    <3>3. ASSUME NEW q \in 1..Len(toServer'), toServer'[q].type = "start"
          PROVE  operations'[toServer'[q].id] # None
      <4>1. idOf[s] # toServer[q].id
        BY <2>1, <3>2, <3>3 DEF OnceInv
      <4>. QED BY <1>2, <3>1, <3>2, <3>3, <4>1
    <3>4. ASSUME NEW t \in Stream, Expected(t)' PROVE operations'[idOf'[t]] # None
      <4>1. AnyClient!InUse(t)
        BY <2>1, <3>2, <3>4
        DEF Expected, HandedOf, AnyClient!InUse, AnyClient!OnTheWay
      <4>2. t <= started /\ idOf[t] \in Id
        BY <4>1, ExpectedStarted DEF Expected
      <4>3. t # s
        BY <2>1, <2>3, <4>1 DEF HandedInv, AnyClient!InUse
      <4>4. idOf[t] # idOf[s]
        BY <2>1, <4>2, <4>3 DEF OnceInv
      <4>. QED BY <1>2, <3>1, <3>2, <4>1, <4>2, <4>4 DEF Expected
    <3>. QED BY <3>3, <3>4
  <2>. QED BY <2>1, <2>2, <2>3
<1>5. OpenOperation => \A i \in Id : operations[i] # None => operations'[i] # None
  <2>. SUFFICES ASSUME OpenOperation
                PROVE  \A i \in Id : operations[i] # None => operations'[i] # None
    OBVIOUS
  <2>1. PICK w \in Caller, n \in Id : operations' = [operations EXCEPT ![n] = w]
    BY OpenSteps
  <2>. QED BY <2>1, Constants DEF TypeOK, ClientTypeOK
<1>6. OpenFails \/ Deliver \/ Quiet => UNCHANGED operations
  BY DEF OpenFails, Deliver, Quiet, table
<1>7. ASSUME NEW c \in Caller, HandOver(c) \/ ReadResponse(c) PROVE UNCHANGED operations
  BY <1>7 DEF HandOver, ReadResponse, table
<1>8. ASSUME NEW i \in Id, FailOperation(i) PROVE FALSE
  BY <1>1, <1>8, FailSteps DEF Ending
<1>. QED BY <1>3, <1>4, <1>5, <1>6, <1>7, <1>8, StepKinds

LEMMA HandedStep ==
  ASSUME TypeOK, AnyClient!ServerInv, DialInv, HandshakeInv, HandedInv, [Next]_vars
  PROVE  HandedInv'
<1>0. /\ \A s \in Stream : s <= started => s <= started' /\ idOf'[s] = idOf[s]
      /\ \A s \in Stream : forwarder[s] = "done" => forwarder'[s] = "done"
      /\ \A s \in Stream : s \in Nat /\ s # 0
      /\ toClient \in Seq(ToClient)
  BY StreamsKept, Constants DEF TypeOK, NetworkTypeOK
<1>1. CASE handed' = None
  BY <1>1 DEF HandedInv
<1>2. ASSUME UNCHANGED handed, handed # None,
             forwarder[handed.stream] = "done" =>
               (AnyClient!OnTheWay(handed.stream)' => AnyClient!OnTheWay(handed.stream))
      PROVE  HandedInv'
  BY <1>0, <1>2 DEF HandedInv
<1>3. CASE UNCHANGED <<toClient, written>> /\ (UNCHANGED handed \/ handed' = None)
  <2>1. CASE UNCHANGED handed /\ handed # None
    <3>1. AnyClient!OnTheWay(handed.stream)' => AnyClient!OnTheWay(handed.stream)
      BY <1>3, <2>1 DEF AnyClient!OnTheWay
    <3>. QED BY <1>2, <2>1, <3>1
  <2>. QED BY <1>1, <1>3, <2>1
<1>4. CASE ServerNext /\ UNCHANGED clientVars
  <2>1. UNCHANGED handed
    BY <1>4, ServerLeaves
  <2>2. CASE handed # None
    <3>1. PICK s \in Stream : s = handed.stream
      BY <2>2 DEF HandedInv
    <3>2. ASSUME forwarder[s] = "done", AnyClient!OnTheWay(s)' PROVE AnyClient!OnTheWay(s)
      <4>1. ASSUME NEW m \in ToClient, toClient' = Append(toClient, m), m.stream # s
            PROVE  AnyClient!OnTheWay(s)
        BY <1>0, <3>2, <4>1, AppendElements DEF AnyClient!OnTheWay
      <4>2. UNCHANGED toClient => AnyClient!OnTheWay(s)
        BY <3>2 DEF AnyClient!OnTheWay
      <4>. QED BY <1>0, <1>4, <3>2, <4>1, <4>2, ServerWrites
    <3>3. AnyClient!OnTheWay(handed.stream) <=> AnyClient!OnTheWay(s)
      BY <3>1 DEF AnyClient!OnTheWay
    <3>4. AnyClient!OnTheWay(handed.stream)' <=> AnyClient!OnTheWay(s)'
      BY <2>1, <3>1 DEF AnyClient!OnTheWay
    <3>. QED BY <1>2, <2>1, <2>2, <3>1, <3>2, <3>3, <3>4
  <2>. QED BY <1>1, <2>1, <2>2
<1>5. CASE /\ ReadMessage /\ UNCHANGED serverVars /\ toClient # <<>>
           /\ handed' = Head(toClient) /\ toClient' = Tail(toClient) /\ reader = "reading"
  <2>1. /\ Head(toClient) = toClient[1] /\ 1 \in 1..Len(toClient) /\ Head(toClient) \in ToClient
        /\ \A p \in 1..Len(toClient') :
             toClient'[p] = toClient[p + 1] /\ p + 1 \in 1..Len(toClient) /\ ~(p + 1 <= 1)
    BY <1>0, <1>5, TailElements
  <2>2. toClient[1].stream # 0
    BY <1>5, <2>1 DEF HandshakeInv
  <2>3. PICK s \in Stream : s = handed'.stream
    BY <1>5, <2>1, <2>2, MessagesTyped
  <2>4. /\ s <= started /\ handed'.id = idOf[s]
        /\ handed'.type = "complete" =>
             /\ forwarder[s] = "done"
             /\ \A q \in 1..Len(toClient) : toClient[q].stream = s => q <= 1
    BY <1>5, <2>1, <2>2, <2>3, ServerFacts
  <2>5. UNCHANGED <<started, idOf, forwarder>>
    BY <1>5 DEF serverVars
  <2>6. handed'.type = "complete" => ~AnyClient!OnTheWay(s)'
    BY <2>1, <2>4 DEF AnyClient!OnTheWay
  <2>7. AnyClient!OnTheWay(handed.stream)' <=> AnyClient!OnTheWay(s)'
    BY <2>3 DEF AnyClient!OnTheWay
  <2>. QED BY <2>3, <2>4, <2>5, <2>6, <2>7 DEF HandedInv
<1>. QED BY <1>1, <1>3, <1>4, <1>5, ToClientKinds

-----------------------------------------------------------------------------
(* Responses are neither lost nor reordered on their way.                  *)

\* The numbers of the responses of stream s that sequence q of messages carries.
Numbers(q, s) ==
  {q[p].number : p \in {p \in 1..Len(q) : q[p].type = "data" /\ q[p].stream = s}}

\* They come in increasing order, and none is above bound n.
Increasing(q, s, n) ==
  \A p \in 1..Len(q) : q[p].type = "data" /\ q[p].stream = s =>
    /\ q[p].number <= n
    /\ \A r \in 1..Len(q) : q[r].type = "data" /\ q[r].stream = s /\ p < r =>
         q[p].number < q[r].number

LEMMA NumbersAppend ==
  ASSUME NEW q \in Seq(ToClient), NEW m \in ToClient, NEW s \in Stream
  PROVE  Numbers(Append(q, m), s) =
           Numbers(q, s) \cup (IF m.type = "data" /\ m.stream = s THEN {m.number} ELSE {})
<1>. DEFINE qq == Append(q, m)
<1>1. /\ Len(qq) = Len(q) + 1 /\ Len(q) \in Nat /\ qq[Len(q) + 1] = m
      /\ \A p \in 1..Len(q) : qq[p] = q[p]
  BY AppendElements
<1>. HIDE DEF qq
<1>2. ASSUME NEW n \in Numbers(qq, s)
      PROVE  n \in Numbers(q, s) \/ (m.type = "data" /\ m.stream = s /\ n = m.number)
  <2>1. PICK p \in 1..Len(qq) : qq[p].type = "data" /\ qq[p].stream = s /\ n = qq[p].number
    BY <1>2 DEF Numbers
  <2>2. p \in 1..Len(q) \/ p = Len(q) + 1
    BY <1>1, <2>1
  <2>. QED BY <1>1, <2>1, <2>2 DEF Numbers
<1>3. ASSUME NEW n \in Numbers(q, s) PROVE n \in Numbers(qq, s)
  <2>1. PICK p \in 1..Len(q) : q[p].type = "data" /\ q[p].stream = s /\ n = q[p].number
    BY <1>3 DEF Numbers
  <2>2. p \in 1..Len(qq) /\ qq[p] = q[p]
    BY <1>1, <2>1
  <2>. QED BY <2>1, <2>2 DEF Numbers
<1>4. m.type = "data" /\ m.stream = s => m.number \in Numbers(qq, s)
  <2>1. Len(q) + 1 \in 1..Len(qq)
    BY <1>1
  <2>. QED BY <1>1, <2>1 DEF Numbers
<1>5. Numbers(qq, s) = Numbers(q, s) \cup (IF m.type = "data" /\ m.stream = s THEN {m.number} ELSE {})
  BY <1>2, <1>3, <1>4
<1>. QED BY <1>5 DEF qq

LEMMA IncreasingAppend ==
  ASSUME NEW q \in Seq(ToClient), NEW m \in ToClient, NEW s \in Stream, NEW n \in Nat,
         Increasing(q, s, n)
  PROVE  /\ ~(m.type = "data" /\ m.stream = s) => Increasing(Append(q, m), s, n)
         /\ m.number = n + 1 => Increasing(Append(q, m), s, n + 1)
<1>. DEFINE qq == Append(q, m)
<1>1. /\ Len(qq) = Len(q) + 1 /\ Len(q) \in Nat /\ qq[Len(q) + 1] = m
      /\ \A p \in 1..Len(q) : qq[p] = q[p] /\ q[p].number \in Nat
  <2>1. \A e \in ToClient : e.number \in Nat
    BY DEF ToClient
  <2>2. \A p \in 1..Len(q) : q[p] \in ToClient
    OBVIOUS
  <2>. QED BY <2>1, <2>2, AppendElements
<1>. HIDE DEF qq
<1>2. \A p \in 1..Len(qq) : p \in 1..Len(q) \/ p = Len(q) + 1
  BY <1>1
<1>3. ~(m.type = "data" /\ m.stream = s) => Increasing(qq, s, n)
  BY <1>1, <1>2 DEF Increasing
<1>4. m.number = n + 1 => Increasing(qq, s, n + 1)
  BY <1>1, <1>2 DEF Increasing
<1>. QED BY <1>3, <1>4 DEF qq

LEMMA NumbersTail ==
  ASSUME NEW q \in Seq(ToClient), q # <<>>, NEW s \in Stream, NEW n \in Nat, Increasing(q, s, n)
  PROVE  /\ Increasing(Tail(q), s, n)
         /\ ~(Head(q).type = "data" /\ Head(q).stream = s) => Numbers(Tail(q), s) = Numbers(q, s)
         /\ Head(q).type = "data" /\ Head(q).stream = s =>
              /\ Head(q).number \in Numbers(q, s)
              /\ Numbers(Tail(q), s) = Numbers(q, s) \ {Head(q).number}
              /\ \A k \in Numbers(Tail(q), s) : k > Head(q).number
<1>. DEFINE qq == Tail(q)
<1>1. /\ Len(qq) = Len(q) - 1 /\ Len(q) \in Nat \ {0} /\ Head(q) = q[1] /\ 1 \in 1..Len(q)
      /\ \A p \in 1..Len(qq) : qq[p] = q[p + 1] /\ p + 1 \in 1..Len(q) /\ 1 < p + 1
      /\ \A p \in 1..Len(q) : p # 1 => p - 1 \in 1..Len(qq) /\ qq[p - 1] = q[p]
      /\ \A p \in 1..Len(q) : q[p].number \in Nat
  <2>1. \A e \in ToClient : e.number \in Nat
    BY DEF ToClient
  <2>2. \A p \in 1..Len(q) : q[p] \in ToClient
    OBVIOUS
  <2>3. /\ Len(qq) = Len(q) - 1 /\ Len(q) \in Nat \ {0} /\ Head(q) = q[1]
        /\ \A p \in 1..Len(qq) : qq[p] = q[p + 1] /\ p + 1 \in 1..Len(q)
    BY TailElements
  <2>4. \A p \in 1..Len(q) : p # 1 => p - 1 \in 1..Len(qq) /\ (p - 1) + 1 = p
    BY <2>3
  <2>. QED BY <2>1, <2>2, <2>3, <2>4
<1>. HIDE DEF qq
<1>2. Increasing(qq, s, n)
  <2>. SUFFICES ASSUME NEW p \in 1..Len(qq), qq[p].type = "data", qq[p].stream = s
                PROVE  /\ qq[p].number <= n
                       /\ \A r \in 1..Len(qq) : qq[r].type = "data" /\ qq[r].stream = s /\ p < r =>
                            qq[p].number < qq[r].number
    BY DEF Increasing
  <2>1. qq[p] = q[p + 1] /\ p + 1 \in 1..Len(q)
    BY <1>1
  <2>2. ASSUME NEW r \in 1..Len(qq), qq[r].type = "data", qq[r].stream = s, p < r
        PROVE  qq[p].number < qq[r].number
    <3>1. qq[r] = q[r + 1] /\ r + 1 \in 1..Len(q) /\ p + 1 < r + 1
      BY <1>1, <2>2
    <3>. QED BY <2>1, <2>2, <3>1 DEF Increasing
  <2>. QED BY <2>1, <2>2 DEF Increasing
<1>3. ASSUME NEW k \in Numbers(qq, s)
      PROVE  \E p \in 1..Len(q) :
               p # 1 /\ 1 < p /\ q[p].type = "data" /\ q[p].stream = s /\ k = q[p].number
  <2>1. PICK p \in 1..Len(qq) : qq[p].type = "data" /\ qq[p].stream = s /\ k = qq[p].number
    BY <1>3 DEF Numbers
  <2>2. qq[p] = q[p + 1] /\ p + 1 \in 1..Len(q) /\ 1 < p + 1 /\ p + 1 # 1
    BY <1>1
  <2>. QED BY <2>1, <2>2
<1>4. \A k \in Numbers(qq, s) : k \in Numbers(q, s)
  BY <1>3 DEF Numbers
<1>5. ASSUME NEW p \in 1..Len(q), p # 1, q[p].type = "data", q[p].stream = s
      PROVE  q[p].number \in Numbers(qq, s)
  <2>1. p - 1 \in 1..Len(qq) /\ qq[p - 1] = q[p]
    BY <1>1, <1>5
  <2>. QED BY <1>5, <2>1 DEF Numbers
<1>6. ~(q[1].type = "data" /\ q[1].stream = s) => Numbers(qq, s) = Numbers(q, s)
  <2>1. ASSUME ~(q[1].type = "data" /\ q[1].stream = s), NEW k \in Numbers(q, s)
        PROVE  k \in Numbers(qq, s)
    <3>1. PICK p \in 1..Len(q) : q[p].type = "data" /\ q[p].stream = s /\ k = q[p].number
      BY <2>1 DEF Numbers
    <3>. QED BY <1>5, <2>1, <3>1
  <2>. QED BY <1>4, <2>1
<1>7. ASSUME q[1].type = "data", q[1].stream = s
      PROVE  /\ q[1].number \in Numbers(q, s)
             /\ Numbers(qq, s) = Numbers(q, s) \ {q[1].number}
             /\ \A k \in Numbers(qq, s) : k > q[1].number
  <2>1. q[1].number \in Numbers(q, s)
    BY <1>1, <1>7 DEF Numbers
  <2>2. \A k \in Numbers(qq, s) : k > q[1].number /\ k # q[1].number
    <3>. SUFFICES ASSUME NEW k \in Numbers(qq, s) PROVE k > q[1].number /\ k # q[1].number
      OBVIOUS
    <3>1. PICK p \in 1..Len(q) : 1 < p /\ q[p].type = "data" /\ q[p].stream = s /\ k = q[p].number
      BY <1>3
    <3>2. q[1].number < q[p].number
      BY <1>1, <1>7, <3>1 DEF Increasing
    <3>. QED BY <1>1, <3>1, <3>2
  <2>3. ASSUME NEW k \in Numbers(q, s), k # q[1].number PROVE k \in Numbers(qq, s)
    <3>1. PICK p \in 1..Len(q) : q[p].type = "data" /\ q[p].stream = s /\ k = q[p].number
      BY <2>3 DEF Numbers
    <3>. QED BY <1>5, <2>3, <3>1
  <2>. QED BY <1>4, <2>1, <2>2, <2>3
<1>. QED BY <1>1, <1>2, <1>6, <1>7 DEF qq

\* FlowInv, in these terms.
Flowing(s) ==
  /\ Passed(s) <= written[s]
  /\ Numbers(toClient, s) = (Passed(s) + 1) .. written[s]
  /\ HandedOf(s) /\ handed.type = "data" => handed.number = Passed(s)

LEMMA FlowTerms ==
  /\ FlowInv <=> /\ \A s \in Stream : s <= started /\ operations[idOf[s]] # None => Flowing(s)
                 /\ \A s \in Stream : Increasing(toClient, s, written[s])
  /\ FlowInv' <=> /\ \A s \in Stream : s <= started' /\ operations'[idOf'[s]] # None => Flowing(s)'
                  /\ \A s \in Stream : Increasing(toClient', s, written'[s])
<1>1. FlowInv <=> /\ \A s \in Stream : s <= started /\ operations[idOf[s]] # None => Flowing(s)
                  /\ \A s \in Stream : Increasing(toClient, s, written[s])
  <2>1. \A s \in Stream : Numbers(toClient, s) = {toClient[p].number : p \in DataOf(s)}
    BY DEF Numbers, DataOf
  <2>2. \A s \in Stream : Increasing(toClient, s, written[s]) <=>
          \A p \in DataOf(s) :
            /\ toClient[p].number <= written[s]
            /\ \A q \in DataOf(s) : p < q => toClient[p].number < toClient[q].number
    BY DEF Increasing, DataOf
  <2>. QED BY <2>1, <2>2 DEF FlowInv, Flowing
<1>2. FlowInv' <=> /\ \A s \in Stream : s <= started' /\ operations'[idOf'[s]] # None => Flowing(s)'
                   /\ \A s \in Stream : Increasing(toClient', s, written'[s])
  <2>1. \A s \in Stream : Numbers(toClient', s) = {toClient'[p].number : p \in DataOf(s)'}
    BY DEF Numbers, DataOf
  <2>2. \A s \in Stream : Increasing(toClient', s, written'[s]) <=>
          \A p \in DataOf(s)' :
            /\ toClient'[p].number <= written'[s]
            /\ \A q \in DataOf(s)' : p < q => toClient'[p].number < toClient'[q].number
    BY DEF Increasing, DataOf
  <2>. QED BY <2>1, <2>2 DEF FlowInv, Flowing
<1>. QED BY <1>1, <1>2

\* The order of the responses on their way.
LEMMA IncreasingStep ==
  ASSUME TypeOK, AnyClient!ServerInv, DialInv, [Next]_vars,
         \A s \in Stream : Increasing(toClient, s, written[s])
  PROVE  \A s \in Stream : Increasing(toClient', s, written'[s])
<1>. TAKE s \in Stream
<1>0. /\ toClient \in Seq(ToClient) /\ written \in [Stream -> Nat] /\ written[s] \in Nat
      /\ Increasing(toClient, s, written[s])
  BY DEF TypeOK, NetworkTypeOK, ServerTypeOK
<1>1. CASE UNCHANGED <<toClient, written>>
  BY <1>0, <1>1
<1>2. CASE toClient # <<>> /\ toClient' = Tail(toClient) /\ UNCHANGED serverVars
  <2>1. UNCHANGED written
    BY <1>2 DEF serverVars
  <2>. QED BY <1>0, <1>2, <2>1, NumbersTail
<1>3. CASE ServerNext
  <2>1. ASSUME NEW m \in ToClient, toClient' = Append(toClient, m), m.stream = 0,
               UNCHANGED written
        PROVE  Increasing(toClient', s, written'[s])
    <3>1. m.stream # s
      BY <2>1, Constants
    <3>. QED BY <1>0, <2>1, <3>1, IncreasingAppend
  <2>2. ASSUME NEW t \in Stream, NEW m \in ToClient, toClient' = Append(toClient, m),
               m.stream = t,
               \/ m.type = "data" /\ m.number = written[t] + 1
                  /\ written' = [written EXCEPT ![t] = @ + 1]
               \/ m.type = "complete" /\ UNCHANGED written
        PROVE  Increasing(toClient', s, written'[s])
    <3>1. CASE t = s /\ m.type = "data"
      <4>1. m.number = written[s] + 1 /\ written'[s] = written[s] + 1
        BY <1>0, <2>2, <3>1
      <4>. QED BY <1>0, <2>2, <4>1, IncreasingAppend
    <3>2. CASE ~(t = s /\ m.type = "data")
      <4>1. written'[s] = written[s]
        BY <1>0, <2>2, <3>2
      <4>. QED BY <1>0, <2>2, <3>2, <4>1, IncreasingAppend
    <3>. QED BY <3>1, <3>2
  <2>. QED BY <1>1, <1>3, <2>1, <2>2, ServerWrites
<1>. QED BY <1>1, <1>2, <1>3, ToClientKinds

\* Before the goroutines run, nothing is started.
LEMMA NothingStarted ==
  ASSUME AnyClient!ServerInv, DialInv, IdInv, OnceInv, service = "off"
  PROVE  \A s \in Stream : ~(s <= started)
<1>. SUFFICES ASSUME NEW s \in Stream, s <= started PROVE FALSE
  OBVIOUS
<1>1. PICK c \in Caller : operationId[c] = idOf[s]
  BY DEF OnceInv
<1>2. Untouched(c)
  BY DEF DialInv, IdInv
<1>. QED BY <1>1, <1>2, ServerFacts, Constants DEF Untouched

\* Streams of the table have callers of their own.
LEMMA CallersApart ==
  ASSUME TypeOK, AnyClient!ServerInv, TableInv, IdInv, OnceInv,
         NEW s \in Stream, NEW t \in Stream, s <= started, t <= started,
         operations[idOf[s]] # None, operations[idOf[t]] = operations[idOf[s]]
  PROVE  s = t
<1>1. idOf[s] \in Id /\ idOf[t] \in Id
  BY ServerFacts
<1>2. idOf[s] = idOf[t]
  BY <1>1, TableServed
<1>. QED BY <1>2 DEF OnceInv

\* What was passed stays so, with what is handed over.
LEMMA PassedKept ==
  ASSUME NEW s \in Stream, NEW c \in Caller,
         operations[idOf[s]] = c, operations'[idOf'[s]] = c,
         Responses(c)' = Responses(c),
         working = c /\ service = "delivering" <=> working' = c /\ service' = "delivering",
         UNCHANGED handed
  PROVE  Passed(s)' = Passed(s)
<1>1. HandedOf(s)' <=> HandedOf(s)
  BY DEF HandedOf
<1>2. Len(Responses(c)') = Len(Responses(c))
  OBVIOUS
<1>. QED BY <1>1, <1>2 DEF Passed

LEMMA PassedTyped ==
  ASSUME TypeOK, NEW s \in Stream, NEW c \in Caller, operations[idOf[s]] = c
  PROVE  Passed(s) \in Nat
<1>1. \E a, b \in {0, 1} : Passed(s) = Len(Responses(c)) + a + b
  <2>1. Passed(s) = Len(Responses(c))
                    + (IF working = c /\ service = "delivering" THEN 1 ELSE 0)
                    + (IF HandedOf(s) /\ handed.type = "data" THEN 1 ELSE 0)
    BY DEF Passed
  <2>2. /\ (IF working = c /\ service = "delivering" THEN 1 ELSE 0) \in {0, 1}
        /\ (IF HandedOf(s) /\ handed.type = "data" THEN 1 ELSE 0) \in {0, 1}
    OBVIOUS
  <2>. QED BY <2>1, <2>2, Zenon
<1>. QED BY <1>1, ResponsesTyped

LEMMA FlowingKept ==
  ASSUME NEW s \in Stream, Flowing(s), Passed(s)' = Passed(s),
         UNCHANGED handed, toClient' = toClient, written'[s] = written[s]
  PROVE  Flowing(s)'
BY DEF Flowing, HandedOf

\* Steps of the client but for reading from the network.
LEMMA FlowingClient ==
  ASSUME TypeOK, AnyClient!ServerInv, DialInv, TableInv, IdInv, ServiceInv,
         ServerKnowsTheClientsIds, OnceInv, KnownInv, HandedInv, FlowInv, [Next]_vars,
         UNCHANGED serverVars, ~Quiet,
         NEW s \in Stream, s <= started, operations'[idOf[s]] # None
  PROVE  Flowing(s)'
<1>. USE DEF TypeOK, ClientTypeOK
<1>0. /\ UNCHANGED <<started, idOf, written>> /\ idOf[s] \in Id
      /\ operations[idOf[s]] # None => Flowing(s)
  BY ServerFacts, FlowTerms DEF serverVars
<1>1. ASSUME NEW c \in Caller, HandOver(c) PROVE Flowing(s)'
  <2>1. /\ service = "select" /\ service' = "opening"
        /\ UNCHANGED <<operations, handed, toClient, chan, received>>
    BY <1>1 DEF HandOver, network, table, channels
  <2>2. PICK d \in Caller : operations[idOf[s]] = d
    BY <1>0, <2>1
  <2>3. Responses(d)' = Responses(d)
    BY <2>1 DEF Responses
  <2>4. Passed(s)' = Passed(s)
    BY <1>0, <2>1, <2>2, <2>3, PassedKept
  <2>. QED BY <1>0, <2>1, <2>2, <2>4, FlowingKept, Constants
<1>2. CASE OpenOperation
  <2>1. PICK w \in Caller, n \in Id :
          /\ \A c \in Caller : operationId[c] # n
          /\ service = "opening" /\ service' = "select"
          /\ operations' = [operations EXCEPT ![n] = w]
          /\ UNCHANGED <<handed, toClient, chan, received>>
    BY <1>2, OpenSteps
  <2>2. idOf[s] # n
    BY <2>1 DEF OnceInv
  <2>3. PICK d \in Caller : operations[idOf[s]] = d /\ operations'[idOf[s]] = d
    BY <1>0, <2>1, <2>2
  <2>4. Responses(d)' = Responses(d)
    BY <2>1 DEF Responses
  <2>5. Passed(s)' = Passed(s)
    BY <1>0, <2>1, <2>3, <2>4, PassedKept
  <2>. QED BY <1>0, <2>1, <2>3, <2>5, FlowingKept, Constants
<1>3. CASE OpenFails
  <2>1. PICK w \in Caller :
          /\ Untouched(w) /\ service = "opening" /\ service' = "select"
          /\ \A d \in Caller : d # w => Responses(d)' = Responses(d)
          /\ UNCHANGED <<network, operations, handed>>
    BY <1>3, OpenFailsSteps
  <2>2. PICK d \in Caller : operations[idOf[s]] = d /\ operations'[idOf[s]] = d
    BY <1>0, <2>1
  <2>3. d # w
    BY <1>0, <2>1, <2>2, TableServed, Constants DEF Untouched
  <2>4. Passed(s)' = Passed(s)
    BY <1>0, <2>1, <2>2, <2>3, PassedKept
  <2>. QED BY <1>0, <2>1, <2>2, <2>4, FlowingKept, Constants DEF network
<1>4. CASE TakeMessage
  <2>1. PICK t \in Stream, c \in Caller :
          /\ t <= started /\ idOf[t] \in Id /\ operations[idOf[t]] = c
          /\ handed # None /\ handed.stream = t /\ service = "select"
          /\ handed' = None
          /\ UNCHANGED <<network, chan, received>>
          /\ \/ /\ handed.type = "data"
                /\ service' = "delivering" /\ working' = c
                /\ UNCHANGED operations
             \/ /\ handed.type = "complete" /\ UNCHANGED <<service, working, item>>
                /\ operations' = [operations EXCEPT ![idOf[t]] = None]
    BY <1>4, TakeSteps
  <2>2. PICK d \in Caller : operations[idOf[s]] = d /\ operations'[idOf[s]] = d
    BY <1>0, <2>1
  <2>3. Responses(d)' = Responses(d) /\ Len(Responses(d)) \in Nat /\ ~HandedOf(s)'
    BY <2>1, ResponsesTyped DEF Responses, HandedOf
  <2>4. Len(Responses(d)') = Len(Responses(d))
    BY <2>3
  <2>5. Passed(s)' = Passed(s)
    <3>1. CASE s = t
      <4>1. d = c /\ HandedOf(s) /\ handed.type = "data" /\ UNCHANGED operations
        BY <1>0, <2>1, <2>2, <3>1, Constants DEF HandedOf
      <4>2. Passed(s) = Len(Responses(d)) + 1
        BY <2>1, <2>2, <2>3, <4>1 DEF Passed
      <4>3. Passed(s)' = Len(Responses(d)) + 1
        BY <1>0, <2>1, <2>2, <2>3, <2>4, <4>1 DEF Passed
      <4>. QED BY <4>2, <4>3
    <3>2. CASE s # t
      <4>1. d # c /\ ~HandedOf(s)
        BY <2>1, <2>2, <3>2, CallersApart, Constants DEF HandedOf
      <4>2. Passed(s) = Len(Responses(d))
        BY <2>1, <2>2, <2>3, <4>1 DEF Passed
      <4>3. Passed(s)' = Len(Responses(d))
        BY <1>0, <2>1, <2>2, <2>3, <2>4, <4>1 DEF Passed
      <4>. QED BY <4>2, <4>3
    <3>. QED BY <3>1, <3>2
  <2>6. Flowing(s) /\ UNCHANGED toClient
    BY <1>0, <2>1, <2>2, Constants DEF network
  <2>. QED BY <1>0, <2>3, <2>5, <2>6 DEF Flowing
<1>5. CASE Deliver
  <2>1. PICK w \in Caller :
          /\ w = working /\ service = "delivering" /\ item \in Item
          /\ Responses(w)' = Append(Responses(w), item)
          /\ \A d \in Caller : d # w => Responses(d)' = Responses(d)
          /\ service' = "select"
          /\ UNCHANGED <<network, operations, handed>>
    BY <1>5, DeliverSteps
  <2>2. PICK d \in Caller : operations[idOf[s]] = d /\ operations'[idOf[s]] = d
    BY <1>0, <2>1
  <2>3. CASE d # w
    <3>1. Passed(s)' = Passed(s)
      BY <1>0, <2>1, <2>2, <2>3, PassedKept
    <3>. QED BY <1>0, <2>1, <2>2, <3>1, FlowingKept, Constants DEF network
  <2>4. CASE d = w
    <3>1. Len(Responses(d)') = Len(Responses(d)) + 1 /\ Len(Responses(d)) \in Nat
      BY <2>1, <2>4, ResponsesTyped, AppendElements
    <3>2. HandedOf(s)' <=> HandedOf(s)
      BY <2>1 DEF HandedOf
    <3>3. Passed(s)' = Passed(s)
      BY <1>0, <2>1, <2>2, <2>4, <3>1, <3>2 DEF Passed
    <3>. QED BY <1>0, <2>1, <2>2, <3>3, FlowingKept, Constants DEF network
  <2>. QED BY <2>3, <2>4
<1>6. ASSUME NEW i \in Id, FailOperation(i) PROVE Flowing(s)'
  <2>1. PICK c \in Caller :
          /\ operations[i] = c /\ operations' = [operations EXCEPT ![i] = None]
          /\ \A d \in Caller : d # c => Responses(d)' = Responses(d)
          /\ UNCHANGED <<network, service, working, handed>>
    BY <1>6, FailSteps
  <2>2. PICK d \in Caller : operations[idOf[s]] = d /\ operations'[idOf[s]] = d /\ idOf[s] # i
    BY <1>0, <2>1
  <2>3. d # c
    <3>1. operationId[d] = idOf[s] /\ operationId[c] = i
      BY <1>0, <2>1, <2>2, TableServed, Constants
    <3>. QED BY <2>2, <3>1
  <2>4. Passed(s)' = Passed(s)
    BY <1>0, <2>1, <2>2, <2>3, PassedKept
  <2>. QED BY <1>0, <2>1, <2>2, <2>4, FlowingKept, Constants DEF network
<1>7. ASSUME NEW c \in Caller, ReadResponse(c) PROVE Flowing(s)'
  <2>1. /\ \A d \in Caller : Responses(d)' = Responses(d)
        /\ UNCHANGED <<network, service, working, handed, operations>>
    BY <1>7, ReadResponseSteps
  <2>2. PICK d \in Caller : operations[idOf[s]] = d /\ operations'[idOf[s]] = d
    BY <1>0, <2>1
  <2>3. Passed(s)' = Passed(s)
    BY <1>0, <2>1, <2>2, PassedKept
  <2>. QED BY <1>0, <2>1, <2>2, <2>3, FlowingKept, Constants DEF network
<1>. QED BY <1>1, <1>2, <1>3, <1>4, <1>5, <1>6, <1>7, StepKinds

\* What the callers of a stream that is only now started have got: nothing.
LEMMA StartedAnew ==
  ASSUME TypeOK, AnyClient!ServerInv, TableInv, IdInv, ServiceInv, OnceInv, OwnInv,
         toServer # <<>>, Head(toServer).type = "start",
         NEW i \in Id, i = Head(toServer).id, NEW c \in Caller, operations[i] = c
  PROVE  Responses(c) = <<>> /\ ~(working = c /\ service = "delivering")
<1>1. 1 \in 1..Len(toServer) /\ Head(toServer) = toServer[1]
  BY TailElements DEF TypeOK, NetworkTypeOK
<1>2. \A s \in Stream : s <= started => idOf[s] # i
  BY <1>1 DEF OnceInv
<1>3. operationId[c] = i /\ ~chanClosed[c]
  BY TableServed, Constants
<1>4. ASSUME NEW k \in 1..Len(Responses(c)) PROVE FALSE
  <2>1. Responses(c)[k] # Failure
    BY <1>3 DEF OwnInv, Failed
  <2>. QED BY <1>2, <1>3, <2>1 DEF OwnInv
<1>5. Responses(c) = <<>>
  <2>1. Responses(c) \in Seq(Item) /\ Len(Responses(c)) \in Nat
    BY ResponsesTyped
  <2>. QED BY <1>4, <2>1
<1>6. ASSUME working = c, service = "delivering" PROVE FALSE
  <2>1. PICK s \in Stream : s <= started /\ operations[idOf[s]] = c
    BY <1>6 DEF ServiceInv
  <2>2. idOf[s] \in Id
    BY <2>1, ServerFacts
  <2>3. operationId[c] = idOf[s]
    BY <2>1, <2>2, TableServed, Constants
  <2>. QED BY <1>2, <1>3, <2>1, <2>3
<1>. QED BY <1>5, <1>6

\* A message is taken off the network.
LEMMA FlowingRead ==
  ASSUME TypeOK, AnyClient!ServerInv, NEW s \in Stream, Flowing(s),
         Increasing(toClient, s, written[s]),
         NEW c \in Caller, operations[idOf[s]] = c,
         UNCHANGED <<idOf, operations, chan, received, written, working, service>>,
         toClient # <<>>, toClient' = Tail(toClient), handed = None, handed' = Head(toClient)
  PROVE  Flowing(s)'
<1>1. /\ toClient \in Seq(ToClient) /\ Head(toClient) \in ToClient
      /\ written[s] \in Nat
  BY TailElements DEF TypeOK, NetworkTypeOK, ServerTypeOK
<1>2. Responses(c)' = Responses(c) /\ Len(Responses(c)) \in Nat
  BY ResponsesTyped DEF Responses
<1>3. Len(Responses(c)') = Len(Responses(c))
  BY <1>2
<1>4. ~HandedOf(s) /\ Passed(s) \in Nat
  BY <1>2 DEF HandedOf, Passed
<1>5. HandedOf(s)' <=> Head(toClient).stream = s
  BY <1>1, Constants DEF HandedOf
<1>6. CASE Head(toClient).type = "data" /\ Head(toClient).stream = s
  <2>. DEFINE n == Head(toClient).number
  <2>1. Passed(s)' = Passed(s) + 1
    BY <1>2, <1>3, <1>4, <1>5, <1>6 DEF Passed
  <2>2. /\ n \in Numbers(toClient, s)
        /\ Numbers(toClient', s) = Numbers(toClient, s) \ {n}
        /\ \A k \in Numbers(toClient', s) : k > n
    BY <1>1, <1>6, NumbersTail
  <2>3. Numbers(toClient, s) = (Passed(s) + 1) .. written[s]
    BY DEF Flowing
  <2>. HIDE DEF n
  <2>4. n = Passed(s) + 1
    <3>1. n \in (Passed(s) + 1) .. written[s]
      BY <2>2, <2>3
    <3>2. n # Passed(s) + 1 => Passed(s) + 1 \in Numbers(toClient', s)
      BY <1>1, <1>4, <2>2, <2>3, <3>1
    <3>. QED BY <1>1, <1>4, <2>2, <3>1, <3>2
  <2>5. /\ Passed(s)' <= written[s]
        /\ (Passed(s) + 1 .. written[s]) \ {n} = (Passed(s)' + 1) .. written[s]
    <3>1. n \in (Passed(s) + 1) .. written[s]
      BY <2>2, <2>3
    <3>. QED BY <1>1, <1>4, <2>1, <2>4, <3>1
  <2>6. handed'.number = Passed(s)'
    BY <2>1, <2>4 DEF n
  <2>. QED BY <2>2, <2>3, <2>5, <2>6 DEF Flowing
<1>7. CASE ~(Head(toClient).type = "data" /\ Head(toClient).stream = s)
  <2>1. Passed(s)' = Passed(s)
    BY <1>2, <1>3, <1>4, <1>5, <1>7 DEF Passed
  <2>2. Numbers(toClient', s) = Numbers(toClient, s)
    BY <1>1, <1>7, NumbersTail
  <2>. QED BY <1>5, <1>7, <2>1, <2>2 DEF Flowing
<1>. QED BY <1>6, <1>7

\* A step of the server.
LEMMA FlowingServer ==
  ASSUME TypeOK, AnyClient!ServerInv, NEW s \in Stream, Flowing(s), s <= started,
         NEW c \in Caller, operations[idOf[s]] = c,
         ServerNext, UNCHANGED clientVars
  PROVE  Flowing(s)'
<1>1. /\ toClient \in Seq(ToClient) /\ written \in [Stream -> Nat]
      /\ idOf'[s] = idOf[s] /\ s # 0
  BY ServerStarts, Constants DEF TypeOK, NetworkTypeOK, ServerTypeOK
<1>2. UNCHANGED <<operations, chan, received, working, service, handed>>
  BY ServerLeaves
<1>3. Responses(c)' = Responses(c) /\ Len(Responses(c)) \in Nat
  BY <1>2, ResponsesTyped DEF Responses
<1>4. Passed(s)' = Passed(s)
  BY <1>1, <1>2, <1>3, PassedKept
<1>5. Passed(s) \in Nat
  BY PassedTyped
<1>6. CASE UNCHANGED <<toClient, written>>
  BY <1>2, <1>4, <1>6, FlowingKept
<1>7. ASSUME NEW m \in ToClient, toClient' = Append(toClient, m),
             ~(m.type = "data" /\ m.stream = s), written'[s] = written[s]
      PROVE  Flowing(s)'
  <2>1. Numbers(toClient', s) = Numbers(toClient, s) /\ written'[s] = written[s]
    <3>1. Numbers(toClient', s) =
            Numbers(toClient, s) \cup (IF m.type = "data" /\ m.stream = s THEN {m.number} ELSE {})
      BY <1>1, <1>7, NumbersAppend
    <3>. QED BY <1>7, <3>1
  <2>2. (HandedOf(s)' <=> HandedOf(s)) /\ handed' = handed
    BY <1>2 DEF HandedOf
  <2>. QED BY <1>4, <2>1, <2>2 DEF Flowing
<1>8. ASSUME NEW m \in ToClient, toClient' = Append(toClient, m),
             m.type = "data", m.stream = s, m.number = written[s] + 1,
             written'[s] = written[s] + 1
      PROVE  Flowing(s)'
  <2>1. Numbers(toClient', s) = Numbers(toClient, s) \cup {written[s] + 1}
    BY <1>1, <1>8, NumbersAppend
  <2>2. Passed(s) <= written[s] /\ written[s] \in Nat
    BY <1>1 DEF Flowing
  <2>3. ((Passed(s) + 1) .. written[s]) \cup {written[s] + 1} = (Passed(s) + 1) .. (written[s] + 1)
    BY <1>5, <2>2
  <2>4. Passed(s)' <= written'[s]
    BY <1>4, <1>5, <1>8, <2>2
  <2>. QED BY <1>2, <1>4, <1>8, <2>1, <2>3, <2>4 DEF Flowing, HandedOf
<1>9. ASSUME NEW t \in Stream, NEW m \in ToClient, toClient' = Append(toClient, m),
             m.stream = t,
             \/ m.type = "data" /\ m.number = written[t] + 1
                /\ written' = [written EXCEPT ![t] = @ + 1]
             \/ m.type = "complete" /\ UNCHANGED written
      PROVE  Flowing(s)'
  <2>1. CASE m.type = "data" /\ t = s
    BY <1>1, <1>8, <1>9, <2>1
  <2>2. CASE ~(m.type = "data" /\ t = s)
    BY <1>1, <1>7, <1>9, <2>2
  <2>. QED BY <2>1, <2>2
<1>10. ASSUME NEW m \in ToClient, toClient' = Append(toClient, m), m.stream = 0,
              UNCHANGED written
       PROVE  Flowing(s)'
  BY <1>1, <1>7, <1>10
<1>. QED BY <1>6, <1>9, <1>10, ServerWrites

\* A step that leaves the operations alone.
LEMMA FlowingQuiet ==
  ASSUME TypeOK, AnyClient!ServerInv, DialInv, IdInv, OnceInv, [Next]_vars, Quiet,
         NEW s \in Stream, s <= started, Flowing(s), Increasing(toClient, s, written[s]),
         NEW c \in Caller, operations[idOf[s]] = c
  PROVE  Flowing(s)'
<1>1. /\ UNCHANGED <<working, operations, chan, received>> /\ idOf'[s] = idOf[s]
      /\ working = c /\ service = "delivering" <=> working' = c /\ service' = "delivering"
      /\ UNCHANGED handed \/ ReadMessage
  BY StreamsKept DEF Quiet
<1>2. Responses(c)' = Responses(c)
  BY <1>1 DEF Responses
<1>3. CASE ReadMessage
  <2>1. UNCHANGED <<serverVars, working, service, operations>>
        /\ toClient # <<>> /\ toClient' = Tail(toClient)
        /\ handed = None /\ handed' = Head(toClient)
    <3>1. UNCHANGED <<working, service, operations>> /\ toClient # <<>>
          /\ toClient' = Tail(toClient) /\ handed = None /\ handed' = Head(toClient)
      BY <1>3 DEF ReadMessage, table, DialInv
    <3>2. ~(ServerNext /\ UNCHANGED clientVars)
      <4>1. handed' \in ToClient
        BY <3>1, TailElements DEF TypeOK, NetworkTypeOK
      <4>. QED BY <3>1, <4>1, ServerLeaves, Constants
    <3>. QED BY <3>1, <3>2 DEF Next, vars
  <2>2. UNCHANGED <<idOf, written>>
    BY <2>1 DEF serverVars
  <2>. QED BY <1>1, <2>1, <2>2, FlowingRead
<1>4. CASE UNCHANGED <<toClient, written>> /\ UNCHANGED handed
  <2>1. Passed(s)' = Passed(s)
    BY <1>1, <1>2, <1>4, PassedKept
  <2>. QED BY <1>4, <2>1, FlowingKept
<1>5. CASE ServerNext /\ UNCHANGED clientVars
  BY <1>5, FlowingServer
<1>6. service # "off"
  BY NothingStarted
<1>. QED BY <1>1, <1>3, <1>4, <1>5, <1>6, ToClientKinds

LEMMA FlowStep ==
  ASSUME TypeOK, AnyClient!ServerInv, DialInv, TableInv, IdInv, ServiceInv,
         ServerKnowsTheClientsIds, OnceInv, KnownInv, HandedInv, FlowInv, OwnInv, [Next]_vars
  PROVE  FlowInv'
<1>1. /\ \A s \in Stream : s <= started /\ operations[idOf[s]] # None => Flowing(s)
      /\ \A s \in Stream : Increasing(toClient, s, written[s])
  BY FlowTerms
<1>2. \A s \in Stream : Increasing(toClient', s, written'[s])
  BY <1>1, IncreasingStep
<1>3. ASSUME NEW s \in Stream, s <= started', operations'[idOf'[s]] # None
      PROVE  Flowing(s)'
  <2>1. CASE s <= started
    <3>1. idOf'[s] = idOf[s] /\ idOf[s] \in Id
      BY <2>1, StreamsKept, ServerFacts
    <3>2. CASE Quiet
      <4>1. PICK c \in Caller : operations[idOf[s]] = c
        BY <1>3, <3>1, <3>2 DEF Quiet, TypeOK, ClientTypeOK
      <4>. QED BY <1>1, <2>1, <3>2, <4>1, FlowingQuiet, Constants
    <3>3. CASE ~Quiet
      BY <1>3, <2>1, <3>1, <3>3, StepKinds, FlowingClient
    <3>. QED BY <3>2, <3>3
  <2>2. CASE ~(s <= started)
    <3>1. /\ UNCHANGED clientVars /\ started' = started + 1 /\ started' \in Stream
          /\ toServer # <<>> /\ Head(toServer).type = "start" /\ Head(toServer).id \in Id
          /\ idOf'[started'] = Head(toServer).id
          /\ UNCHANGED <<toClient, written>>
      BY <1>3, <2>2, ToServerKinds DEF serverVars
    <3>2. /\ s \in Nat /\ s # 0 /\ started \in Nat /\ s > started /\ s = started'
      BY <1>3, <2>2, <3>1, Constants, ServerFacts
    <3>3. UNCHANGED <<operations, working, service, handed, chan, received>>
      BY <3>1, ServerLeaves
    <3>4. PICK i \in Id, c \in Caller : /\ i = Head(toServer).id /\ idOf'[s] = i
                                        /\ operations[i] = c /\ operations'[i] = c
      BY <1>3, <3>1, <3>2, <3>3 DEF TypeOK, ClientTypeOK
    <3>5. Responses(c) = <<>> /\ ~(working = c /\ service = "delivering")
      BY <3>1, <3>4, StartedAnew
    <3>6. ~HandedOf(s)'
      BY <3>2, <3>3 DEF HandedOf, HandedInv
    <3>7. Passed(s)' = 0
      <4>1. Len(Responses(c)') = 0
        BY <3>3, <3>5 DEF Responses
      <4>. QED BY <3>3, <3>4, <3>5, <3>6, <4>1 DEF Passed
    <3>8. written'[s] = 0
      BY <3>1, <3>2, ServerFacts
    <3>9. Numbers(toClient', s) = {}
      <4>1. \A p \in 1..Len(toClient) : toClient[p].stream # s
        BY <3>2, ServerFacts
      <4>. QED BY <3>1, <4>1 DEF Numbers
    <3>. QED BY <3>6, <3>7, <3>8, <3>9 DEF Flowing
  <2>. QED BY <2>1, <2>2
<1>. QED BY <1>2, <1>3, FlowTerms

-----------------------------------------------------------------------------
(* What the callers get.                                                   *)

LEMMA CompleteStep ==
  ASSUME TypeOK, AnyClient!ServerInv, DialInv, HandedInv, CompleteInv, [Next]_vars
  PROVE  CompleteInv'
<1>0. /\ \A s \in Stream : forwarder[s] = "done" /\ written[s] = produced[s] =>
              written'[s] = produced'[s]
      /\ toClient \in Seq(ToClient)
      /\ \A m \in ToClient : m.type = "complete" => m.stream # 0 /\ m.stream \in Stream
  BY StreamsKept, MessagesTyped DEF TypeOK, NetworkTypeOK
<1>1. ASSUME NEW p \in 1..Len(toClient), toClient[p].type = "complete"
      PROVE  written'[toClient[p].stream] = produced'[toClient[p].stream]
  <2>1. PICK s \in Stream : s = toClient[p].stream /\ s # 0
    BY <1>0, <1>1
  <2>2. forwarder[s] = "done" /\ written[s] = produced[s]
    BY <1>1, <2>1, ServerFacts DEF CompleteInv
  <2>. QED BY <1>0, <2>1, <2>2
<1>2. ASSUME handed # None, handed.type = "complete"
      PROVE  written'[handed.stream] = produced'[handed.stream]
  BY <1>0, <1>2 DEF HandedInv, CompleteInv
<1>3. ASSUME UNCHANGED handed \/ handed' = None,
             \A p \in 1..Len(toClient') : toClient'[p].type = "complete" =>
               \/ \E q \in 1..Len(toClient) : toClient'[p] = toClient[q]
               \/ written'[toClient'[p].stream] = produced'[toClient'[p].stream]
      PROVE  CompleteInv'
  BY <1>1, <1>2, <1>3 DEF CompleteInv
<1>4. ASSUME toClient # <<>>, toClient' = Tail(toClient)
      PROVE  /\ \A p \in 1..Len(toClient') : \E q \in 1..Len(toClient) : toClient'[p] = toClient[q]
             /\ \E q \in 1..Len(toClient) : Head(toClient) = toClient[q]
  BY <1>0, <1>4, TailElements
<1>5. CASE toClient # <<>> /\ toClient' = Tail(toClient) /\ handed' = Head(toClient)
  BY <1>1, <1>4, <1>5 DEF CompleteInv
<1>6. CASE toClient # <<>> /\ toClient' = Tail(toClient) /\ handed' = None
  BY <1>3, <1>4, <1>6
<1>7. CASE UNCHANGED <<toClient, written>> /\ (UNCHANGED handed \/ handed' = None)
  BY <1>3, <1>7
<1>8. CASE ServerNext /\ UNCHANGED clientVars
  <2>1. UNCHANGED handed
    BY <1>8, ServerLeaves
  <2>2. ASSUME NEW m \in ToClient, toClient' = Append(toClient, m),
               m.type = "complete" => written'[m.stream] = produced'[m.stream]
        PROVE  CompleteInv'
    <3>1. ASSUME NEW p \in 1..Len(toClient')
          PROVE  toClient'[p] = m \/ \E q \in 1..Len(toClient) : toClient'[p] = toClient[q]
      BY <1>0, <2>2, AppendElements
    <3>. QED BY <1>3, <2>1, <2>2, <3>1
  <2>3. ASSUME NEW m \in ToClient, toClient' = Append(toClient, m), m.stream = 0
        PROVE  CompleteInv'
    BY <1>0, <2>2, <2>3
  <2>. QED BY <1>3, <1>8, <2>1, <2>2, <2>3, ServerWrites
<1>. QED BY <1>5, <1>6, <1>7, <1>8, ToClientKinds

\* What c got is its own: OwnInv for one caller.
Own(c) ==
  /\ Failed(c) => chanClosed[c]
  /\ \A k \in 1..Len(Responses(c)) :
       LET r == Responses(c)[k] IN
       \/ r = Failure /\ k = Len(Responses(c))
       \/ r.stream \in Stream /\ r.stream <= started
          /\ idOf[r.stream] = operationId[c] /\ r.number = k
  /\ chanClosed[c] /\ ~Failed(c) => \E s \in Stream :
       s <= started /\ idOf[s] = operationId[c] /\ forwarder[s] = "done"
       /\ produced[s] = Len(Responses(c))

LEMMA OwnTerms ==
  /\ OwnInv <=> \A c \in Caller : Own(c)
  /\ OwnInv' <=> \A c \in Caller : Own(c)'
BY DEF OwnInv, Own

\* Nothing happens to the channel of c.
LEMMA OwnKept ==
  ASSUME TypeOK, AnyClient!ServerInv, [Next]_vars, NEW c \in Caller, Own(c),
         Responses(c)' = Responses(c), operationId'[c] = operationId[c],
         chanClosed'[c] = chanClosed[c]
  PROVE  Own(c)'
<1>1. Failed(c)' <=> Failed(c)
  BY DEF Failed
<1>2. Len(Responses(c)') = Len(Responses(c))
  OBVIOUS
<1>3. /\ \A s \in Stream : s <= started => s <= started' /\ idOf'[s] = idOf[s]
      /\ \A s \in Stream : forwarder[s] = "done" =>
           forwarder'[s] = "done" /\ produced'[s] = produced[s]
  BY StreamsKept
<1>4. ASSUME NEW k \in 1..Len(Responses(c))
      PROVE  LET r == Responses(c)[k] IN
             \/ r = Failure /\ k = Len(Responses(c))
             \/ r.stream \in Stream /\ r.stream <= started'
                /\ idOf'[r.stream] = operationId'[c] /\ r.number = k
  BY <1>3 DEF Own
<1>5. chanClosed[c] /\ ~Failed(c) => \E s \in Stream :
        s <= started' /\ idOf'[s] = operationId'[c] /\ forwarder'[s] = "done"
        /\ produced'[s] = Len(Responses(c))
  BY <1>3 DEF Own
<1>. QED BY <1>1, <1>2, <1>4, <1>5 DEF Own

\* An error or a response is sent to the channel of c, which is open.
LEMMA OwnSent ==
  ASSUME TypeOK, AnyClient!ServerInv, [Next]_vars, NEW c \in Caller, Own(c),
         ~chanClosed[c], operationId'[c] = operationId[c], NEW r \in Item,
         Responses(c)' = Append(Responses(c), r),
         \/ r = Failure /\ chanClosed'[c]
         \/ /\ r.stream \in Stream /\ r.stream <= started /\ idOf[r.stream] = operationId[c]
            /\ r.number = Len(Responses(c)) + 1
            /\ ~chanClosed'[c]
  PROVE  Own(c)'
<1>. DEFINE n == Len(Responses(c))
<1>1. /\ Len(Responses(c)') = n + 1 /\ n \in Nat /\ Responses(c)'[n + 1] = r
      /\ \A k \in 1..n : Responses(c)'[k] = Responses(c)[k]
  <2>1. Responses(c) \in Seq(Item)
    BY ResponsesTyped
  <2>. QED BY <2>1, AppendElements
<1>2. \A s \in Stream : s <= started => s <= started' /\ idOf'[s] = idOf[s]
  BY StreamsKept
<1>3. \A k \in 1..n : Responses(c)[k] # Failure
  BY DEF Own, Failed
<1>4. \A k \in 1..n :
        /\ Responses(c)[k].stream \in Stream /\ Responses(c)[k].stream <= started
        /\ idOf[Responses(c)[k].stream] = operationId[c] /\ Responses(c)[k].number = k
  BY <1>3 DEF Own
<1>5. \A k \in 1..Len(Responses(c)') : k \in 1..n \/ k = n + 1
  BY <1>1
<1>. HIDE DEF n
<1>6. \A k \in 1..n :
        /\ Responses(c)'[k].stream \in Stream /\ Responses(c)'[k].stream <= started'
        /\ idOf'[Responses(c)'[k].stream] = operationId'[c] /\ Responses(c)'[k].number = k
  BY <1>1, <1>2, <1>4
<1>7. Failed(c)' <=> r = Failure
  <2>1. r = Failure => Failed(c)'
    <3>1. n + 1 \in 1..Len(Responses(c)')
      BY <1>1
    <3>. QED BY <1>1, <3>1 DEF Failed
  <2>2. Failed(c)' => r = Failure
    <3>. SUFFICES ASSUME NEW k \in 1..Len(Responses(c)'), Responses(c)'[k] = Failure
                  PROVE  r = Failure
      BY DEF Failed
    <3>. QED BY <1>1, <1>3, <1>5
  <2>. QED BY <2>1, <2>2
<1>8. r = Failure => chanClosed'[c]
  BY Constants DEF Failure
<1>9. r # Failure =>
        /\ r.stream \in Stream /\ r.stream <= started' /\ idOf'[r.stream] = operationId'[c]
        /\ r.number = n + 1 /\ ~chanClosed'[c]
  BY <1>2 DEF n
<1>10. ASSUME NEW k \in 1..Len(Responses(c)')
       PROVE  LET q == Responses(c)'[k] IN
              \/ q = Failure /\ k = Len(Responses(c)')
              \/ q.stream \in Stream /\ q.stream <= started'
                 /\ idOf'[q.stream] = operationId'[c] /\ q.number = k
  <2>1. CASE k \in 1..n
    BY <1>6, <2>1
  <2>2. CASE k = n + 1
    BY <1>1, <1>9, <2>2
  <2>. QED BY <1>5, <2>1, <2>2
<1>. QED BY <1>7, <1>8, <1>9, <1>10 DEF Own

\* The channel of c is closed after all that the engine produced was sent to it.
LEMMA OwnClosed ==
  ASSUME TypeOK, AnyClient!ServerInv, [Next]_vars, NEW c \in Caller, Own(c),
         Responses(c)' = Responses(c), operationId'[c] = operationId[c],
         NEW s \in Stream, s <= started, idOf[s] = operationId[c], forwarder[s] = "done",
         produced[s] = Len(Responses(c)), ~chanClosed[c]
  PROVE  Own(c)'
<1>1. Len(Responses(c)') = Len(Responses(c))
  OBVIOUS
<1>2. /\ \A t \in Stream : t <= started => t <= started' /\ idOf'[t] = idOf[t]
      /\ forwarder'[s] = "done" /\ produced'[s] = produced[s]
  BY StreamsKept
<1>3. ~Failed(c)'
  BY DEF Own, Failed
<1>4. ASSUME NEW k \in 1..Len(Responses(c))
      PROVE  LET r == Responses(c)[k] IN
             \/ r = Failure /\ k = Len(Responses(c))
             \/ r.stream \in Stream /\ r.stream <= started'
                /\ idOf'[r.stream] = operationId'[c] /\ r.number = k
  BY <1>2 DEF Own
<1>. QED BY <1>1, <1>2, <1>3, <1>4 DEF Own

\* When "complete" is taken, its caller has got all that the engine produced.
LEMMA AllDelivered ==
  ASSUME TypeOK, AnyClient!ServerInv, HandedInv, FlowInv, CompleteInv,
         NEW s \in Stream, s <= started, NEW c \in Caller, operations[idOf[s]] = c,
         handed # None, handed.stream = s, handed.type = "complete", service = "select"
  PROVE  forwarder[s] = "done" /\ produced[s] = Len(Responses(c))
<1>1. forwarder[s] = "done" /\ ~AnyClient!OnTheWay(s) /\ written[s] = produced[s]
  BY DEF HandedInv, CompleteInv
<1>2. Passed(s) <= written[s] /\ Numbers(toClient, s) = (Passed(s) + 1) .. written[s]
  BY FlowTerms, Constants DEF Flowing
<1>3. Numbers(toClient, s) = {}
  BY <1>1 DEF Numbers, AnyClient!OnTheWay
<1>4. Passed(s) = Len(Responses(c)) /\ Len(Responses(c)) \in Nat
  BY ResponsesTyped DEF Passed
<1>5. written[s] \in Nat
  BY DEF TypeOK, ServerTypeOK
<1>6. ~(Passed(s) < written[s])
  <2>1. Passed(s) < written[s] => written[s] \in (Passed(s) + 1) .. written[s]
    BY <1>4, <1>5
  <2>. QED BY <1>2, <1>3, <2>1
<1>. QED BY <1>1, <1>2, <1>4, <1>5, <1>6

LEMMA OwnStep ==
  ASSUME TypeOK, AnyClient!ServerInv, DialInv, TableInv, IdInv, ServiceInv,
         ServerKnowsTheClientsIds, KnownInv, HandedInv, FlowInv, CompleteInv, OwnInv, [Next]_vars
  PROVE  OwnInv'
<1>. SUFFICES ASSUME NEW c \in Caller PROVE Own(c)'
  BY OwnTerms
<1>0. /\ Own(c)
      /\ operationId \in [Caller -> Id \cup {NoId}] /\ chanClosed \in [Caller -> BOOLEAN]
      /\ Failure \in Item
  BY OwnTerms, MessagesTyped DEF TypeOK, ClientTypeOK
<1>1. CASE OpenOperation
  <2>1. PICK w \in Caller, n \in Id :
          /\ Untouched(w) /\ operationId' = [operationId EXCEPT ![w] = n]
          /\ UNCHANGED <<chan, chanClosed, received>>
    BY <1>1, OpenSteps
  <2>2. Responses(c)' = Responses(c) /\ UNCHANGED chanClosed
    BY <2>1 DEF Responses
  <2>3. CASE c = w
    <3>1. Responses(c) = <<>> /\ ~chanClosed[c]
      BY <2>1, <2>3 DEF Untouched, Responses
    <3>2. Len(Responses(c)') = 0 /\ ~chanClosed'[c]
      BY <2>2, <3>1
    <3>. QED BY <3>2 DEF Own, Failed
  <2>4. CASE c # w
    BY <1>0, <2>1, <2>2, <2>4, OwnKept
  <2>. QED BY <2>3, <2>4
<1>2. CASE OpenFails
  <2>1. PICK w \in Caller :
          /\ Untouched(w) /\ chanClosed' = [chanClosed EXCEPT ![w] = TRUE]
          /\ Responses(w)' = <<Failure>> /\ UNCHANGED operationId
          /\ \A d \in Caller : d # w => Responses(d)' = Responses(d)
    BY <1>2, OpenFailsSteps
  <2>2. CASE c = w
    <3>1. Responses(c)' = Append(Responses(c), Failure)
      <4>1. Responses(c) = <<>>
        BY <2>1, <2>2 DEF Untouched, Responses
      <4>2. Append(<<>>, Failure) = <<Failure>>
        OBVIOUS
      <4>. QED BY <2>1, <2>2, <4>1, <4>2
    <3>2. ~chanClosed[c] /\ chanClosed'[c] /\ operationId'[c] = operationId[c]
      BY <1>0, <2>1, <2>2 DEF Untouched
    <3>. QED BY <1>0, <3>1, <3>2, OwnSent
  <2>3. CASE c # w
    BY <1>0, <2>1, <2>3, OwnKept
  <2>. QED BY <2>2, <2>3
<1>3. CASE TakeMessage
  <2>1. PICK s \in Stream, d \in Caller :
          /\ s <= started /\ idOf[s] \in Id /\ operations[idOf[s]] = d
          /\ handed # None /\ handed.stream = s /\ service = "select"
          /\ UNCHANGED <<operationId, chan, received>>
          /\ \/ UNCHANGED chanClosed
             \/ handed.type = "complete" /\ chanClosed' = [chanClosed EXCEPT ![d] = TRUE]
    BY <1>3, TakeSteps
  <2>2. Responses(c)' = Responses(c)
    BY <2>1 DEF Responses
  <2>3. CASE chanClosed'[c] = chanClosed[c]
    BY <1>0, <2>1, <2>2, <2>3, OwnKept
  <2>4. CASE c = d /\ handed.type = "complete"
    <3>1. forwarder[s] = "done" /\ produced[s] = Len(Responses(c))
      BY <2>1, <2>4, AllDelivered
    <3>2. idOf[s] = operationId[c] /\ ~chanClosed[c]
      BY <2>1, <2>4, TableServed, Constants
    <3>. QED BY <1>0, <2>1, <2>2, <3>1, <3>2, OwnClosed
  <2>. QED BY <1>0, <2>1, <2>3, <2>4
<1>4. CASE Deliver
  <2>1. PICK w \in Caller :
          /\ w = working /\ service = "delivering" /\ item \in Item
          /\ Responses(w)' = Append(Responses(w), item)
          /\ \A d \in Caller : d # w => Responses(d)' = Responses(d)
          /\ UNCHANGED <<operationId, chanClosed>>
    BY <1>4, DeliverSteps
  <2>2. CASE c = w
    <3>1. PICK s \in Stream :
            /\ s <= started /\ operations[idOf[s]] = c
            /\ item = [stream |-> s, number |-> Len(Responses(c)) + 1]
      BY <2>1, <2>2 DEF ServiceInv
    <3>2. idOf[s] = operationId[c] /\ ~chanClosed[c]
      <4>1. idOf[s] \in Id
        BY <3>1, ServerFacts
      <4>. QED BY <3>1, <4>1, TableServed, Constants
    <3>3. /\ item.stream \in Stream /\ item.stream <= started /\ idOf[item.stream] = operationId[c]
          /\ item.number = Len(Responses(c)) + 1
      BY <3>1, <3>2
    <3>. QED BY <1>0, <2>1, <2>2, <3>2, <3>3, OwnSent
  <2>3. CASE c # w
    BY <1>0, <2>1, <2>3, OwnKept
  <2>. QED BY <2>2, <2>3
<1>5. ASSUME NEW i \in Id, FailOperation(i) PROVE Own(c)'
  <2>1. PICK d \in Caller :
          /\ operations[i] = d
          /\ chanClosed' = [chanClosed EXCEPT ![d] = TRUE]
          /\ Responses(d)' = Append(Responses(d), Failure)
          /\ \A e \in Caller : e # d => Responses(e)' = Responses(e)
          /\ UNCHANGED operationId
    BY <1>5, FailSteps
  <2>2. CASE c = d
    <3>1. ~chanClosed[c] /\ chanClosed'[c]
      BY <1>0, <2>1, <2>2, TableServed, Constants
    <3>. QED BY <1>0, <2>1, <2>2, <3>1, OwnSent
  <2>3. CASE c # d
    BY <1>0, <2>1, <2>3, OwnKept
  <2>. QED BY <2>2, <2>3
<1>6. ASSUME NEW d \in Caller, ReadResponse(d) PROVE Own(c)'
  BY <1>0, <1>6, ReadResponseSteps, OwnKept
<1>7. ASSUME UNCHANGED <<chan, received, operationId, chanClosed>> PROVE Own(c)'
  <2>1. Responses(c)' = Responses(c)
    BY <1>7 DEF Responses
  <2>. QED BY <1>0, <1>7, <2>1, OwnKept
<1>8. ASSUME NEW d \in Caller, HandOver(d) PROVE Own(c)'
  BY <1>7, <1>8 DEF HandOver, table, channels
<1>9. Quiet => Own(c)'
  BY <1>7 DEF Quiet
<1>. QED BY <1>1, <1>2, <1>3, <1>4, <1>5, <1>6, <1>8, <1>9, StepKinds

-----------------------------------------------------------------------------
(* The inductive invariant.                                                *)

LEMMA SessionInit == Init => SessionInv
<1>. SUFFICES ASSUME Init PROVE SessionInv
  OBVIOUS
<1>. USE DEF Init, NetworkInit, ClientInit, ServerInit
<1>1. AnyClient!ServerInv
  <2>1. Server!Init
    BY InitMaps
    DEF AnyClient!Init, AnyClient!NetworkInit, AnyClient!ServerInit, AnyClient!Stream,
        Server!Init, Server!NetworkInit, Server!ServerInit, Server!Stream
  <2>. QED BY <2>1, SameInvariant, NetworkAssumption, Server!InvInit DEF Server!InvInit
<1>2. TypeOK
  <2>1. NetworkTypeOK /\ ServerTypeOK
    BY <1>1, ServerFacts
  <2>2. item \in Item /\ nextStreamId \in Nat
    BY DEF Failure, Item
  <2>3. /\ operations \in [Id -> Caller \cup {None}]
        /\ operationId \in [Caller -> Id \cup {NoId}]
        /\ chan \in [Caller -> Seq(Item)] /\ received \in [Caller -> Seq(Item)]
        /\ chanClosed \in [Caller -> BOOLEAN]
    OBVIOUS
  <2>4. ClientTypeOK
    BY <2>2, <2>3 DEF ClientTypeOK
  <2>. QED BY <2>1, <2>4 DEF TypeOK
<1>3. \A s \in Stream : ~(s <= started)
  BY Constants
<1>4. DialInv /\ HandshakeInv /\ TableInv /\ ServerKnowsTheClientsIds
  BY Constants DEF DialInv, HandshakeInv, TableInv, ServerKnowsTheClientsIds, Served, Ending
<1>5. IdInv
  <2>1. Served = {} /\ Served \ (IF service = "opening" THEN {working} ELSE {}) = {}
    BY DEF Served
  <2>2. Cardinality({}) = 0
    BY FS_EmptySet
  <2>. QED BY <2>1, <2>2, Constants DEF IdInv, Untouched
<1>6. ServiceInv /\ OnceInv
  BY <1>3, Constants DEF ServiceInv, OnceInv, Ending
<1>7. HandedInv /\ CompleteInv
  BY <1>3 DEF HandedInv, CompleteInv
<1>8. KnownInv
  <2>1. \A s \in Stream : ~AnyClient!InUse(s) /\ ~HandedOf(s)
    BY <1>3 DEF AnyClient!InUse, AnyClient!OnTheWay, HandedOf
  <2>. QED BY <2>1 DEF KnownInv
<1>9. FlowInv
  BY <1>3 DEF FlowInv, DataOf
<1>10. OwnInv
  <2>1. \A c \in Caller : Responses(c) = <<>> /\ ~chanClosed[c]
    BY DEF Responses
  <2>. QED BY <2>1 DEF OwnInv, Failed
<1>. QED BY <1>1, <1>2, <1>4, <1>5, <1>6, <1>7, <1>8, <1>9, <1>10 DEF SessionInv

LEMMA SessionStep == SessionInv /\ [Next]_vars => SessionInv'
<1>. SUFFICES ASSUME SessionInv, [Next]_vars PROVE SessionInv'
  OBVIOUS
<1>. USE DEF SessionInv
<1>1. AnyClient!ServerInv'
  BY StepMaps, ServerKeeps
<1>2. TypeOK'
  BY <1>1, ServerTyped, ClientTypeStep DEF TypeOK
<1>3. DialInv' /\ HandshakeInv'
  BY DialStep, HandshakeStep
<1>4. TableInv' /\ IdInv' /\ ServiceInv' /\ ServerKnowsTheClientsIds'
  BY TableStep, IdStep, ServiceStep, KnowsStep
<1>5. OnceInv' /\ KnownInv' /\ HandedInv'
  BY OnceStep, KnownStep, HandedStep
<1>6. FlowInv' /\ CompleteInv' /\ OwnInv'
  BY FlowStep, CompleteStep, OwnStep
<1>. QED BY <1>1, <1>2, <1>3, <1>4, <1>5, <1>6

-----------------------------------------------------------------------------
(* Theorems.                                                               *)

\* The inductive invariant of a session, for any number of callers, of operations, of
\* responses and of places in the buffers of the network.
THEOREM SessionInvariant == Spec => []SessionInv
BY SessionInit, SessionStep, PTL DEF Spec

\* Each caller gets the responses to its own request, in order and without a gap, and
\* nothing after an error.
THEOREM OwnResponses == Spec => []ResponsesAreItsOwn
<1>1. SessionInv => ResponsesAreItsOwn
  <2>. SUFFICES ASSUME SessionInv, NEW c \in Caller, NEW k \in 1..Len(Responses(c))
                PROVE  LET r == Responses(c)[k] IN
                       \/ r = Failure /\ k = Len(Responses(c))
                       \/ r.stream # 0 /\ idOf[r.stream] = operationId[c] /\ r.number = k
    BY DEF ResponsesAreItsOwn
  <2>. QED BY Constants DEF SessionInv, OwnInv
<1>. QED BY <1>1, SessionInvariant, PTL

\* A response channel that was closed without an error has delivered everything.
THEOREM ClosedDelivered == Spec => []ClosedMeansEverything
<1>1. SessionInv => ClosedMeansEverything
  BY DEF SessionInv, OwnInv, ClosedMeansEverything
<1>. QED BY <1>1, SessionInvariant, PTL

\* A channel that is closed stays so, gets nothing more and loses nothing: the table has
\* open channels only, and what is opened or delivered to is one of them.
LEMMA ClosedStep ==
  ASSUME SessionInv, [Next]_vars, NEW c \in Caller, chanClosed[c]
  PROVE  chanClosed'[c] /\ Responses(c)' = Responses(c)
<1>. USE DEF SessionInv
<1>0. chanClosed \in [Caller -> BOOLEAN]
  BY DEF TypeOK, ClientTypeOK
<1>1. ASSUME UNCHANGED <<chan, received, chanClosed>>
      PROVE  chanClosed'[c] /\ Responses(c)' = Responses(c)
  BY <1>1 DEF Responses
<1>2. OpenOperation => UNCHANGED <<chan, received, chanClosed>>
  BY OpenSteps
<1>3. CASE OpenFails
  <2>1. PICK w \in Caller :
          /\ Untouched(w) /\ chanClosed' = [chanClosed EXCEPT ![w] = TRUE]
          /\ \A d \in Caller : d # w => Responses(d)' = Responses(d)
    BY <1>3, OpenFailsSteps
  <2>2. c # w
    BY <2>1 DEF Untouched
  <2>. QED BY <1>0, <2>1, <2>2
<1>4. CASE TakeMessage
  <2>1. /\ chanClosed' = chanClosed \/ \E d \in Caller : chanClosed' = [chanClosed EXCEPT ![d] = TRUE]
        /\ UNCHANGED <<chan, received>>
    BY <1>4, TakeSteps
  <2>. QED BY <1>0, <2>1 DEF Responses
<1>5. CASE Deliver
  <2>1. PICK w \in Caller :
          /\ w = working /\ service = "delivering" /\ UNCHANGED chanClosed
          /\ \A d \in Caller : d # w => Responses(d)' = Responses(d)
    BY <1>5, DeliverSteps
  <2>2. PICK s \in Stream : s <= started /\ operations[idOf[s]] = w
    BY <2>1 DEF ServiceInv
  <2>3. ~chanClosed[w]
    BY <2>2, ServerFacts, TableServed, Constants
  <2>. QED BY <2>1, <2>3
<1>6. ASSUME NEW i \in Id, FailOperation(i)
      PROVE  chanClosed'[c] /\ Responses(c)' = Responses(c)
  <2>1. PICK d \in Caller :
          /\ operations[i] = d /\ chanClosed' = [chanClosed EXCEPT ![d] = TRUE]
          /\ \A e \in Caller : e # d => Responses(e)' = Responses(e)
    BY <1>6, FailSteps
  <2>2. ~chanClosed[d]
    BY <2>1, TableServed, Constants
  <2>. QED BY <1>0, <2>1, <2>2
<1>7. ASSUME NEW d \in Caller, ReadResponse(d)
      PROVE  chanClosed'[c] /\ Responses(c)' = Responses(c)
  BY <1>7, ReadResponseSteps
<1>8. ASSUME NEW d \in Caller, HandOver(d) PROVE UNCHANGED <<chan, received, chanClosed>>
  BY <1>8 DEF HandOver, channels
<1>9. Quiet => UNCHANGED <<chan, received, chanClosed>>
  BY DEF Quiet
<1>. QED BY <1>1, <1>2, <1>3, <1>4, <1>5, <1>6, <1>7, <1>8, <1>9, StepKinds

\* Nothing is sent to a response channel that is closed, which would panic.
THEOREM ClosedQuiet == Spec => ClosedIsQuiet
<1>1. SessionInv /\ [Next]_vars =>
        [\A c \in Caller : chanClosed[c] => chanClosed'[c] /\ Responses(c)' = Responses(c)]_vars
  BY ClosedStep
<1>. QED BY <1>1, SessionInvariant, PTL DEF Spec, ClosedIsQuiet

\* The client is one of those that the server was checked with, so what was proved of the
\* server holds in a session.
THEOREM ProtocolKept == Spec => KeepsToTheProtocol
<1>1. Init => AnyClient!Init
  BY InitMaps
<1>2. SessionInv /\ [Next]_vars => [AnyClient!Next]_AnyClient!vars
  BY StepMaps DEF SessionInv
<1>. QED BY <1>1, <1>2, SessionInvariant, PTL DEF Spec, KeepsToTheProtocol, AnyClient!SafetySpec

=============================================================================
