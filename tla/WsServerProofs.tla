--------------------------- MODULE WsServerProofs ---------------------------
(***************************************************************************)
(* Proofs about the server of a WebSocket connection: with any number of   *)
(* ids, operations and responses, and any client that does not reuse an id *)
(* too early, a stop is honoured, messages find their operation, and an    *)
(* operation is complete only when all of it was written.                  *)
(***************************************************************************)
EXTENDS WsAnyClient, TLAPS

-----------------------------------------------------------------------------
(* Sequences.                                                              *)

\* The elements of a sequence after its first was taken out.
LEMMA TailElements ==
  ASSUME NEW S, NEW q \in Seq(S), q # <<>>
  PROVE  /\ Tail(q) \in Seq(S)
         /\ Len(Tail(q)) = Len(q) - 1
         /\ Head(q) = q[1] /\ Head(q) \in S /\ Len(q) \in Nat \ {0}
         /\ \A p \in 1..Len(Tail(q)) : Tail(q)[p] = q[p + 1] /\ p + 1 \in 1..Len(q)
OBVIOUS

\* The elements of a sequence after one was put at its end.
LEMMA AppendElements ==
  ASSUME NEW S, NEW q \in Seq(S), NEW e \in S
  PROVE  /\ Append(q, e) \in Seq(S)
         /\ Len(Append(q, e)) = Len(q) + 1 /\ Len(q) \in Nat
         /\ Append(q, e)[Len(q) + 1] = e
         /\ \A p \in 1..Len(q) : Append(q, e)[p] = q[p]
OBVIOUS

-----------------------------------------------------------------------------
(* Type correctness.                                                       *)

LEMMA TypeInit == Init => TypeOK
<1>. SUFFICES ASSUME Init PROVE TypeOK
  OBVIOUS
<1>1. NetworkTypeOK
  BY DEF Init, NetworkInit, NetworkTypeOK
<1>2. ServerTypeOK
  BY DEF Init, ServerInit, ServerTypeOK
<1>. QED BY <1>1, <1>2 DEF Init, TypeOK

\* Messages that are sent.
LEMMA MessagesTyped ==
  /\ \A i \in Id : [type |-> "start", id |-> i] \in ToServer
  /\ \A i \in Id : [type |-> "stop", id |-> i] \in ToServer
  /\ \A type \in {"start", "stop"} : [type |-> type, id |-> BadId] \in ToServer
  /\ \A type \in {"connection_init", "other", "malformed"} :
       [type |-> type, id |-> NoId] \in ToServer
  /\ Reply("connection_ack", NoId, 0, 0) \in ToClient
  /\ Reply("connection_error", NoId, 0, 0) \in ToClient
  /\ \A i \in Id, s \in Stream, n \in Nat :
       Reply("data", i, s, n) \in ToClient /\ Reply("complete", i, s, n) \in ToClient
BY DEF ToServer, ToClient, Reply

\* What is read from the client, and what it may name.
LEMMA HeadTyped ==
  ASSUME NetworkTypeOK, toServer # <<>>
  PROVE  /\ Tail(toServer) \in Seq(ToServer)
         /\ Head(toServer).type \in {"start", "stop"} /\ Head(toServer).id # BadId =>
              Head(toServer).id \in Id
<1>1. toServer \in Seq(ToServer)
  BY DEF NetworkTypeOK
<1>2. Tail(toServer) \in Seq(ToServer) /\ Head(toServer) \in ToServer
  BY <1>1, TailElements
<1>. QED BY <1>2 DEF ToServer

\* A write keeps the channel's type.
LEMMA WrittenTyped ==
  ASSUME NetworkTypeOK, NEW m \in ToClient
  PROVE  Written(toClient, m) \in Seq(ToClient)
BY DEF NetworkTypeOK, Written

LEMMA TypeStep == TypeOK /\ StartInv /\ RegisteredInv /\ [Next]_vars => TypeOK'
<1>. SUFFICES ASSUME TypeOK, StartInv, RegisteredInv, [Next]_vars PROVE TypeOK'
  OBVIOUS
<1>. USE DEF TypeOK, sources
<1>0. Stream = 1..MaxStreams /\ MaxStreams \in Nat
  BY NetworkAssumption DEF Stream
<1>1. ASSUME NEW m \in ToServer, ClientSend(m), open' \in SUBSET Id PROVE TypeOK'
  BY <1>1 DEF ClientSend, NetworkTypeOK, ServerTypeOK, serverVars
<1>2. ASSUME NEW i \in Id, ClientStart(i) PROVE TypeOK'
  <2>1. [type |-> "start", id |-> i] \in ToServer
    BY MessagesTyped
  <2>. QED BY <1>1, <1>2, <2>1 DEF ClientStart
<1>3. ASSUME NEW i \in Id, ClientStop(i) PROVE TypeOK'
  <2>1. [type |-> "stop", id |-> i] \in ToServer
    BY MessagesTyped
  <2>. QED BY <1>1, <1>3, <2>1 DEF ClientStop
<1>4. ASSUME NEW type \in {"connection_init", "other", "malformed"}, ClientSays(type)
      PROVE  TypeOK'
  <2>1. [type |-> type, id |-> NoId] \in ToServer
    BY MessagesTyped
  <2>. QED BY <1>1, <1>4, <2>1 DEF ClientSays
<1>20. ASSUME NEW type \in {"start", "stop"}, ClientNames(type) PROVE TypeOK'
  <2>1. [type |-> type, id |-> BadId] \in ToServer
    BY MessagesTyped
  <2>. QED BY <1>1, <1>20, <2>1 DEF ClientNames
<1>21. CASE PanicOnId /\ UNCHANGED open
  <2>1. toServer' \in Seq(ToServer) /\ mu' = Reader /\ loop' = "stuck"
    BY <1>21, HeadTyped DEF PanicOnId
  <2>. QED BY <1>21, <2>1 DEF PanicOnId, NetworkTypeOK, ServerTypeOK
<1>22. ASSUME NEW s \in Stream, MarshalFails(s), UNCHANGED open PROVE TypeOK'
  BY <1>22 DEF MarshalFails, NetworkTypeOK, ServerTypeOK
<1>5. CASE ClientRead
  <2>1. toClient' \in Seq(ToClient) /\ open' \in SUBSET Id
    BY <1>5 DEF ClientRead, NetworkTypeOK
  <2>. QED BY <1>5, <2>1 DEF ClientRead, NetworkTypeOK, ServerTypeOK, serverVars
<1>6. CASE Disconnect /\ UNCHANGED <<serverVars, open>>
  BY <1>6 DEF Disconnect, NetworkTypeOK, ServerTypeOK, serverVars
<1>7. CASE Handshake /\ UNCHANGED open
  <2>1. toServer' \in Seq(ToServer)
    BY <1>7, HeadTyped DEF Handshake
  <2>2. toClient' \in Seq(ToClient)
    BY <1>7, MessagesTyped, WrittenTyped DEF Handshake, NetworkTypeOK
  <2>3. loop' \in {"reading", "returning"}
    BY <1>7 DEF Handshake
  <2>. QED BY <1>7, <2>1, <2>2, <2>3 DEF Handshake, NetworkTypeOK, ServerTypeOK
<1>8. CASE ReadStart /\ UNCHANGED open
  <2>1. toServer' \in Seq(ToServer) /\ Head(toServer).id \in Id
    BY <1>8, HeadTyped DEF ReadStart
  <2>2. started' \in Stream
    BY <1>0, <1>8 DEF ReadStart, ServerTypeOK
  <2>3. idOf' \in [Stream -> Id \cup {NoId}]
    BY <1>8, <2>1 DEF ReadStart, ServerTypeOK
  <2>. QED BY <1>8, <2>1, <2>2, <2>3 DEF ReadStart, NetworkTypeOK, ServerTypeOK
<1>9. CASE Register /\ UNCHANGED open
  <2>1. started \in Stream
    BY <1>9 DEF Register, StartInv, ServerTypeOK
  <2>2. /\ streams' \in [Id -> Stream \cup {0}]
        /\ forwarder' \in [Stream ->
             {"none", "receiving", "sending", "unregister", "completing", "done"}]
    BY <1>9, <2>1 DEF Register, ServerTypeOK
  <2>. QED BY <1>9, <2>2 DEF Register, network, NetworkTypeOK, ServerTypeOK
<1>10. CASE ReadStop /\ UNCHANGED open
  <2>1. toServer' \in Seq(ToServer)
    BY <1>10, HeadTyped DEF ReadStop
  <2>2. cancelled' \in [Stream -> BOOLEAN]
    BY <1>10 DEF ReadStop, ServerTypeOK
  <2>. QED BY <1>10, <2>1, <2>2 DEF ReadStop, NetworkTypeOK, ServerTypeOK
<1>11. CASE ReadOther /\ UNCHANGED open
  <2>1. toServer' \in Seq(ToServer)
    BY <1>11, HeadTyped DEF ReadOther
  <2>. QED BY <1>11, <2>1 DEF ReadOther, serverVars, NetworkTypeOK, ServerTypeOK
<1>12. CASE ReadFails /\ UNCHANGED open
  <2>1. toServer' \in Seq(ToServer)
    BY <1>12, HeadTyped DEF ReadFails, NetworkTypeOK
  <2>. QED BY <1>12, <2>1 DEF ReadFails, NetworkTypeOK, ServerTypeOK
<1>13. CASE Return /\ UNCHANGED open
  <2>1. cancelled' \in [Stream -> BOOLEAN]
    BY <1>13 DEF Return, ServerTypeOK
  <2>. QED BY <1>13, <2>1 DEF Return, NetworkTypeOK, ServerTypeOK
<1>14. ASSUME NEW s \in Stream, Receive(s) \/ ReceiveClosed(s), UNCHANGED open PROVE TypeOK'
  <2>1. /\ taken' \in [Stream -> Nat]
        /\ forwarder' \in [Stream ->
             {"none", "receiving", "sending", "unregister", "completing", "done"}]
    BY <1>14 DEF Receive, ReceiveClosed, ServerTypeOK
  <2>. QED BY <1>14, <2>1 DEF Receive, ReceiveClosed, network, NetworkTypeOK, ServerTypeOK
<1>15. ASSUME NEW s \in Stream, Unregister(s), UNCHANGED open PROVE TypeOK'
  <2>1. /\ streams' \in [Id -> Stream \cup {0}]
        /\ forwarder' \in [Stream ->
             {"none", "receiving", "sending", "unregister", "completing", "done"}]
    BY <1>15 DEF Unregister, ServerTypeOK
  <2>. QED BY <1>15, <2>1 DEF Unregister, network, NetworkTypeOK, ServerTypeOK
<1>16. ASSUME NEW s \in Stream, LockToWrite(s), UNCHANGED open PROVE TypeOK'
  BY <1>16 DEF LockToWrite, network, NetworkTypeOK, ServerTypeOK
<1>17. ASSUME NEW s \in Stream, WriteData(s) \/ WriteComplete(s), UNCHANGED open
       PROVE  TypeOK'
  <2>1. /\ written' \in [Stream -> Nat]
        /\ cancelled' \in [Stream -> BOOLEAN]
        /\ forwarder' \in [Stream ->
             {"none", "receiving", "sending", "unregister", "completing", "done"}]
    <3>1. CASE WriteData(s)
      BY <3>1 DEF WriteData, ServerTypeOK
    <3>2. CASE WriteComplete(s)
      BY <3>2 DEF WriteComplete, ServerTypeOK
    <3>. QED BY <1>17, <3>1, <3>2
  <2>2. idOf[s] \in Id
    <3>1. s <= started
      BY <1>0, <1>17 DEF WriteData, WriteComplete, StartInv, ServerTypeOK
    <3>. QED BY <3>1 DEF StartInv
  <2>3. toClient' \in Seq(ToClient)
    <3>1. taken[s] \in Nat
      BY DEF ServerTypeOK
    <3>2. /\ Reply("data", idOf[s], s, taken[s]) \in ToClient
          /\ Reply("complete", idOf[s], s, 0) \in ToClient
      BY <2>2, <3>1, MessagesTyped
    <3>. QED BY <1>17, <3>2, WrittenTyped DEF WriteData, WriteComplete
  <2>4. mu' = 0
    BY <1>17 DEF WriteData, WriteComplete
  <2>. QED BY <1>17, <2>1, <2>3, <2>4 DEF WriteData, WriteComplete, NetworkTypeOK, ServerTypeOK
<1>18. ASSUME NEW s \in Stream, Produce(s) \/ CloseSource(s), UNCHANGED open PROVE TypeOK'
  <2>1. produced' \in [Stream -> Nat] /\ sourceClosed' \in [Stream -> BOOLEAN]
    <3>1. CASE Produce(s)
      BY <3>1 DEF Produce, ServerTypeOK
    <3>2. CASE CloseSource(s)
      BY <3>2 DEF CloseSource, ServerTypeOK
    <3>. QED BY <1>18, <3>1, <3>2
  <2>. QED BY <1>18, <2>1 DEF Produce, CloseSource, network, NetworkTypeOK, ServerTypeOK
<1>19. CASE UNCHANGED vars
  BY <1>19 DEF vars, network, serverVars, NetworkTypeOK, ServerTypeOK
<1>. QED
  BY <1>2, <1>3, <1>4, <1>5, <1>6, <1>7, <1>8, <1>9, <1>10, <1>11, <1>12, <1>13, <1>14, <1>15,
     <1>16, <1>17, <1>18, <1>19, <1>20, <1>21, <1>22
  DEF Next, Client, ServerNext, Loop, Forwarder, Engine

-----------------------------------------------------------------------------
(* Streams are numbered as they are started.                               *)

LEMMA StreamFacts == Stream = 1..MaxStreams /\ MaxStreams \in Nat /\ NoId \notin Id
BY NetworkAssumption DEF Stream

\* A stream that has a forwarder, or that the engine works for, was started.
LEMMA StartedWhenForwarded ==
  ASSUME TypeOK, StartInv, NEW s \in Stream, forwarder[s] # "none" \/ s <= started
  PROVE  s <= started /\ idOf[s] \in Id
<1>1. s \in Nat /\ started \in Nat
  BY StreamFacts DEF TypeOK, ServerTypeOK
<1>2. s <= started
  BY <1>1 DEF StartInv
<1>. QED BY <1>2 DEF StartInv

LEMMA StartStep == TypeOK /\ StartInv /\ [Next]_vars => StartInv'
<1>. SUFFICES ASSUME TypeOK, StartInv, [Next]_vars PROVE StartInv'
  OBVIOUS
<1>. USE DEF sources
<1>0. started \in Nat /\ \A s \in Stream : s \in Nat
  BY StreamFacts DEF TypeOK, ServerTypeOK
<1>1. CASE UNCHANGED <<loop, started, idOf, forwarder, sources, taken, written>>
  BY <1>1 DEF StartInv
<1>2. CASE (Handshake \/ PanicOnId \/ ReadFails \/ Return) /\ UNCHANGED open
  <2>1. loop' # "starting" /\ UNCHANGED <<started, idOf, forwarder, sources, taken, written>>
    BY <1>2 DEF Handshake, PanicOnId, ReadFails, Return
  <2>. QED BY <2>1 DEF StartInv
<1>3. CASE ReadStart
  <2>1. started' = started + 1 /\ started' \in Stream
    BY <1>3, StreamFacts, <1>0 DEF ReadStart
  <2>2. Head(toServer).id \in Id
    BY <1>3, HeadTyped DEF ReadStart, TypeOK
  <2>3. idOf' = [idOf EXCEPT ![started'] = Head(toServer).id]
    BY <1>3, <2>1 DEF ReadStart
  <2>4. UNCHANGED <<forwarder, sources, taken, written>>
    BY <1>3 DEF ReadStart
  <2>5. \A s \in Stream : s <= started' => idOf'[s] \in Id
    <3>. SUFFICES ASSUME NEW s \in Stream, s <= started' PROVE idOf'[s] \in Id
      OBVIOUS
    <3>1. CASE s = started'
      BY <2>2, <2>3, <3>1 DEF TypeOK, ServerTypeOK
    <3>2. CASE s # started'
      <4>1. s <= started
        BY <1>0, <2>1, <3>2
      <4>. QED BY <2>3, <3>2, <4>1 DEF StartInv, TypeOK, ServerTypeOK
    <3>. QED BY <3>1, <3>2
  <2>6. \A s \in Stream : s > started' => s > started /\ idOf'[s] = idOf[s]
    BY <1>0, <2>1, <2>3 DEF TypeOK, ServerTypeOK
  <2>7. started' # 0 /\ forwarder'[started'] = "none"
    BY <1>0, <2>1, <2>4 DEF StartInv
  <2>. QED BY <2>4, <2>5, <2>6, <2>7 DEF StartInv
<1>4. CASE Register
  <2>1. started \in Stream /\ loop' # "starting"
    BY <1>4 DEF Register, StartInv, TypeOK, ServerTypeOK
  <2>2. forwarder' = [forwarder EXCEPT ![started] = "receiving"]
    BY <1>4 DEF Register
  <2>3. \A s \in Stream : s > started => forwarder'[s] = forwarder[s]
    BY <1>0, <2>1, <2>2 DEF TypeOK, ServerTypeOK
  <2>4. UNCHANGED <<started, idOf, sources, taken, written>>
    BY <1>4 DEF Register
  <2>. QED BY <2>1, <2>3, <2>4 DEF StartInv
<1>5. ASSUME NEW t \in Stream, Forwarder(t) \/ Engine(t) PROVE StartInv'
  <2>1. t <= started
    <3>1. forwarder[t] # "none" \/ t <= started
      BY <1>5 DEF Forwarder, Engine, Receive, ReceiveClosed, Unregister, MarshalFails,
                  LockToWrite, WriteData, WriteComplete, Produce, CloseSource
    <3>. QED BY <3>1, StartedWhenForwarded
  <2>2. forwarder[t] # "none" \/ UNCHANGED forwarder
    BY <1>5 DEF Forwarder, Engine, Receive, ReceiveClosed, Unregister, MarshalFails, LockToWrite,
                WriteData, WriteComplete, Produce, CloseSource
  <2>3. UNCHANGED <<started, idOf>> /\ (loop' = loop \/ loop' = "dead")
    BY <1>5 DEF Forwarder, Engine, Receive, ReceiveClosed, Unregister, MarshalFails, LockToWrite,
                WriteData, WriteComplete, Produce, CloseSource
  <2>4. \A s \in Stream : s # t =>
          /\ forwarder'[s] = forwarder[s] /\ sourceClosed'[s] = sourceClosed[s]
          /\ produced'[s] = produced[s] /\ taken'[s] = taken[s] /\ written'[s] = written[s]
    BY <1>5 DEF Forwarder, Engine, Receive, ReceiveClosed, Unregister, MarshalFails, LockToWrite,
                WriteData, WriteComplete, Produce, CloseSource, TypeOK, ServerTypeOK
  <2>5. \A s \in Stream : s > started => s # t
    BY <1>0, <2>1
  <2>6. loop' = "starting" => started' # 0 /\ forwarder'[started'] = "none"
    <3>. SUFFICES ASSUME loop = "starting" PROVE started # 0 /\ forwarder'[started] = "none"
      BY <2>3
    <3>1. started # 0 /\ started \in Stream /\ forwarder[started] = "none"
      BY DEF StartInv, TypeOK, ServerTypeOK
    <3>. QED BY <2>2, <2>4, <3>1
  <2>. QED BY <2>3, <2>4, <2>5, <2>6 DEF StartInv
<1>6. ReadStop \/ ReadOther => UNCHANGED <<loop, started, idOf, forwarder, sources, taken, written>>
  BY DEF ReadStop, ReadOther, serverVars
<1>7. Client => UNCHANGED <<loop, started, idOf, forwarder, sources, taken, written>>
  BY DEF Client, ClientStart, ClientStop, ClientNames, ClientSays, ClientSend, ClientRead,
         serverVars
<1>8. UNCHANGED vars => UNCHANGED <<loop, started, idOf, forwarder, sources, taken, written>>
  BY DEF vars, serverVars
<1>. QED
  BY <1>1, <1>2, <1>3, <1>4, <1>5, <1>6, <1>7, <1>8 DEF Next, ServerNext, Loop

-----------------------------------------------------------------------------
(* Responses are counted.                                                  *)

LEMMA CountStep == TypeOK /\ StartInv /\ CountInv /\ [Next]_vars => CountInv'
<1>. SUFFICES ASSUME TypeOK, StartInv, CountInv, [Next]_vars PROVE CountInv'
  OBVIOUS
<1>. USE DEF sources
<1>1. ASSUME UNCHANGED <<forwarder, sources, taken, written>>,
             connected' = connected \/ connected' = FALSE
      PROVE  CountInv'
  BY <1>1 DEF CountInv
<1>2. CASE Register
  <2>1. started \in Stream /\ forwarder[started] = "none"
    BY <1>2 DEF Register, StartInv, TypeOK, ServerTypeOK
  <2>. QED BY <1>2, <2>1 DEF Register, network, CountInv, TypeOK, ServerTypeOK
<1>3. ASSUME NEW t \in Stream, Forwarder(t) \/ Engine(t) PROVE CountInv'
  <2>. SUFFICES ASSUME NEW s \in Stream
                PROVE  /\ taken'[s] <= produced'[s]
                       /\ forwarder'[s] = "sending" => taken'[s] > 0
                       /\ forwarder'[s] \in {"unregister", "completing", "done"} =>
                            sourceClosed'[s] /\ taken'[s] = produced'[s]
                       /\ connected' =>
                            written'[s]
                              = taken'[s] - (IF forwarder'[s] = "sending" THEN 1 ELSE 0)
    BY DEF CountInv
  <2>0. /\ taken[s] \in Nat /\ produced[s] \in Nat /\ written[s] \in Nat
        /\ connected \in BOOLEAN /\ (connected' => connected)
        /\ forwarder[s] \in {"none", "receiving", "sending", "unregister", "completing", "done"}
    BY <1>3 DEF TypeOK, ServerTypeOK, NetworkTypeOK, network, Forwarder, Engine, Receive,
                ReceiveClosed, Unregister, MarshalFails, LockToWrite, WriteData, WriteComplete,
                Produce, CloseSource
  <2>1. CASE s # t
    <3>1. /\ forwarder'[s] = forwarder[s] /\ sourceClosed'[s] = sourceClosed[s]
          /\ produced'[s] = produced[s] /\ taken'[s] = taken[s] /\ written'[s] = written[s]
      BY <1>3, <2>1 DEF Forwarder, Engine, Receive, ReceiveClosed, Unregister, MarshalFails,
                  LockToWrite, WriteData, WriteComplete, Produce, CloseSource, TypeOK,
                  ServerTypeOK
    <3>. QED BY <2>0, <3>1 DEF CountInv
  <2>2. CASE s = t
    <3>1. CASE Receive(s)
      BY <2>0, <3>1 DEF Receive, CountInv, TypeOK, ServerTypeOK
    <3>2. CASE ReceiveClosed(s)
      BY <2>0, <3>2 DEF ReceiveClosed, CountInv, TypeOK, ServerTypeOK
    <3>3. CASE Unregister(s)
      BY <2>0, <3>3 DEF Unregister, CountInv, TypeOK, ServerTypeOK
    <3>0. CASE MarshalFails(s)
      BY <2>0, <3>0 DEF MarshalFails, CountInv
    <3>4. CASE LockToWrite(s)
      BY <2>0, <3>4 DEF LockToWrite, CountInv
    <3>5. CASE WriteData(s)
      BY <2>0, <3>5 DEF WriteData, CountInv, TypeOK, ServerTypeOK
    <3>6. CASE WriteComplete(s)
      BY <2>0, <3>6 DEF WriteComplete, CountInv, TypeOK, ServerTypeOK
    <3>7. CASE Produce(s)
      BY <2>0, <3>7 DEF Produce, CountInv, TypeOK, ServerTypeOK
    <3>8. CASE CloseSource(s)
      BY <2>0, <3>8 DEF CloseSource, CountInv, TypeOK, ServerTypeOK
    <3>. QED BY <1>3, <2>2, <3>0, <3>1, <3>2, <3>3, <3>4, <3>5, <3>6, <3>7, <3>8
             DEF Forwarder, Engine
  <2>. QED BY <2>1, <2>2
<1>4. Client => /\ UNCHANGED <<forwarder, sources, taken, written>>
                /\ connected' = connected \/ connected' = FALSE
  BY DEF Client, ClientStart, ClientStop, ClientNames, ClientSays, ClientSend, ClientRead,
         Disconnect, serverVars
<1>5. Loop => \/ Register
              \/ /\ UNCHANGED <<forwarder, sources, taken, written>>
                 /\ connected' = connected \/ connected' = FALSE
  BY DEF Loop, Handshake, ReadStart, ReadStop, PanicOnId, ReadOther, ReadFails, Return, serverVars
<1>6. UNCHANGED vars => UNCHANGED <<forwarder, sources, taken, written, connected>>
  BY DEF vars, serverVars, network
<1>. QED BY <1>1, <1>2, <1>3, <1>4, <1>5, <1>6 DEF Next, ServerNext

-----------------------------------------------------------------------------
(* Messages and their streams.                                             *)

\* What a channel holds after a write.
LEMMA WrittenElements ==
  ASSUME NetworkTypeOK, NEW m \in ToClient, toClient' = Written(toClient, m)
  PROVE  \A p \in 1..Len(toClient') :
           \/ p \in 1..Len(toClient) /\ toClient'[p] = toClient[p]
           \/ p = Len(toClient) + 1 /\ toClient'[p] = m
<1>1. CASE connected
  <2>1. toClient' = Append(toClient, m)
    BY <1>1 DEF Written
  <2>. QED BY <2>1, AppendElements DEF NetworkTypeOK
<1>2. CASE ~connected
  BY <1>2 DEF Written
<1>. QED BY <1>1, <1>2 DEF NetworkTypeOK

\* Messages that are on the way stay valid while streams are started and go on.
LEMMA MessagesKept ==
  ASSUME TypeOK, StartInv, MessageInv,
         toClient' = toClient,
         started' \in Nat, started' >= started,
         \A s \in Stream : s <= started => idOf'[s] = idOf[s],
         \A s \in Stream : forwarder[s] = "done" => forwarder'[s] = "done"
  PROVE  MessageInv'
<1>1. started \in Nat /\ \A s \in Stream : s \in Nat
  BY StreamFacts DEF TypeOK, ServerTypeOK
<1>. SUFFICES ASSUME NEW p \in 1..Len(toClient), toClient[p].stream # 0
              PROVE  LET m == toClient[p] IN
                     /\ m.stream <= started' /\ m.id = idOf'[m.stream]
                     /\ m.type = "complete" =>
                          /\ forwarder'[m.stream] = "done"
                          /\ \A q \in 1..Len(toClient) : toClient[q].stream = m.stream => q <= p
  BY DEF MessageInv
<1>2. toClient[p] \in ToClient
  BY DEF TypeOK, NetworkTypeOK
<1>3. toClient[p].stream \in Stream
  BY <1>2 DEF ToClient
<1>. QED BY <1>1, <1>3 DEF MessageInv

\* A forwarder writes a message under its own id.
LEMMA MessageWritten ==
  ASSUME TypeOK, StartInv, MessageInv, NEW t \in Stream, WriteData(t) \/ WriteComplete(t)
  PROVE  MessageInv'
<1>1. t <= started /\ idOf[t] \in Id /\ forwarder[t] # "done"
  BY StartedWhenForwarded DEF WriteData, WriteComplete
<1>2. PICK m \in ToClient :
        /\ toClient' = Written(toClient, m)
        /\ m.stream = t /\ m.id = idOf[t]
        /\ m.type = "complete" => forwarder'[t] = "done"
  <2>1. taken[t] \in Nat
    BY DEF TypeOK, ServerTypeOK
  <2>2. /\ Reply("data", idOf[t], t, taken[t]) \in ToClient
        /\ Reply("complete", idOf[t], t, 0) \in ToClient
    BY <1>1, <2>1, MessagesTyped
  <2>3. CASE WriteData(t)
    BY <2>2, <2>3 DEF WriteData, Reply
  <2>4. CASE WriteComplete(t)
    BY <2>2, <2>4 DEF WriteComplete, Reply, TypeOK, ServerTypeOK
  <2>. QED BY <2>3, <2>4
<1>3. UNCHANGED <<started, idOf>>
  BY DEF WriteData, WriteComplete
<1>4. \A s \in Stream : forwarder[s] = "done" => forwarder'[s] = "done"
  BY <1>1 DEF WriteData, WriteComplete, TypeOK, ServerTypeOK
<1>5. \A p \in 1..Len(toClient') :
        \/ p \in 1..Len(toClient) /\ toClient'[p] = toClient[p]
        \/ p = Len(toClient) + 1 /\ toClient'[p] = m
  BY <1>2, WrittenElements DEF TypeOK
<1>6. toClient \in Seq(ToClient) /\ Len(toClient) \in Nat /\ t # 0
  BY StreamFacts DEF TypeOK, NetworkTypeOK
<1>. SUFFICES ASSUME NEW p \in 1..Len(toClient'), toClient'[p].stream # 0
              PROVE  /\ toClient'[p].stream <= started
                     /\ toClient'[p].id = idOf[toClient'[p].stream]
                     /\ toClient'[p].type = "complete" =>
                          /\ forwarder'[toClient'[p].stream] = "done"
                          /\ \A q \in 1..Len(toClient') :
                               toClient'[q].stream = toClient'[p].stream => q <= p
  BY <1>3 DEF MessageInv
<1>7. CASE p \in 1..Len(toClient) /\ toClient'[p] = toClient[p]
  <2>1. toClient[p] \in ToClient
    BY <1>6, <1>7
  <2>2. toClient[p].stream \in Stream
    BY <1>7, <2>1 DEF ToClient
  <2>3. ASSUME toClient[p].type = "complete", NEW q \in 1..Len(toClient'),
               toClient'[q].stream = toClient[p].stream
        PROVE  q <= p
    <3>1. toClient[p].stream # t
      BY <1>1, <1>7, <2>3 DEF MessageInv
    <3>2. q \in 1..Len(toClient) /\ toClient'[q] = toClient[q]
      BY <1>2, <1>5, <2>3, <3>1
    <3>. QED BY <1>7, <2>3, <3>2 DEF MessageInv
  <2>. QED BY <1>4, <1>7, <2>2, <2>3 DEF MessageInv
<1>8. CASE p = Len(toClient) + 1 /\ toClient'[p] = m
  <2>1. \A q \in 1..Len(toClient') : q <= p
    BY <1>5, <1>6, <1>8
  <2>. QED BY <1>1, <1>2, <1>8, <2>1
<1>. QED BY <1>5, <1>7, <1>8

LEMMA MessageStep == TypeOK /\ StartInv /\ MessageInv /\ [Next]_vars => MessageInv'
<1>. SUFFICES ASSUME TypeOK, StartInv, MessageInv, [Next]_vars PROVE MessageInv'
  OBVIOUS
<1>. USE DEF sources
<1>0. started \in Nat /\ \A s \in Stream : s \in Nat
  BY StreamFacts DEF TypeOK, ServerTypeOK
<1>1. CASE UNCHANGED <<toClient, started, idOf, forwarder>>
  BY <1>0, <1>1, MessagesKept
<1>2. CASE ClientRead
  <2>1. UNCHANGED <<started, idOf, forwarder>>
    BY <1>2 DEF ClientRead, serverVars
  <2>2. /\ Len(toClient') = Len(toClient) - 1 /\ Len(toClient) \in Nat
        /\ \A p \in 1..Len(toClient') :
             toClient'[p] = toClient[p + 1] /\ p + 1 \in 1..Len(toClient)
    BY <1>2, TailElements DEF ClientRead, TypeOK, NetworkTypeOK
  <2>. SUFFICES ASSUME NEW p \in 1..Len(toClient'), toClient'[p].stream # 0
                PROVE  /\ toClient'[p].stream <= started
                       /\ toClient'[p].id = idOf[toClient'[p].stream]
                       /\ toClient'[p].type = "complete" =>
                            /\ forwarder[toClient'[p].stream] = "done"
                            /\ \A q \in 1..Len(toClient') :
                                 toClient'[q].stream = toClient'[p].stream => q <= p
    BY <2>1 DEF MessageInv
  <2>3. ASSUME toClient'[p].type = "complete", NEW q \in 1..Len(toClient'),
               toClient'[q].stream = toClient'[p].stream
        PROVE  q <= p
    <3>1. q + 1 <= p + 1
      BY <2>2, <2>3 DEF MessageInv
    <3>. QED BY <2>2, <3>1
  <2>. QED BY <2>2, <2>3 DEF MessageInv
<1>3. CASE Handshake
  <2>1. UNCHANGED <<started, idOf, forwarder>>
    BY <1>3 DEF Handshake
  <2>2. CASE UNCHANGED toClient
    BY <1>1, <2>1, <2>2
  <2>3. ASSUME NEW m \in ToClient, m.stream = 0, toClient' = Written(toClient, m)
        PROVE  MessageInv'
    <3>1. \A p \in 1..Len(toClient') :
            \/ p \in 1..Len(toClient) /\ toClient'[p] = toClient[p]
            \/ p = Len(toClient) + 1 /\ toClient'[p] = m
      BY <2>3, WrittenElements DEF TypeOK
    <3>. QED BY <2>1, <2>3, <3>1 DEF MessageInv
  <2>4. \/ UNCHANGED toClient
        \/ toClient' = Written(toClient, Reply("connection_ack", NoId, 0, 0))
        \/ toClient' = Written(toClient, Reply("connection_error", NoId, 0, 0))
    BY <1>3 DEF Handshake
  <2>5. /\ Reply("connection_ack", NoId, 0, 0).stream = 0
        /\ Reply("connection_error", NoId, 0, 0).stream = 0
    BY DEF Reply
  <2>. QED BY <2>2, <2>3, <2>4, <2>5, MessagesTyped
<1>4. CASE ReadStart
  <2>1. started' = started + 1 /\ UNCHANGED <<toClient, forwarder>>
    BY <1>4 DEF ReadStart
  <2>2. \A s \in Stream : s <= started => idOf'[s] = idOf[s]
    BY <1>0, <1>4 DEF ReadStart, TypeOK, ServerTypeOK
  <2>. QED BY <1>0, <2>1, <2>2, MessagesKept
<1>5. CASE Register
  <2>1. UNCHANGED <<toClient, started, idOf>>
    BY <1>5 DEF Register, network
  <2>2. \A s \in Stream : forwarder[s] = "done" => forwarder'[s] = "done"
    BY <1>5 DEF Register, StartInv, TypeOK, ServerTypeOK
  <2>. QED BY <1>0, <2>1, <2>2, MessagesKept
<1>6. ASSUME NEW t \in Stream, Forwarder(t) \/ Engine(t) PROVE MessageInv'
  <2>1. CASE WriteData(t) \/ WriteComplete(t)
    BY <2>1, MessageWritten
  <2>2. CASE ~(WriteData(t) \/ WriteComplete(t))
    <3>1. UNCHANGED <<toClient, started, idOf>>
      BY <1>6, <2>2 DEF Forwarder, Engine, Receive, ReceiveClosed, Unregister, MarshalFails,
                  LockToWrite, Produce, CloseSource, network
    <3>2. \A s \in Stream : forwarder[s] = "done" => forwarder'[s] = "done"
      BY <1>6, <2>2 DEF Forwarder, Engine, Receive, ReceiveClosed, Unregister, MarshalFails,
                  LockToWrite, Produce, CloseSource, TypeOK, ServerTypeOK
    <3>. QED BY <1>0, <3>1, <3>2, MessagesKept
  <2>. QED BY <2>1, <2>2
<1>7. Client => ClientRead \/ UNCHANGED <<toClient, started, idOf, forwarder>>
  BY DEF Client, ClientStart, ClientStop, ClientNames, ClientSays, ClientSend, Disconnect,
         serverVars
<1>8. ReadStop \/ PanicOnId \/ ReadOther \/ ReadFails \/ Return =>
        UNCHANGED <<toClient, started, idOf, forwarder>>
  BY DEF ReadStop, PanicOnId, ReadOther, ReadFails, Return, serverVars
<1>9. UNCHANGED vars => UNCHANGED <<toClient, started, idOf, forwarder>>
  BY DEF vars, serverVars, network
<1>. QED
  BY <1>1, <1>2, <1>3, <1>4, <1>5, <1>6, <1>7, <1>8, <1>9 DEF Next, ServerNext, Loop

-----------------------------------------------------------------------------
(* The use of ids.                                                         *)

\* The part of UseInv about the messages to the server.
StartsInv ==
  \A q \in 1..Len(toServer) : Starts(toServer[q]) =>
    /\ toServer[q].id \in open
    /\ \A s \in Stream : InUse(s) => idOf[s] # toServer[q].id
    /\ \A r \in 1..Len(toServer) :
         Starts(toServer[r]) /\ toServer[r].id = toServer[q].id => r = q

\* Steps after which no more streams are in use, and no more messages unread.
LEMMA UseShrinks ==
  ASSUME TypeOK, UseInv,
         UNCHANGED <<idOf, open>>,
         \A s \in Stream : InUse(s)' => InUse(s),
         toServer' = toServer \/ (toServer # <<>> /\ toServer' = Tail(toServer))
  PROVE  UseInv'
<1>1. StartsInv'
  <2>1. CASE toServer' = toServer
    BY <2>1 DEF StartsInv, UseInv
  <2>2. CASE toServer # <<>> /\ toServer' = Tail(toServer)
    <3>1. /\ \A p \in 1..Len(toServer') :
               toServer'[p] = toServer[p + 1] /\ p + 1 \in 1..Len(toServer)
          /\ Len(toServer') = Len(toServer) - 1 /\ Len(toServer) \in Nat
      BY <2>2, TailElements DEF TypeOK, NetworkTypeOK
    <3>2. ASSUME NEW q \in 1..Len(toServer'), Starts(toServer'[q]),
                 NEW r \in 1..Len(toServer'), Starts(toServer'[r]),
                 toServer'[r].id = toServer'[q].id
          PROVE  r = q
      <4>1. r + 1 = q + 1
        BY <3>1, <3>2 DEF UseInv, Starts
      <4>. QED BY <3>1, <4>1
    <3>. QED BY <3>1, <3>2 DEF StartsInv, UseInv
  <2>. QED BY <2>1, <2>2
<1>. QED BY <1>1 DEF UseInv, StartsInv

\* A step of a forwarder or of the engine starts no stream, and writes only for a stream in
\* use.
LEMMA ForwarderUses ==
  ASSUME TypeOK, StartInv, NEW t \in Stream, Forwarder(t) \/ Engine(t)
  PROVE  /\ UNCHANGED <<idOf, toServer>>
         /\ \A s \in Stream : InUse(s)' => InUse(s)
<1>. USE DEF sources
<1>1. UNCHANGED <<idOf, toServer, started>>
  BY DEF Forwarder, Engine, Receive, ReceiveClosed, Unregister, MarshalFails, LockToWrite,
         WriteData, WriteComplete, Produce, CloseSource, network
<1>2. \A s \in Stream : forwarder[s] = "done" => forwarder'[s] = "done"
  BY DEF Forwarder, Engine, Receive, ReceiveClosed, Unregister, MarshalFails, LockToWrite,
         WriteData, WriteComplete, Produce, CloseSource, TypeOK, ServerTypeOK
<1>3. ASSUME NEW s \in Stream, OnTheWay(s)', ~OnTheWay(s) PROVE InUse(s)
  <2>1. toClient' # toClient
    BY <1>3 DEF OnTheWay
  <2>2. WriteData(t) \/ WriteComplete(t)
    BY <2>1 DEF Forwarder, Engine, Receive, ReceiveClosed, Unregister, MarshalFails,
                LockToWrite, Produce, CloseSource, network
  <2>3. t <= started /\ idOf[t] \in Id /\ forwarder[t] # "done"
    BY <2>2, StartedWhenForwarded DEF WriteData, WriteComplete
  <2>4. PICK m \in ToClient : toClient' = Written(toClient, m) /\ m.stream = t
    <3>1. taken[t] \in Nat
      BY DEF TypeOK, ServerTypeOK
    <3>2. /\ Reply("data", idOf[t], t, taken[t]) \in ToClient
          /\ Reply("complete", idOf[t], t, 0) \in ToClient
      BY <2>3, <3>1, MessagesTyped
    <3>. QED BY <2>2, <3>2 DEF WriteData, WriteComplete, Reply
  <2>5. s = t
    BY <1>3, <2>4, WrittenElements DEF OnTheWay, TypeOK
  <2>. QED BY <2>3, <2>5 DEF InUse
<1>. QED BY <1>1, <1>2, <1>3 DEF InUse

\* The client starts an operation under an id that it does not use.
LEMMA UseClientStart ==
  ASSUME TypeOK, UseInv, NEW i \in Id, ClientStart(i)
  PROVE  UseInv'
<1>. DEFINE m == [type |-> "start", id |-> i]
<1>1. /\ i \notin open /\ open' = open \cup {i}
      /\ toServer' = Append(toServer, m)
      /\ UNCHANGED <<toClient, started, idOf, forwarder>>
  BY DEF ClientStart, ClientSend, serverVars
<1>2. m \in ToServer /\ m.id = i
  BY MessagesTyped
<1>3. /\ Len(toServer') = Len(toServer) + 1 /\ Len(toServer) \in Nat
      /\ \A q \in 1..Len(toServer') :
           \/ q \in 1..Len(toServer) /\ toServer'[q] = toServer[q]
           \/ q = Len(toServer) + 1 /\ toServer'[q] = m
  BY <1>1, <1>2, AppendElements DEF TypeOK, NetworkTypeOK
<1>4. \A s \in Stream : InUse(s)' <=> InUse(s)
  BY <1>1 DEF InUse, OnTheWay
<1>5. StartsInv'
  <2>. SUFFICES ASSUME NEW q \in 1..Len(toServer'), Starts(toServer'[q])
                PROVE  /\ toServer'[q].id \in open'
                       /\ \A s \in Stream : InUse(s) => idOf[s] # toServer'[q].id
                       /\ \A r \in 1..Len(toServer') :
                            Starts(toServer'[r]) /\ toServer'[r].id = toServer'[q].id
                            => r = q
    BY <1>1, <1>4 DEF StartsInv
  <2>. HIDE DEF m
  <2>1. CASE q \in 1..Len(toServer) /\ toServer'[q] = toServer[q]
    <3>1. toServer[q].id \in open
      BY <2>1 DEF UseInv
    <3>. QED BY <1>1, <1>2, <1>3, <2>1, <3>1 DEF UseInv
  <2>2. CASE q = Len(toServer) + 1 /\ toServer'[q] = m
    <3>1. \A s \in Stream : InUse(s) => idOf[s] # i
      BY <1>1 DEF UseInv
    <3>2. \A r \in 1..Len(toServer) : Starts(toServer[r]) => toServer[r].id # i
      BY <1>1 DEF UseInv
    <3>. QED BY <1>1, <1>2, <1>3, <2>2, <3>1, <3>2
  <2>. QED BY <1>3, <2>1, <2>2
<1>. QED BY <1>1, <1>4, <1>5 DEF UseInv, StartsInv

\* The client sends anything else.
LEMMA UseClientSend ==
  ASSUME TypeOK, UseInv, NEW m \in ToServer, ~Starts(m), ClientSend(m), UNCHANGED open
  PROVE  UseInv'
<1>1. toServer' = Append(toServer, m) /\ UNCHANGED <<toClient, started, idOf, forwarder>>
  BY DEF ClientSend, serverVars
<1>2. \A q \in 1..Len(toServer') : Starts(toServer'[q]) =>
        q \in 1..Len(toServer) /\ toServer'[q] = toServer[q]
  BY <1>1, AppendElements DEF TypeOK, NetworkTypeOK
<1>3. \A s \in Stream : InUse(s)' <=> InUse(s)
  BY <1>1 DEF InUse, OnTheWay
<1>4. StartsInv'
  BY <1>1, <1>2, <1>3 DEF StartsInv, UseInv
<1>. QED BY <1>1, <1>3, <1>4 DEF UseInv, StartsInv

\* The client reads, and may regard the id of an operation that is complete as free.
LEMMA UseClientRead ==
  ASSUME TypeOK, StartInv, UseInv, MessageInv, ClientRead
  PROVE  UseInv'
<1>1. /\ UNCHANGED <<toServer, started, idOf, forwarder>>
      /\ toClient # <<>> /\ toClient' = Tail(toClient)
  BY DEF ClientRead, serverVars
<1>2. /\ Len(toClient') = Len(toClient) - 1 /\ Len(toClient) \in Nat \ {0}
      /\ Head(toClient) = toClient[1] /\ Head(toClient) \in ToClient
      /\ \A p \in 1..Len(toClient') : toClient'[p] = toClient[p + 1] /\ p + 1 \in 1..Len(toClient)
  BY <1>1, TailElements DEF TypeOK, NetworkTypeOK
<1>3. \A s \in Stream : InUse(s)' => InUse(s)
  BY <1>1, <1>2 DEF InUse, OnTheWay
<1>4. CASE UNCHANGED open
  BY <1>1, <1>3, <1>4, UseShrinks
<1>5. CASE Head(toClient).type = "complete" /\ open' = open \ {Head(toClient).id}
  <2>1. PICK h \in Stream : h = Head(toClient).stream /\ h # 0
    BY <1>2, <1>5, StreamFacts DEF ToClient
  <2>2. /\ h <= started /\ Head(toClient).id = idOf[h] /\ forwarder[h] = "done"
        /\ \A q \in 1..Len(toClient) : toClient[q].stream = h => q <= 1
    BY <1>2, <1>5, <2>1 DEF MessageInv
  <2>3. InUse(h) /\ ~InUse(h)'
    <3>1. OnTheWay(h)
      <4>1. 1 \in 1..Len(toClient) /\ toClient[1].stream = h
        BY <1>2, <2>1
      <4>. QED BY <4>1 DEF OnTheWay
    <3>2. ~OnTheWay(h)'
      BY <1>2, <2>2 DEF OnTheWay
    <3>. QED BY <1>1, <2>2, <3>1, <3>2 DEF InUse
  <2>4. ASSUME NEW s \in Stream, InUse(s)' PROVE idOf[s] \in open'
    <3>1. s # h /\ InUse(s) /\ s \in Nat /\ h \in Nat
      BY <1>3, <2>1, <2>3, <2>4, StreamFacts
    <3>2. idOf[s] # idOf[h]
      BY <2>1, <2>3, <3>1 DEF UseInv
    <3>. QED BY <1>5, <2>2, <3>1, <3>2 DEF UseInv
  <2>5. \A q \in 1..Len(toServer) : Starts(toServer[q]) => toServer[q].id # idOf[h]
    BY <2>1, <2>3 DEF UseInv
  <2>6. StartsInv'
    BY <1>1, <1>3, <1>5, <2>2, <2>5 DEF StartsInv, UseInv
  <2>. QED BY <1>1, <1>3, <2>4, <2>6 DEF UseInv, StartsInv
<1>. QED BY <1>4, <1>5 DEF ClientRead

\* The server starts the stream of a "start".
LEMMA UseReadStart ==
  ASSUME TypeOK, StartInv, UseInv, MessageInv, ReadStart, UNCHANGED open
  PROVE  UseInv'
<1>0. started \in Nat /\ \A s \in Stream : s \in Nat
  BY StreamFacts DEF TypeOK, ServerTypeOK
<1>1. PICK n \in Stream, i \in Id :
        /\ n = started + 1 /\ started' = n
        /\ i = Head(toServer).id
        /\ idOf' = [idOf EXCEPT ![n] = i]
  <2>1. started + 1 \in Stream
    BY <1>0, StreamFacts DEF ReadStart
  <2>2. Head(toServer).id \in Id
    BY HeadTyped DEF ReadStart, TypeOK
  <2>. QED BY <2>1, <2>2 DEF ReadStart
<1>2. /\ UNCHANGED <<toClient, forwarder>>
      /\ toServer # <<>> /\ toServer' = Tail(toServer) /\ Starts(Head(toServer))
  BY DEF ReadStart, Starts
<1>3. /\ Len(toServer') = Len(toServer) - 1 /\ Len(toServer) \in Nat \ {0}
      /\ Head(toServer) = toServer[1]
      /\ \A p \in 1..Len(toServer') :
           toServer'[p] = toServer[p + 1] /\ p + 1 \in 1..Len(toServer)
  BY <1>2, TailElements DEF TypeOK, NetworkTypeOK
<1>4. /\ i \in open
      /\ \A s \in Stream : InUse(s) => idOf[s] # i
      /\ \A r \in 1..Len(toServer) :
           Starts(toServer[r]) /\ toServer[r].id = i => r = 1
  <2>1. 1 \in 1..Len(toServer) /\ Starts(toServer[1]) /\ toServer[1].id = i
    BY <1>1, <1>2, <1>3
  <2>. QED BY <2>1 DEF UseInv
<1>5. \A s \in Stream : s # n => (InUse(s)' => InUse(s)) /\ idOf'[s] = idOf[s]
  BY <1>0, <1>1, <1>2 DEF InUse, OnTheWay, TypeOK, ServerTypeOK
<1>6. idOf'[n] = i
  BY <1>1 DEF TypeOK, ServerTypeOK
<1>7. \A s \in Stream : InUse(s)' => idOf'[s] \in open
  BY <1>4, <1>5, <1>6 DEF UseInv
<1>8. ASSUME NEW s \in Stream, NEW t \in Stream, InUse(s)', s < t PROVE idOf'[t] # idOf'[s]
  <2>1. CASE s = n
    <3>1. idOf'[t] = NoId
      BY <1>0, <1>1, <1>5, <1>8, <2>1 DEF StartInv
    <3>. QED BY <1>6, <2>1, <3>1, StreamFacts
  <2>2. CASE s # n /\ t = n
    BY <1>4, <1>5, <1>6, <1>8, <2>2
  <2>3. CASE s # n /\ t # n
    BY <1>5, <1>8, <2>3 DEF UseInv
  <2>. QED BY <2>1, <2>2, <2>3
<1>9. StartsInv'
  <2>. SUFFICES ASSUME NEW q \in 1..Len(toServer'), Starts(toServer'[q])
                PROVE  /\ toServer'[q].id \in open
                       /\ \A s \in Stream : InUse(s)' => idOf'[s] # toServer'[q].id
                       /\ \A r \in 1..Len(toServer') :
                            Starts(toServer'[r]) /\ toServer'[r].id = toServer'[q].id
                            => r = q
    BY DEF StartsInv
  <2>1. q + 1 \in 1..Len(toServer) /\ toServer'[q] = toServer[q + 1] /\ q + 1 # 1
    BY <1>3
  <2>2. toServer[q + 1].id # i
    BY <1>4, <2>1
  <2>3. \A s \in Stream : InUse(s)' => idOf'[s] # toServer'[q].id
    BY <1>5, <1>6, <2>1, <2>2 DEF UseInv
  <2>4. ASSUME NEW r \in 1..Len(toServer'), Starts(toServer'[r]),
               toServer'[r].id = toServer'[q].id
        PROVE  r = q
    <3>0. /\ r + 1 \in 1..Len(toServer) /\ toServer'[r] = toServer[r + 1]
          /\ Starts(toServer[r + 1]) /\ Starts(toServer[q + 1])
          /\ toServer[r + 1].id = toServer[q + 1].id
      BY <1>3, <2>1, <2>4
    <3>1. r + 1 = q + 1
      BY <2>1, <3>0 DEF UseInv
    <3>. QED BY <3>1
  <2>. QED BY <2>1, <2>3, <2>4 DEF UseInv
<1>. QED BY <1>7, <1>8, <1>9 DEF UseInv, StartsInv

LEMMA UseStep ==
  TypeOK /\ StartInv /\ UseInv /\ MessageInv /\ [Next]_vars => UseInv'
<1>. SUFFICES ASSUME TypeOK, StartInv, UseInv, MessageInv, [Next]_vars PROVE UseInv'
  OBVIOUS
<1>. USE DEF sources
<1>1. ASSUME NEW i \in Id, ClientStart(i) PROVE UseInv'
  BY <1>1, UseClientStart
<1>2. ASSUME NEW i \in Id, ClientStop(i) PROVE UseInv'
  BY <1>2, MessagesTyped, UseClientSend DEF ClientStop, Starts
<1>3. ASSUME NEW type \in {"connection_init", "other", "malformed"}, ClientSays(type)
      PROVE  UseInv'
  BY <1>3, MessagesTyped, UseClientSend DEF ClientSays, Starts
<1>13. ASSUME NEW type \in {"start", "stop"}, ClientNames(type) PROVE UseInv'
  BY <1>13, MessagesTyped, UseClientSend DEF ClientNames, Starts
<1>4. CASE ClientRead
  BY <1>4, UseClientRead
<1>5. CASE ReadStart /\ UNCHANGED open
  BY <1>5, UseReadStart
<1>6. ASSUME NEW t \in Stream, Forwarder(t) \/ Engine(t), UNCHANGED open PROVE UseInv'
  BY <1>6, ForwarderUses, UseShrinks
<1>7. CASE Handshake /\ UNCHANGED open
  <2>1. UNCHANGED <<started, idOf, forwarder>> /\ toServer # <<>> /\ toServer' = Tail(toServer)
    BY <1>7 DEF Handshake
  <2>2. ASSUME NEW s \in Stream, OnTheWay(s)' PROVE OnTheWay(s)
    <3>0. s # 0
      BY StreamFacts
    <3>1. \/ UNCHANGED toClient
          \/ toClient' = Written(toClient, Reply("connection_ack", NoId, 0, 0))
          \/ toClient' = Written(toClient, Reply("connection_error", NoId, 0, 0))
      BY <1>7 DEF Handshake
    <3>2. /\ Reply("connection_ack", NoId, 0, 0).stream = 0
          /\ Reply("connection_error", NoId, 0, 0).stream = 0
      BY DEF Reply
    <3>3. ASSUME NEW m \in ToClient, m.stream = 0, toClient' = Written(toClient, m)
          PROVE  OnTheWay(s)
      BY <2>2, <3>0, <3>3, WrittenElements DEF OnTheWay, TypeOK
    <3>4. UNCHANGED toClient => OnTheWay(s)
      BY <2>2 DEF OnTheWay
    <3>. QED BY <3>1, <3>2, <3>3, <3>4, MessagesTyped
  <2>. QED BY <1>7, <2>1, <2>2, UseShrinks DEF InUse
<1>8. ASSUME UNCHANGED <<open, idOf, started, forwarder, toClient>>,
             toServer' = toServer \/ (toServer # <<>> /\ toServer' = Tail(toServer))
      PROVE  UseInv'
  <2>1. \A s \in Stream : InUse(s)' => InUse(s)
    BY <1>8 DEF InUse, OnTheWay
  <2>. QED BY <1>8, <2>1, UseShrinks
<1>9. CASE Register /\ UNCHANGED open
  <2>1. UNCHANGED <<idOf, started, toClient, toServer>>
    BY <1>9 DEF Register, network
  <2>2. \A s \in Stream : forwarder[s] = "done" => forwarder'[s] = "done"
    BY <1>9 DEF Register, StartInv, TypeOK, ServerTypeOK
  <2>. QED BY <1>9, <2>1, <2>2, UseShrinks DEF InUse, OnTheWay
<1>10. (ReadStop \/ PanicOnId \/ ReadOther \/ ReadFails \/ Return) =>
         /\ UNCHANGED <<idOf, started, forwarder, toClient>>
         /\ toServer' = toServer \/ (toServer # <<>> /\ toServer' = Tail(toServer))
  BY DEF ReadStop, PanicOnId, ReadOther, ReadFails, Return, serverVars
<1>11. Disconnect /\ UNCHANGED <<serverVars, open>> =>
         UNCHANGED <<open, idOf, started, forwarder, toClient, toServer>>
  BY DEF Disconnect, serverVars
<1>12. UNCHANGED vars => UNCHANGED <<open, idOf, started, forwarder, toClient, toServer>>
  BY DEF vars, serverVars, network
<1>. QED
  BY <1>1, <1>2, <1>3, <1>4, <1>5, <1>6, <1>7, <1>8, <1>9, <1>10, <1>11, <1>12, <1>13
  DEF Next, Client, ServerNext, Loop

-----------------------------------------------------------------------------
(* The table.                                                              *)

\* Two streams that are forwarded have different ids.
LEMMA ForwardedApart ==
  ASSUME TypeOK, StartInv, UseInv, NEW s \in Stream, NEW t \in Stream,
         s <= started, t <= started, forwarder[s] # "done", forwarder[t] # "done",
         idOf[s] = idOf[t]
  PROVE  s = t
<1>1. InUse(s) /\ InUse(t) /\ s \in Nat /\ t \in Nat
  BY StreamFacts DEF InUse
<1>2. ~(s < t) /\ ~(t < s)
  BY <1>1 DEF UseInv
<1>. QED BY <1>1, <1>2

LEMMA RegisteredStep ==
  TypeOK /\ StartInv /\ UseInv /\ RegisteredInv /\ [Next]_vars => RegisteredInv'
<1>. SUFFICES ASSUME TypeOK, StartInv, UseInv, RegisteredInv, [Next]_vars
              PROVE  RegisteredInv'
  OBVIOUS
<1>. USE DEF sources
<1>. DEFINE Held(s) == forwarder[s] \in {"receiving", "sending", "unregister"}
<1>0. started \in Nat /\ \A s \in Stream : s \in Nat
  BY StreamFacts DEF TypeOK, ServerTypeOK
<1>1. CASE UNCHANGED <<started, streams, idOf, forwarder>>
  BY <1>1 DEF RegisteredInv
<1>2. CASE ReadStart
  <2>1. /\ started' = started + 1 /\ UNCHANGED <<streams, forwarder>>
        /\ \A s \in Stream : s <= started => idOf'[s] = idOf[s]
    BY <1>0, <1>2 DEF ReadStart, TypeOK, ServerTypeOK
  <2>. QED BY <1>0, <2>1 DEF RegisteredInv
<1>3. CASE Register
  <2>1. started \in Stream /\ forwarder[started] = "none" /\ idOf[started] \in Id
    BY <1>3 DEF Register, StartInv, TypeOK, ServerTypeOK
  <2>2. /\ streams' = [streams EXCEPT ![idOf[started]] = started]
        /\ forwarder' = [forwarder EXCEPT ![started] = "receiving"]
        /\ UNCHANGED <<started, idOf>>
    BY <1>3 DEF Register
  <2>3. ASSUME NEW s \in Stream, Held(s)' PROVE s <= started /\ streams'[idOf[s]] = s
    <3>1. CASE s = started
      BY <1>0, <2>1, <2>2, <3>1 DEF TypeOK, ServerTypeOK
    <3>2. CASE s # started
      <4>1. forwarder[s] = forwarder'[s]
        BY <2>2, <3>2 DEF TypeOK, ServerTypeOK
      <4>2. s <= started /\ streams[idOf[s]] = s /\ forwarder[s] # "done"
        BY <2>3, <4>1 DEF RegisteredInv
      <4>3. idOf[s] # idOf[started]
        BY <1>0, <2>1, <3>2, <4>2, ForwardedApart
      <4>4. idOf[s] \in Id
        BY <4>2 DEF StartInv
      <4>. QED BY <2>1, <2>2, <4>2, <4>3, <4>4 DEF TypeOK, ServerTypeOK
    <3>. QED BY <3>1, <3>2
  <2>. QED BY <2>2, <2>3 DEF RegisteredInv
<1>4. ASSUME NEW t \in Stream, Unregister(t) PROVE RegisteredInv'
  <2>1. /\ t <= started /\ idOf[t] \in Id /\ forwarder[t] = "unregister"
    BY <1>4, StartedWhenForwarded DEF Unregister
  <2>2. /\ streams' = [streams EXCEPT ![idOf[t]] = 0]
        /\ forwarder' = [forwarder EXCEPT ![t] = "completing"]
        /\ UNCHANGED <<started, idOf>>
    BY <1>4 DEF Unregister
  <2>3. ASSUME NEW s \in Stream, Held(s)' PROVE s <= started /\ streams'[idOf[s]] = s
    <3>1. s # t /\ forwarder[s] = forwarder'[s]
      BY <2>2, <2>3 DEF TypeOK, ServerTypeOK
    <3>2. s <= started /\ streams[idOf[s]] = s /\ forwarder[s] # "done"
      BY <2>3, <3>1 DEF RegisteredInv
    <3>3. idOf[s] # idOf[t]
      BY <2>1, <3>1, <3>2, ForwardedApart
    <3>4. idOf[s] \in Id
      BY <3>2 DEF StartInv
    <3>. QED BY <2>2, <3>2, <3>3, <3>4 DEF TypeOK, ServerTypeOK
  <2>. QED BY <2>2, <2>3 DEF RegisteredInv
<1>5. ASSUME NEW t \in Stream, (Forwarder(t) \/ Engine(t)) /\ ~Unregister(t)
      PROVE  RegisteredInv'
  <2>1. UNCHANGED <<started, streams, idOf>>
    BY <1>5 DEF Forwarder, Engine, Receive, ReceiveClosed, MarshalFails, LockToWrite, WriteData,
                WriteComplete, Produce, CloseSource
  <2>2. \A s \in Stream : Held(s)' => Held(s)
    BY <1>5 DEF Forwarder, Engine, Receive, ReceiveClosed, MarshalFails, LockToWrite, WriteData,
                WriteComplete, Produce, CloseSource, TypeOK, ServerTypeOK
  <2>. QED BY <2>1, <2>2 DEF RegisteredInv
<1>6. Client => UNCHANGED <<started, streams, idOf, forwarder>>
  BY DEF Client, ClientStart, ClientStop, ClientNames, ClientSays, ClientSend, ClientRead,
         serverVars
<1>7. Loop => ReadStart \/ Register \/ UNCHANGED <<started, streams, idOf, forwarder>>
  BY DEF Loop, Handshake, ReadStop, PanicOnId, ReadOther, ReadFails, Return, serverVars
<1>8. UNCHANGED vars => UNCHANGED <<started, streams, idOf, forwarder>>
  BY DEF vars, serverVars
<1>. QED
  BY <1>1, <1>2, <1>3, <1>4, <1>5, <1>6, <1>7, <1>8 DEF Next, ServerNext

-----------------------------------------------------------------------------
(* The invariant and what follows from it.                                 *)

LEMMA InvInit == Init => ServerInv
<1>. SUFFICES ASSUME Init PROVE ServerInv
  OBVIOUS
<1>1. TypeOK
  BY TypeInit
<1>2. StartInv
  BY StreamFacts DEF Init, ServerInit, StartInv
<1>3. UseInv
  <2>1. \A s \in Stream : ~InUse(s)
    BY StreamFacts DEF Init, ServerInit, InUse
  <2>2. Len(toServer) = 0
    BY DEF Init, NetworkInit
  <2>. QED BY <2>1, <2>2 DEF UseInv
<1>4. MessageInv
  BY DEF Init, NetworkInit, MessageInv
<1>5. RegisteredInv /\ CountInv
  BY DEF Init, ServerInit, RegisteredInv, CountInv
<1>. QED BY <1>1, <1>2, <1>3, <1>4, <1>5 DEF ServerInv

LEMMA InvStep == ServerInv /\ [Next]_vars => ServerInv'
BY TypeStep, StartStep, UseStep, MessageStep, RegisteredStep, CountStep DEF ServerInv

\* The inductive invariant holds, with it that streams are numbered, that an id is used once
\* at a time, and that the table holds all that can be stopped.
THEOREM ServerInvariant == SafetySpec => []ServerInv
<1>1. Init => ServerInv
  BY InvInit
<1>2. ServerInv /\ [Next]_vars => ServerInv'
  BY InvStep
<1>. QED BY <1>1, <1>2, PTL DEF SafetySpec

\* A stop cancels what is forwarded under its id (ws-server.go, case "stop"): no stream that
\* ends has deleted the entry of another that reuses its id.
THEOREM StopHonoured == SafetySpec => StopIsHonoured
<1>1. ServerInv /\ [Next]_vars =>
        [ReadStop => \A s \in Stream :
           Forwarding(s) /\ idOf[s] = Head(toServer).id => cancelled'[s]]_vars
  <2>. SUFFICES ASSUME ServerInv, ReadStop, NEW s \in Stream, Forwarding(s),
                       idOf[s] = Head(toServer).id
                PROVE  cancelled'[s]
    OBVIOUS
  <2>1. streams[idOf[s]] = s
    BY DEF ServerInv, RegisteredInv, Forwarding
  <2>. QED BY <2>1 DEF ReadStop
<1>. QED BY <1>1, ServerInvariant, PTL DEF SafetySpec, StopIsHonoured

\* What the client reads under an id is for the operation it started last under it, and
\* ends with "complete".
THEOREM MessagesFindOperations == SafetySpec => []MessagesFindTheirOperation
<1>1. ServerInv => MessagesFindTheirOperation
  <2>. SUFFICES ASSUME ServerInv, NEW p \in 1..Len(toClient), toClient[p].stream # 0
                PROVE  LET m == toClient[p] IN
                       /\ m.id \in open
                       /\ \A s \in Stream : s > m.stream => idOf[s] # m.id
                       /\ \A q \in 1..Len(toServer) :
                            toServer[q].type = "start" => toServer[q].id # m.id
                       /\ m.type = "complete" => forwarder[m.stream] = "done"
    BY DEF MessagesFindTheirOperation
  <2>1. PICK t \in Stream : t = toClient[p].stream
    <3>1. toClient[p] \in ToClient
      BY DEF ServerInv, TypeOK, NetworkTypeOK
    <3>. QED BY <3>1 DEF ToClient
  <2>2. toClient[p].id = idOf[t] /\ InUse(t)
    BY <2>1 DEF ServerInv, MessageInv, InUse, OnTheWay
  <2>3. idOf[t] \in open
    BY <2>2 DEF ServerInv, UseInv
  <2>4. \A s \in Stream : s > t => idOf[s] # idOf[t]
    BY <2>2, StreamFacts DEF ServerInv, UseInv
  <2>5. \A q \in 1..Len(toServer) : toServer[q].type = "start" => toServer[q].id # idOf[t]
    <3>1. idOf[t] # BadId
      BY <2>3, NetworkAssumption DEF ServerInv, TypeOK
    <3>. QED BY <2>2, <3>1 DEF ServerInv, UseInv, Starts
  <2>6. toClient[p].type = "complete" => forwarder[t] = "done"
    BY <2>1 DEF ServerInv, MessageInv
  <2>. QED BY <2>1, <2>2, <2>3, <2>4, <2>5, <2>6
<1>. QED BY <1>1, ServerInvariant, PTL

\* An operation that is complete has had all of its responses written.
THEOREM CompleteWritten == SafetySpec => []CompleteMeansEverything
<1>1. ServerInv => CompleteMeansEverything
  <2>. SUFFICES ASSUME ServerInv, connected, NEW s \in Stream,
                       forwarder[s] \in {"unregister", "completing", "done"}
                PROVE  written[s] = produced[s]
    BY DEF CompleteMeansEverything
  <2>1. taken[s] = produced[s] /\ taken[s] \in Nat
    BY DEF ServerInv, CountInv, TypeOK, ServerTypeOK
  <2>. QED BY <2>1 DEF ServerInv, CountInv
<1>. QED BY <1>1, ServerInvariant, PTL
=============================================================================
