------------------------------ MODULE WsClient ------------------------------
(***************************************************************************)
(* The client's end of a WebSocket connection (httpgql/ws-client.go): the  *)
(* callers of ServeGraphQLStream, the first of which dials; the goroutine  *)
(* that serves the connection and owns its table of operations; the        *)
(* goroutine that reads; and the readers of the response channels, which   *)
(* have a capacity of one.  Callers and the reading goroutine hand their   *)
(* commands over through a channel without a buffer.                       *)
(***************************************************************************)
EXTENDS WsNetwork, FiniteSets

CONSTANTS Caller,      \* calls of ServeGraphQLStream
          None         \* stands for nil

ASSUME ClientAssumption ==
  /\ None \notin Caller \cup ToClient
  /\ IsFiniteSet(Caller) /\ Id = 0 .. Cardinality(Caller) - 1

\* What a response channel carries: a response of a stream, or an error.
Data(m) == [stream |-> m.stream, number |-> m.number]
Failure == [stream |-> 0, number |-> 0]
Item    == [stream : Stream \cup {0}, number : Nat]

VARIABLES
  dialed,          \* whether the connection was dialed
  registered,      \* whether it is in the client's map of connections
  caller,          \* per caller, where it is
  service,         \* what the service goroutine does
  working,         \* the operation that it opens or delivers to
  item,            \* what it delivers
  reader,          \* what the reading goroutine does
  handed,          \* the message that it hands over
  commandsClosed,  \* whether serviceCommands is closed
  nextStreamId,
  operations,      \* per id, the caller whose operation the table holds
  operationId,     \* per caller, the id that its operation was started with
  chan,            \* per caller, its response channel
  chanClosed,      \* per caller, whether the channel is closed
  received         \* per caller, what was received from the channel

dialing    == <<dialed, registered>>
handover   == <<service, working, item, reader, handed, commandsClosed>>
table      == <<nextStreamId, operations, operationId>>
channels   == <<chan, chanClosed>>
clientVars == <<dialing, caller, handover, table, channels, received>>

ClientTypeOK ==
  /\ dialed \in BOOLEAN /\ registered \in BOOLEAN /\ commandsClosed \in BOOLEAN
  /\ caller \in [Caller -> {"new", "acking", "rejected", "acked", "calling", "served",
                            "failed", "elsewhere", "crashed"}]
  /\ service \in {"off", "select", "opening", "delivering", "failing", "ending", "returned"}
  /\ working \in Caller \cup {None}
  /\ item \in Item
  /\ reader \in {"off", "reading", "handing", "handingError", "closing", "unregister", "done"}
  /\ handed \in ToClient \cup {None}
  /\ nextStreamId \in Nat
  /\ operations \in [Id -> Caller \cup {None}]
  /\ operationId \in [Caller -> Id \cup {NoId}]
  /\ chan \in [Caller -> Seq(Item)]
  /\ chanClosed \in [Caller -> BOOLEAN]
  /\ received \in [Caller -> Seq(Item)]

ClientInit ==
  /\ dialed = FALSE /\ registered = FALSE /\ commandsClosed = FALSE
  /\ caller = [c \in Caller |-> "new"]
  /\ service = "off" /\ working = None /\ item = Failure
  /\ reader = "off" /\ handed = None
  /\ nextStreamId = 0
  /\ operations = [i \in Id |-> None]
  /\ operationId = [c \in Caller |-> NoId]
  /\ chan = [c \in Caller |-> <<>>]
  /\ chanClosed = [c \in Caller |-> FALSE]
  /\ received = [c \in Caller |-> <<>>]

Goes(c, from, to) == caller[c] = from /\ caller' = [caller EXCEPT ![c] = to]

-----------------------------------------------------------------------------
(* ServeGraphQLStream *)

\* No connection is in the map: the caller dials and writes connection_init.
Dial(c) ==
  /\ ~registered /\ ~dialed
  /\ dialed' = TRUE
  /\ Goes(c, "new", IF connected THEN "acking" ELSE "failed")
  /\ toServer' = Written(toServer, [type |-> "connection_init", id |-> NoId])
  /\ UNCHANGED <<connected, toClient, registered, handover, table, channels, received>>

\* The answer is read.  If it is the right one, the goroutines start.
ReadAck(c) ==
  /\ toClient # <<>>
  /\ toClient' = Tail(toClient)
  /\ \/ /\ Head(toClient).type = "connection_ack"
        /\ Goes(c, "acking", "acked")
        /\ service' = "select" /\ reader' = "reading"
     \/ /\ Head(toClient).type # "connection_ack"
        /\ Goes(c, "acking", "rejected")
        /\ UNCHANGED <<service, reader>>
  /\ UNCHANGED <<connected, toServer, dialing, working, item, handed, commandsClosed,
                 table, channels, received>>

\* The connection is closed and the caller gets a stream with an error.
GiveUp(c) ==
  /\ \/ Goes(c, "acking", "failed") /\ ~connected
     \/ Goes(c, "rejected", "failed")
  /\ connected' = FALSE
  /\ UNCHANGED <<toServer, toClient, dialing, handover, table, channels, received>>

\* The connection is put into the map only after its goroutines were started.
RegisterConnection(c) ==
  /\ Goes(c, "acked", "calling")
  /\ registered' = TRUE
  /\ UNCHANGED <<network, dialed, handover, table, channels, received>>

UseConnection(c) ==
  /\ registered
  /\ Goes(c, "new", "calling")
  /\ UNCHANGED <<network, dialing, handover, table, channels, received>>

\* The caller dials a connection of its own, which is not followed here.
DialAnother(c) ==
  /\ ~registered /\ dialed
  /\ Goes(c, "new", "elsewhere")
  /\ UNCHANGED <<network, dialing, handover, table, channels, received>>

\* The service goroutine takes the operation, and the caller returns with its channel.
HandOver(c) ==
  /\ ~commandsClosed /\ service = "select"
  /\ Goes(c, "calling", "served")
  /\ service' = "opening" /\ working' = c
  /\ UNCHANGED <<network, dialing, item, reader, handed, commandsClosed, table, channels,
                 received>>

\* A send on a closed channel panics.
Crash(c) ==
  /\ commandsClosed
  /\ Goes(c, "calling", "crashed")
  /\ UNCHANGED <<network, dialing, handover, table, channels, received>>

-----------------------------------------------------------------------------
(* The service goroutine *)

\* Mutated form of FailChannel: the channel is closed and the error is not sent.
CloseChannel(c) ==
  /\ chanClosed' = [chanClosed EXCEPT ![c] = TRUE]
  /\ UNCHANGED chan

\* The response channel of the operation gets an error and is closed.
FailChannel(c) ==
  /\ Len(chan[c]) < 1
  /\ chan' = [chan EXCEPT ![c] = Append(@, Failure)]
  /\ chanClosed' = [chanClosed EXCEPT ![c] = TRUE]

\* Mutated form of OpenOperation: the id is not used up.
OpenWithSameId ==
  /\ service = "opening"
  /\ connected /\ CanWrite(toServer)
  /\ toServer' = Written(toServer, [type |-> "start", id |-> nextStreamId])
  /\ operations' = [operations EXCEPT ![nextStreamId] = working]
  /\ operationId' = [operationId EXCEPT ![working] = nextStreamId]
  /\ service' = "select" /\ working' = None
  /\ UNCHANGED <<connected, toClient, dialing, caller, item, reader, handed, commandsClosed,
                 nextStreamId, channels, received>>

OpenOperation ==
  /\ service = "opening"
  /\ connected /\ CanWrite(toServer)
  /\ toServer' = Written(toServer, [type |-> "start", id |-> nextStreamId])
  /\ nextStreamId' = nextStreamId + 1
  /\ operations' = [operations EXCEPT ![nextStreamId] = working]
  /\ operationId' = [operationId EXCEPT ![working] = nextStreamId]
  /\ service' = "select" /\ working' = None
  /\ UNCHANGED <<connected, toClient, dialing, caller, item, reader, handed, commandsClosed,
                 channels, received>>

\* Mutated form of OpenFails: the operation is in the table before it is written.
OpenFailsInTable ==
  /\ service = "opening"
  /\ FailChannel(working)
  /\ nextStreamId' = nextStreamId + 1
  /\ operations' = [operations EXCEPT ![nextStreamId] = working]
  /\ operationId' = [operationId EXCEPT ![working] = nextStreamId]
  /\ service' = "select" /\ working' = None
  /\ UNCHANGED <<network, dialing, caller, item, reader, handed, commandsClosed, received>>

\* The request cannot be encoded, or written; an id is spent on the latter.
OpenFails ==
  /\ service = "opening"
  /\ FailChannel(working)
  /\ nextStreamId' \in {nextStreamId} \cup (IF connected THEN {} ELSE {nextStreamId + 1})
  /\ service' = "select" /\ working' = None
  /\ UNCHANGED <<network, dialing, caller, item, reader, handed, commandsClosed,
                 operations, operationId, received>>

\* Mutated form of TakeMessage: an operation that is complete stays in the table.
TakeMessageKeepOperation ==
  /\ service = "select" /\ reader = "handing"
  /\ reader' = "reading" /\ handed' = None
  /\ LET i == handed.id IN
     \/ /\ handed.type = "data" /\ operations[i] # None
        /\ service' = "delivering" /\ working' = operations[i] /\ item' = Data(handed)
        /\ UNCHANGED chanClosed
     \/ /\ handed.type = "complete" /\ operations[i] # None
        /\ chanClosed' = [chanClosed EXCEPT ![operations[i]] = TRUE]
        /\ UNCHANGED <<service, working, item>>
  /\ UNCHANGED <<network, dialing, caller, commandsClosed, table, chan, received>>

\* A message from the reading goroutine.  An id that is not in the table is an error, which
\* ends every operation but not the connection.
TakeMessage ==
  /\ service = "select" /\ reader = "handing"
  /\ reader' = "reading" /\ handed' = None
  /\ LET i == handed.id IN
     \/ /\ handed.type = "data" /\ operations[i] # None
        /\ service' = "delivering" /\ working' = operations[i] /\ item' = Data(handed)
        /\ UNCHANGED <<operations, chanClosed>>
     \/ /\ handed.type = "complete" /\ operations[i] # None
        /\ operations' = [operations EXCEPT ![i] = None]
        /\ chanClosed' = [chanClosed EXCEPT ![operations[i]] = TRUE]
        /\ UNCHANGED <<service, working, item>>
     \/ /\ handed.type \in {"data", "complete"} => operations[i] = None
        /\ handed.type # "connection_ack"
        /\ service' = "failing"
        /\ UNCHANGED <<working, item, operations, chanClosed>>
     \/ /\ handed.type = "connection_ack"
        /\ UNCHANGED <<service, working, item, operations, chanClosed>>
  /\ UNCHANGED <<network, dialing, caller, commandsClosed, nextStreamId, operationId, chan,
                 received>>

\* The response is sent to its channel; all else waits until there is room.
Deliver ==
  /\ service = "delivering"
  /\ Len(chan[working]) < 1
  /\ chan' = [chan EXCEPT ![working] = Append(@, item)]
  /\ service' = "select" /\ working' = None /\ item' = Failure
  /\ UNCHANGED <<network, dialing, caller, reader, handed, commandsClosed, table, chanClosed,
                 received>>

\* A read error from the reading goroutine.
TakeError ==
  /\ service = "select" /\ reader = "handingError"
  /\ service' = "ending" /\ reader' = "closing"
  /\ UNCHANGED <<network, dialing, caller, working, item, handed, commandsClosed, table, channels,
                 received>>

\* serviceError: each operation of the table fails, in any order.
FailOperation(i) ==
  /\ service \in {"failing", "ending"}
  /\ operations[i] # None
  /\ FailChannel(operations[i])
  /\ operations' = [operations EXCEPT ![i] = None]
  /\ UNCHANGED <<network, dialing, caller, handover, nextStreamId, operationId, received>>

\* serviceError returns; after a read error the goroutine closes the connection and ends.
FailedAll ==
  /\ operations = [i \in Id |-> None]
  /\ \/ service = "failing" /\ service' = "select" /\ UNCHANGED connected
     \/ service = "ending" /\ service' = "returned" /\ connected' = FALSE
  /\ UNCHANGED <<toServer, toClient, dialing, caller, working, item, reader, handed, commandsClosed,
                 table, channels, received>>

-----------------------------------------------------------------------------
(* The reading goroutine *)

ReadMessage ==
  /\ reader = "reading" /\ toClient # <<>>
  /\ handed' = Head(toClient) /\ toClient' = Tail(toClient)
  /\ reader' = "handing"
  /\ UNCHANGED <<connected, toServer, dialing, caller, service, working, item, commandsClosed,
                 table, channels, received>>

ReadError ==
  /\ reader = "reading" /\ ~connected
  /\ reader' = "handingError"
  /\ UNCHANGED <<network, dialing, caller, service, working, item, handed, commandsClosed, table,
                 channels, received>>

\* Mutated form of CloseCommands: the channel is left open.
LeaveCommandsOpen ==
  /\ reader = "closing"
  /\ reader' = "unregister"
  /\ UNCHANGED <<network, dialing, caller, service, working, item, handed, commandsClosed,
                 table, channels, received>>

CloseCommands ==
  /\ reader = "closing"
  /\ commandsClosed' = TRUE
  /\ reader' = "unregister"
  /\ UNCHANGED <<network, dialing, caller, service, working, item, handed, table, channels, received>>

UnregisterConnection ==
  /\ reader = "unregister"
  /\ registered' = FALSE
  /\ reader' = "done"
  /\ UNCHANGED <<network, dialed, caller, service, working, item, handed, commandsClosed, table,
                 channels, received>>

-----------------------------------------------------------------------------

\* Whoever has the response channel reads it.
ReadResponse(c) ==
  /\ chan[c] # <<>> /\ caller[c] = "served"
  /\ chan' = [chan EXCEPT ![c] = Tail(@)]
  /\ received' = [received EXCEPT ![c] = Append(@, Head(chan[c]))]
  /\ UNCHANGED <<network, dialing, caller, handover, table, chanClosed>>

Call(c) ==
  \/ Dial(c) \/ ReadAck(c) \/ GiveUp(c) \/ RegisterConnection(c) \/ UseConnection(c)
  \/ DialAnother(c) \/ HandOver(c) \/ Crash(c)

Service ==
  \/ OpenOperation \/ OpenFails \/ TakeMessage \/ Deliver \/ TakeError
  \/ (\E i \in Id : FailOperation(i)) \/ FailedAll

ReadSide == ReadMessage \/ ReadError \/ CloseCommands \/ UnregisterConnection

ClientNext == (\E c \in Caller : Call(c) \/ ReadResponse(c)) \/ Service \/ ReadSide
=============================================================================
