------------------------------ MODULE WsServer ------------------------------
(***************************************************************************)
(* The server's end of a WebSocket connection (httpgql/ws-server.go,       *)
(* Upgrade): one goroutine reads what the client sends and starts and      *)
(* stops operations; each operation has a goroutine that forwards its      *)
(* responses.  All share the connection and the table of streams, behind   *)
(* one mutex.                                                              *)
(***************************************************************************)
EXTENDS WsNetwork

VARIABLES
  loop,          \* what the goroutine that reads does
  started,       \* how many operations were started
  streams,       \* per id, the stream that the table holds, or 0
  mu,            \* the forwarder that holds the mutex to write, Reader, or 0
  idOf,          \* per stream, its id
  forwarder,     \* per stream, what its goroutine does
  cancelled,     \* per stream, whether its cancel function was called
  produced,      \* per stream, the responses that the engine has sent
  sourceClosed,  \* per stream, whether the engine has closed it
  taken,         \* per stream, the responses that the forwarder has received
  written        \* per stream, the responses written to the connection

sources    == <<produced, sourceClosed>>
serverVars == <<loop, started, streams, mu, idOf, forwarder, cancelled, sources,
                taken, written>>

\* The goroutine that reads, as a holder of the mutex.
Reader == MaxStreams + 1

ServerTypeOK ==
  /\ loop \in {"handshake", "reading", "starting", "returning", "returned", "stuck",
              "dead"}
  /\ started \in Stream \cup {0}
  /\ streams \in [Id -> Stream \cup {0}]
  /\ mu \in Stream \cup {0, Reader}
  /\ idOf \in [Stream -> Id \cup {NoId}]
  /\ forwarder \in [Stream ->
       {"none", "receiving", "sending", "unregister", "completing", "done"}]
  /\ cancelled \in [Stream -> BOOLEAN]
  /\ produced \in [Stream -> Nat]
  /\ sourceClosed \in [Stream -> BOOLEAN]
  /\ taken \in [Stream -> Nat]
  /\ written \in [Stream -> Nat]

ServerInit ==
  /\ loop = "handshake"
  /\ started = 0
  /\ streams = [i \in Id |-> 0]
  /\ mu = 0
  /\ idOf = [s \in Stream |-> NoId]
  /\ forwarder = [s \in Stream |-> "none"]
  /\ cancelled = [s \in Stream |-> FALSE]
  /\ produced = [s \in Stream |-> 0]
  /\ sourceClosed = [s \in Stream |-> FALSE]
  /\ taken = [s \in Stream |-> 0]
  /\ written = [s \in Stream |-> 0]

Reply(type, i, s, n) == [type |-> type, id |-> i, stream |-> s, number |-> n]

Forwarding(s) == forwarder[s] \in {"receiving", "sending"}

\* The context of a request ends with its own cancel function, or with the context of
\* the connection, which net/http cancels when Upgrade has returned.
ContextDone(s) == cancelled[s] \/ loop = "returned"

-----------------------------------------------------------------------------
(* The goroutine that reads *)

\* The first message must be connection_init.
Handshake ==
  /\ loop = "handshake"
  /\ toServer # <<>> /\ CanWrite(toClient)
  /\ toServer' = Tail(toServer)
  /\ \/ /\ Head(toServer).type = "connection_init"
        /\ toClient' = Written(toClient, Reply("connection_ack", NoId, 0, 0))
        /\ loop' = "reading"
     \/ /\ Head(toServer).type \notin {"connection_init", "malformed"}
        /\ toClient' = Written(toClient, Reply("connection_error", NoId, 0, 0))
        /\ loop' = "returning"
     \/ /\ Head(toServer).type = "malformed"
        /\ loop' = "returning"
        /\ UNCHANGED toClient
  /\ UNCHANGED <<connected, started, streams, mu, idOf, forwarder, cancelled, sources,
                 taken, written>>

\* The client starts an operation.  The engine is called; what it returns may produce
\* responses from here on.
ReadStart ==
  /\ loop = "reading"
  /\ toServer # <<>> /\ Head(toServer).type = "start" /\ Head(toServer).id # BadId
  /\ started < MaxStreams
  /\ toServer' = Tail(toServer)
  /\ loop' = "starting"
  /\ started' = started + 1
  /\ idOf' = [idOf EXCEPT ![started + 1] = Head(toServer).id]
  /\ UNCHANGED <<connected, toClient, streams, mu, forwarder, cancelled, sources, taken,
                 written>>

\* The engine has returned the stream: it is entered into the table and forwarded.
Register ==
  /\ loop = "starting"
  /\ mu = 0
  /\ streams' = [streams EXCEPT ![idOf[started]] = started]
  /\ forwarder' = [forwarder EXCEPT ![started] = "receiving"]
  /\ loop' = "reading"
  /\ UNCHANGED <<network, started, mu, idOf, cancelled, sources, taken, written>>

\* Mutated form of ReadStop: the loop itself answers with "complete" and forgets the stream.
StopCompletes ==
  /\ loop = "reading" /\ mu = 0
  /\ toServer # <<>> /\ Head(toServer).type = "stop" /\ Head(toServer).id # BadId
  /\ LET i == Head(toServer).id IN
     /\ streams[i] # 0 => CanWrite(toClient)
     /\ toClient' = IF streams[i] = 0 THEN toClient
                    ELSE Written(toClient, Reply("complete", i, streams[i], 0))
     /\ streams' = [streams EXCEPT ![i] = 0]
     /\ cancelled' = [s \in Stream |-> cancelled[s] \/ s = streams[i]]
  /\ toServer' = Tail(toServer)
  /\ UNCHANGED <<connected, loop, started, mu, idOf, forwarder, sources, taken, written>>

\* The client stops an operation.
ReadStop ==
  /\ loop = "reading"
  /\ toServer # <<>> /\ Head(toServer).type = "stop" /\ Head(toServer).id # BadId
  /\ mu = 0
  /\ toServer' = Tail(toServer)
  /\ cancelled' = [s \in Stream |-> cancelled[s] \/ s = streams[Head(toServer).id]]
  /\ UNCHANGED <<connected, toClient, loop, started, streams, mu, idOf, forwarder,
                 sources, taken, written>>

\* A "stop", or a "start" once the engine has returned a stream that nobody will read, under
\* an id that cannot be a key: the map access panics with the mutex held, and the deferred
\* function, which waits for the mutex, never returns.
PanicOnId ==
  /\ loop = "reading"
  /\ toServer # <<>> /\ Head(toServer).type \in {"start", "stop"} /\ Head(toServer).id = BadId
  /\ mu = 0
  /\ mu' = Reader
  /\ toServer' = Tail(toServer)
  /\ loop' = "stuck"
  /\ UNCHANGED <<connected, toClient, started, streams, idOf, forwarder, cancelled, sources,
                 taken, written>>

\* Any other type is ignored.
ReadOther ==
  /\ loop = "reading"
  /\ toServer # <<>> /\ Head(toServer).type \in {"connection_init", "other"}
  /\ toServer' = Tail(toServer)
  /\ UNCHANGED <<connected, toClient, serverVars>>

\* A message cannot be decoded, or the connection is broken.
ReadFails ==
  /\ loop \in {"handshake", "reading"}
  /\ \/ /\ toServer # <<>> /\ Head(toServer).type = "malformed"
        /\ loop = "reading"
        /\ toServer' = Tail(toServer)
     \/ ~connected /\ UNCHANGED toServer
  /\ loop' = "returning"
  /\ UNCHANGED <<connected, toClient, started, streams, mu, idOf, forwarder, cancelled,
                 sources, taken, written>>

\* The deferred function cancels the streams of the table and closes the connection.
Return ==
  /\ loop = "returning"
  /\ mu = 0
  /\ cancelled' = [s \in Stream |-> cancelled[s] \/ \E i \in Id : streams[i] = s]
  /\ loop' = "returned"
  /\ connected' = FALSE
  /\ UNCHANGED <<toServer, toClient, started, streams, mu, idOf, forwarder, sources,
                 taken, written>>

-----------------------------------------------------------------------------
(* The goroutine that forwards the responses of stream s *)

Receive(s) ==
  /\ forwarder[s] = "receiving"
  /\ taken[s] < produced[s]
  /\ taken' = [taken EXCEPT ![s] = @ + 1]
  /\ forwarder' = [forwarder EXCEPT ![s] = "sending"]
  /\ UNCHANGED <<network, loop, started, streams, mu, idOf, cancelled, sources, written>>

ReceiveClosed(s) ==
  /\ forwarder[s] = "receiving"
  /\ sourceClosed[s] /\ taken[s] = produced[s]
  /\ forwarder' = [forwarder EXCEPT ![s] = "unregister"]
  /\ UNCHANGED <<network, loop, started, streams, mu, idOf, cancelled, sources, taken,
                 written>>

\* The entry goes before "complete" is written: the client may use the id again then.
Unregister(s) ==
  /\ forwarder[s] = "unregister"
  /\ mu = 0
  /\ streams' = [streams EXCEPT ![idOf[s]] = 0]
  /\ forwarder' = [forwarder EXCEPT ![s] = "completing"]
  /\ UNCHANGED <<network, loop, started, mu, idOf, cancelled, sources, taken, written>>

\* A response that cannot be marshalled, as its data is not JSON: the panic is nobody's to
\* recover, and ends the process.
MarshalFails(s) ==
  /\ forwarder[s] = "sending" /\ mu # s
  /\ loop' = "dead"
  /\ connected' = FALSE
  /\ UNCHANGED <<toServer, toClient, started, streams, mu, idOf, forwarder, cancelled, sources,
                 taken, written>>

LockToWrite(s) ==
  /\ forwarder[s] \in {"sending", "completing"}
  /\ mu = 0
  /\ mu' = s
  /\ UNCHANGED <<network, loop, started, streams, idOf, forwarder, cancelled, sources,
                 taken, written>>

\* Mutated form of WriteData: the mutex is not released when the write fails.
WriteDataOrKeep(s) ==
  /\ mu = s /\ forwarder[s] = "sending"
  /\ CanWrite(toClient)
  /\ toClient' = Written(toClient, Reply("data", idOf[s], s, taken[s]))
  /\ written' = [written EXCEPT ![s] = IF connected THEN @ + 1 ELSE @]
  /\ mu' = IF connected THEN 0 ELSE s
  /\ forwarder' = [forwarder EXCEPT ![s] = "receiving"]
  /\ UNCHANGED <<connected, toServer, loop, started, streams, idOf, cancelled, sources,
                 taken>>

\* Mutated form of WriteData: the goroutines share the variable of the loop.
WriteDataUnderLastId(s) ==
  /\ mu = s /\ forwarder[s] = "sending"
  /\ CanWrite(toClient)
  /\ toClient' = Written(toClient, Reply("data", idOf[started], s, taken[s]))
  /\ written' = [written EXCEPT ![s] = IF connected THEN @ + 1 ELSE @]
  /\ mu' = 0
  /\ forwarder' = [forwarder EXCEPT ![s] = "receiving"]
  /\ UNCHANGED <<connected, toServer, loop, started, streams, idOf, cancelled, sources,
                 taken>>

\* The mutex is held while the write is blocked.  Its error is ignored.
WriteData(s) ==
  /\ mu = s /\ forwarder[s] = "sending"
  /\ CanWrite(toClient)
  /\ toClient' = Written(toClient, Reply("data", idOf[s], s, taken[s]))
  /\ written' = [written EXCEPT ![s] = IF connected THEN @ + 1 ELSE @]
  /\ mu' = 0
  /\ forwarder' = [forwarder EXCEPT ![s] = "receiving"]
  /\ UNCHANGED <<connected, toServer, loop, started, streams, idOf, cancelled, sources,
                 taken>>

WriteComplete(s) ==
  /\ mu = s /\ forwarder[s] = "completing"
  /\ CanWrite(toClient)
  /\ toClient' = Written(toClient, Reply("complete", idOf[s], s, 0))
  /\ mu' = 0
  /\ forwarder' = [forwarder EXCEPT ![s] = "done"]
  /\ cancelled' = [cancelled EXCEPT ![s] = TRUE]
  /\ UNCHANGED <<connected, toServer, loop, started, streams, idOf, sources, taken,
                 written>>

-----------------------------------------------------------------------------
(* The engine, seen through the stream of an operation: a channel of capacity one *)

Produce(s) ==
  /\ s <= started /\ ~sourceClosed[s]
  /\ produced[s] < MaxResponses[s] /\ produced[s] = taken[s]
  /\ produced' = [produced EXCEPT ![s] = @ + 1]
  /\ UNCHANGED <<network, loop, started, streams, mu, idOf, forwarder, cancelled,
                 sourceClosed, taken, written>>

CloseSource(s) ==
  /\ s <= started /\ ~sourceClosed[s]
  /\ sourceClosed' = [sourceClosed EXCEPT ![s] = TRUE]
  /\ UNCHANGED <<network, loop, started, streams, mu, idOf, forwarder, cancelled,
                 produced, taken, written>>

-----------------------------------------------------------------------------
\* Mutated form of Forwarder: "complete" is written before the entry is deleted.
UnregisterAfter(s) ==
  /\ forwarder[s] = "unregister" /\ mu = 0
  /\ streams' = [streams EXCEPT ![idOf[s]] = 0]
  /\ forwarder' = [forwarder EXCEPT ![s] = "done"]
  /\ UNCHANGED <<network, loop, started, mu, idOf, cancelled, sources, taken, written>>

CompleteFirst(s) ==
  /\ forwarder[s] = "receiving" /\ mu = 0
  /\ sourceClosed[s] /\ taken[s] = produced[s]
  /\ CanWrite(toClient)
  /\ toClient' = Written(toClient, Reply("complete", idOf[s], s, 0))
  /\ forwarder' = [forwarder EXCEPT ![s] = "unregister"]
  /\ UNCHANGED <<connected, toServer, loop, started, streams, mu, idOf, cancelled, sources,
                 taken, written>>

CompleteBeforeUnregister(s) ==
  /\ loop # "dead"
  /\ \/ Receive(s) \/ CompleteFirst(s) \/ UnregisterAfter(s)
     \/ MarshalFails(s) \/ LockToWrite(s) \/ WriteData(s)

-----------------------------------------------------------------------------

Loop ==
  \/ Handshake \/ ReadStart \/ Register \/ ReadStop \/ PanicOnId \/ ReadOther \/ ReadFails
  \/ Return

Forwarder(s) ==
  /\ loop # "dead"
  /\ \/ Receive(s) \/ ReceiveClosed(s) \/ Unregister(s)
     \/ MarshalFails(s) \/ LockToWrite(s) \/ WriteData(s) \/ WriteComplete(s)

Engine(s) == loop # "dead" /\ (Produce(s) \/ CloseSource(s))

ServerNext == Loop \/ \E s \in Stream : Forwarder(s) \/ Engine(s)

\* Each goroutine goes on when it can; sync.Mutex lets none starve; the engine closes the
\* stream of a request whose context is done.
ServerFairness ==
  /\ SF_<<network, serverVars>>(Loop)
  /\ \A s \in Stream : SF_<<network, serverVars>>(Forwarder(s))
  /\ \A s \in Stream :
       WF_<<network, serverVars>>(loop # "dead" /\ ContextDone(s) /\ CloseSource(s))
=============================================================================
