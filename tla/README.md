# A verification project for chirino/graphql

TLA+ models of this GraphQL engine, the TLC runs that check them on small instances, and
TLAPS proofs of what matters most for every size. Two kinds of models stand side by side:
state machines of the parts where goroutines, channels and shared state meet, and the
sequential algorithms (a schema that is parsed in parts, validation, merging of fragments,
resolution by reflection) as functions, driven by a small state machine and checked against
shorter definitions of what they promise. Paths are relative to the repository; every
definition that stands for code is tied to its lines in `PROJECT.json` ("map").

## The system

A client's `Request` reaches `Engine.ServeGraphQLStream` (`engine.go`), directly, over HTTP
(`httpgql/http-server.go`) or over a WebSocket (`httpgql/ws-server.go`). The document is
parsed (`schema/query.go`), validated against the schema (`internal/validation`) and executed
by an `Execution` (`internal/exec/execution.go`), which asks a chain of resolvers
(`resolvers/`) for the value of each field. Responses come back through a channel of capacity
one, the `ResponseStream` (`graphql_stream.go`). The schema is parsed from one or more texts,
may be altered between requests, and answers introspection through the same resolvers.

| Component | State | Operations | What makes it correct | Model |
|---|---|---|---|---|
| Query execution: `internal/exec/execution.go`, `resolvers/async.go`, `internal/linkedmap` | `data`, `errs`, `limiter`, linked maps of resolved fields, one goroutine per asynchronous field | `Execute`, `resolveFields`, `recursiveExecute`, `executeSelected`, `writeList`, `RunAsync`, `AddError`, `HandlePanic` | every field answered once, document order, failures cut out locally, no token lost or stolen, limit kept, one response and then the close | `QueryExecution` |
| Subscriptions: `internal/exec/execution.go`, `engine.go` | `rootFields`, `subMu`, the two callbacks, `Resolution` of the root field, the buffers, the limiter | `Execute`, `FireSubscriptionEvent`, `FireSubscriptionClose` | events not mixed, reordered or lost; nothing after the close; every call returns; cancelling ends it | `Subscription` |
| Response stream: `graphql_stream.go` | the channel | send, close, receive | nothing after the close, closed once | `ResponseStream` |
| Single responses: `ServeGraphQL`, `graphql.go` | a context | first response, cancel | a subscription served once ends | a reader of `Subscription` that leaves |
| WebSocket client: `httpgql/ws-client.go` | map of connections, per connection the streams, `serviceCommands` | dial, open, close, read, error, service loop | a stream gets its own responses in order and is closed once; a lost connection does not look like the end of a stream; nobody waits for ever | `WsClient`, `WsSession` |
| WebSocket server: `httpgql/ws-server.go` | map of streams, write mutex | init, start, stop, forward, disconnect | a stop reaches the stream it is meant for, ids can be used again, every response is written before `complete`, streams end with the connection | `WsServer`, `WsAnyClient` |
| Schema: `schema/schema.go`, `schema/schema_format.go`, `schema/type_add_if_missing.go` | types (shared by pointer), directives, entry points, `PossibleTypes` | `Parse`, `ResolveTypes`, `RenameTypes`, add, drop and alter, `VisitDirective`, `AddIfMissing` | a schema parsed in parts is as if it were parsed at once; nothing unresolved after success; its text reads back | `SyntaxTree`, `Syntax`, `SchemaText`, `SchemaTypes`, `SchemaEvolution`, `SchemaLoad`, `Schema`, `SchemaTools` |
| Introspection: `internal/introspection` | none | the meta resolvers, `NewSchema` | a schema built from the answer is the schema | `Introspection` |
| Query parser and formatter: `schema/query.go`, `internal/lexer` | none | `parseDocument`, `WriteTo` | a document reads back as it was written | `Syntax`, `QueryText` |
| Validation: `internal/validation/validation.go` | used variables and fragments, visited pairs, depth, `fieldMap` | `Validate` and its walks | terminates on every document; accepts nothing that execution cannot handle | `Validation`, `Documents` |
| Merging of selections, skip and include: `internal/exec/execution.go`, `exec/directive.go`, `exec/field_selection.go` | slices shared with the parsed document | `resolveFields`, `SkipByDirective`, `Apply` | the answer has the fields of the document; looking ahead sees what executes | `Selections`, `Documents` |
| Engine front end: `engine.go` | none per engine | `ServeGraphQLStream` up to `Execute` | every early return is an error response | `Documents` |
| Resolver chain: `resolvers/` | none | the resolvers, `resolverList`, `DynamicResolverFactory` | a field resolves as Go's own rules say, whatever others resolve | `ResolverChain`, `Resolvers`, `GoTypes` |
| Resolver cache: `resolvers/cache.go` | two copy-on-write maps with their mutexes | `GetOrElseUpdate` | no entry lost or changed; what is returned is what stays | `ResolverCache` |
| Argument packing: `internal/exec/packer` | none | the packers | arguments arrive as they were given, or an error says why not | `Packing` |
| Selection pool: `schema/query.go` | a `sync.Pool` of field selections | `parseField`, `Close` | a selection belongs to one document at a time | the window only (`docOpen`) |
| HTTP, scanner, scalars, errors, log, tracing, deprecated API, generated code | none that is shared | | | not modelled |

Every component, with the reason for what is left out, is in `PROJECT.json`
("components"), and everything in this code that a test hardly reaches is listed under
"hazards", at its line, with the properties that would catch it.

## The modules

### QueryExecution

One query or mutation. The document is a tree of *nodes*, one per selection of a field in one
selection set at run time: the elements of a list have nodes of their own, and so has each
selection of an alias that is selected more than once, directly or by a fragment. Nodes are
numbered in document order; `Elements[n]` lists the selection sets that are executed below `n`
(none for a leaf, one for an object, one per element of a list). `Key[n]` is the first selection of
the alias of `n`. The code puts an alias into the linked map only when a resolver was found: a
later selection of it is then merged (`MergeField`); without one, each selection is resolved,
and reported, on its own (`NoResolver`). What a merged selection selects is listed below the one
it is merged into (`SkipField` passes over it when it was not merged). Any such tree is allowed
(`TreeAssumption`, `NumberingAssumption`, `KeyAssumption`).

| Model | Code |
|---|---|
| `main`, `at`, `element`, `cursor` | the goroutine of `Execute` and its stack: in which `resolveFields` loop, in which element of `writeList` |
| `ready` | the linked map of resolved fields that `recursiveExecute` walks |
| `mark` | the `offset` of `recursiveExecute` for each field that is being executed |
| `goroutine`, `result` | the goroutine of `RunAsync` and its one-element channel |
| `tokens` | `len(limiter)` |
| `data`, `errs`, `unplaced` | the keys in the buffer, the paths in the error list, whether it has errors without a path (a directive that cannot be evaluated, upon which the field is executed) |
| `Start`, `SkipField`, `MergeField`, `NoResolver`, `ResolveDirect`, `ResolveAsync`, `StartGoroutine`, `ResolvePanics` | `Execute` up to the walk, one iteration of `resolveFields`, directives evaluated first |
| `WriteField`, `FailField`, `EnterField`, `NextElement`, `LeaveField` | one iteration of `recursiveExecute` through `executeSelected` and `writeList` |
| `Answer`, `CloseStream`, `ReleaseMain` | the end of `Execute` |
| `GoroutineReturns`, `GoroutineReleases`, `GoroutineSends`, `GoroutineDies` | the goroutine of `RunAsync` and its deferred function |

Which branch a field takes (skipped, merged when it can be, no resolver, direct, asynchronous, a value,
a null, an error, a panic) is left open at every field. The text of values, commas and braces are not
modelled. A resolver that panics in its goroutine ends the process once its deferred function
has run, because `recover` is called one call too deep in `HandlePanic`.

### Subscription

One subscription: the caller that runs `Execute`, any number of goroutines (`Firers`) that
the resolver starts and that call `FireSubscriptionEvent`, those among them (`Closers`) that
call `FireSubscriptionClose` when the context is cancelled, and the reader. The response
channel is `queue`, of capacity one. Each event that carries a value has a limiter of its own,
named for the event; `limiter` is the field of the `Execution`. What is executed below an event
is one step (`ExecuteEvent`), which may leave a *straggler*: a goroutine of `RunAsync` nobody
waits for and whose deferred function looks `limiter` up later.

The root field resolves in one of six ways (`Kinds`): directly, through `RunAsync`, as one of
several fields (each of the two), not at all, or it is skipped. `Reader` says what the
caller does with the stream: it drains it, or it may leave at any time, which is also what
`ServeGraphQL` does after the first response.

### ResponseStream

What a reader relies on: responses arrive while the stream is open, the stream is closed at
most once, nothing arrives after that, and a query has exactly one response. Both modules above
implement it (`StreamContract`), with `Single` true and false.

### WsNetwork

The connection between a client and a server: one channel of messages per direction, in order,
of capacity `Buffer`; a write blocks while its channel is full. `Disconnect` breaks it at any time:
then writes fail, and reads fail or still return what had arrived. gorilla/websocket and
TCP are seen through this.

### WsServer, WsAnyClient

`WsServer` is `Upgrade` of `httpgql/ws-server.go` for one connection.

| Model | Code |
|---|---|
| `loop` | where the goroutine of `Upgrade` is: before the first message, in the loop, in a call of the engine, in the deferred function; `"stuck"` in it for ever; `"dead"`, the process has ended |
| `streams` | the map of streams, by id; here it holds the number of the stream |
| `mu` | the mutex, named for the forwarder that holds it over a write, or for the loop that panicked with it (`Reader`); where the code locks for a lookup only, the step waits for `mu = 0` |
| `idOf`, `forwarder`, `cancelled` | `msg.Id` as the goroutine captured it, where that goroutine is, `stream.cancel` called |
| `produced`, `sourceClosed`, `taken` | the response channel of the engine: what was sent, the close, what was received |
| `written` | the responses that were written without an error (kept for the properties) |
| `Handshake`, `ReadStart`, `Register`, `ReadStop`, `ReadOther`, `ReadFails`, `Return` | the loop and the deferred function; the engine is called between `ReadStart` and `Register`, so that it may produce before the stream is in the table |
| `PanicOnId` | a start or a stop whose id is a JSON list or object (`BadId`; `msg.Id` is an `interface{}`): the access of the map panics with the mutex locked, for which the deferred function then waits |
| `MarshalFails` | a response that cannot be marshalled: the forwarder panics, and the process ends |
| `Receive`, `ReceiveClosed`, `Unregister`, `LockToWrite`, `WriteData`, `WriteComplete` | the goroutine of a stream: the write happens with the mutex held, and its error is ignored |
| `Produce`, `CloseSource` | the engine, as it appears through a `ResponseStream` |

`ReadStop` takes its message only when the mutex is free: the code reads it before, but nothing can
tell the difference, since the client sees only that the message left the network. A
context is done when its own cancel function was called or when `Upgrade` has returned, upon which net/http
cancels the context of the HTTP request.

`WsAnyClient` puts the server together with every client that keeps to one rule: an id is
not used for a second operation before the `complete` of the first was read. Such a client may
send anything else at any time: a stop for what has ended or never started, an id that is a
list or an object (`ClientNames`), messages that make no sense, nothing; it may stop reading, and vanish.

### WsClient, WsSession

`WsClient` is `httpgql/ws-client.go` for the first connection of a client.

| Model | Code |
|---|---|
| `caller` | where each call of `Client.ServeGraphQLStream` is |
| `registered` | whether `client.connections` has the connection |
| `service`, `working`, `item` | the goroutine of `service` and the operation and the response in its hands |
| `reader`, `handed` | the goroutine that reads, and the message it hands over |
| `commandsClosed` | `close(c.serviceCommands)`; the channel has no buffer, so that a command is handed over in one step of both sides |
| `operations`, `operationId`, `nextStreamId` | `c.streams`, the id of each operation, the counter |
| `chan`, `chanClosed`, `received` | the response channel of each operation, of capacity one, and what was received from it |
| `Dial` ... `HandOver`, `Crash` | `ServeGraphQLStream` of the client and of the connection; a send on the closed channel panics |
| `OpenOperation`, `OpenFails`, `TakeMessage`, `Deliver`, `FailOperation`, `FailedAll` | `serviceOpenOperation`, `serviceRead`, `serviceError` |
| `ReadMessage`, `ReadError`, `CloseCommands`, `UnregisterConnection` | the goroutine that reads and its deferred function |

A caller that dials while the first is still dialing gets a connection of its own
(`DialAnother`), which is not followed. `closeOperation` and `wsConnection.Close`, which nothing in the
repository uses, are left out, and so is the ticker, which has no effect.

`WsSession` joins both ends by the network. It implements `WsAnyClient`
(`KeepsToTheProtocol`: the ids in use are all that were ever given out), so that what was shown for the
server holds for this client. `serviceError` on a `connection_error` or an unknown id is
modelled; that this server never causes it is part of `SessionInv`.

### SyntaxTree, Syntax, QueryText, SchemaText

`SyntaxTree` has the parts that documents and schemas are made of (literals, references to types,
declarations), how they are sorted and looked up, and Go's assignment to a map. Nothing in it is recursive, so that it can
be proved about.

Texts are sequences of tokens. The parsers are functions from the tokens that are left to what
was read (`v`) and the rest (`r`, or `Bad` after a syntax error, as the lexer's panic unwinds to
`CatchSyntaxError`); the writers are functions back. Literals, types, arguments, directives and
descriptions are in `Syntax`; documents with their operations, fragments and selections in
`QueryText`; declarations of a schema in `SchemaText`. Names are ordered by their place in
`Alphabet`, which is what sorting needs; `Strings` and `Blocks` say what a quoted text means.
Blanks, line breaks and positions are left out.

### SchemaTypes, SchemaEvolution, SchemaLoad, Schema

`SchemaTypes` has what the operations do to types, as functions from a *world* to the worlds it may become, and the
places that `VisitDirective` calls a visitor at;
`SchemaEvolution` is the state machine around them. The declarations of a text are data there (`Reading[text]`, the
constant that says what the parser makes of each text), which keeps the recursive parsers
apart from what is proved. `SchemaLoad` reads a text (`Syntax`, `SchemaText`), and `Schema` says what a
schema means and what its text is. `MCSchema` gives `Reading` the value that the parser computes.

A world is a heap with a schema and the way the operation ended so far. The heap is the memory of types: a type is known by
its address, so that a redeclared type and the one before are two, and a field goes on referring to
the one it was resolved to. Address 0 is nil.

| Model | Code |
|---|---|
| `heap`, `schema` | the types ever allocated; `Schema` with its maps of types, directives and entry points |
| `ended` | `"ok"`, an error of `Parse`, or a panic |
| `Parse` | `Schema.Parse`: `parseSchema` over the declarations (replace, `alterAdd`, `alterDrop`, `if` missing), then every loop of `ResolveTypes` (`Stages`) |
| `Rename` | `Schema.RenameTypes` |
| `texts`, `plain` | history: the texts so far, and whether nothing was replaced or dropped |

Go ranges over a map in any order. Each loop of `ResolveTypes` over a map (`Ranged`) therefore
has as many outcomes as the entry it fails at: what the loops before have set stays set, and the
next `Parse` starts from there. The constant `Meta` is the world of the built-in types, whose
addresses all schemas share, `MetaReading` the declarations it is made of, as in `schema/meta.go`; `Renamings` are the
arguments of `RenameTypes`. A declaration that a syntax error cuts short (`whole`) may still have stored
something. Loops over slices are recursive functions (`AfterEach`, `AfterLinks`), not recursive operators.

A parser takes the tokens that are left and returns what it read and the rest; `Then` hands both to
what comes next, and `Bad` is a rest that no parser accepts, so that a syntax error ends the text
wherever it was met.

`Meaning` is what a schema says without addresses or order; three properties compare meanings.

### SchemaTools, Introspection

`AddIfMissing` (`schema/type_add_if_missing.go`), with both heaps in one.
`Introspection` has the answer to the introspection query as data (`Introspect`) and what
`NewSchema` builds from it (`FromIntrospection`), the depth of its `TypeRef` fragment included.

### Validation, Selections, Documents

`Validation` translates `internal/validation`, rule by rule and walk by walk, over the heap of a
schema that `SchemaTypes` resolved (the constant `W`). An error is its rule. A walk hands a context from one
selection to the next, with the errors, the used variables, what is known of each field
(`fieldMap`) and the pairs that were compared; a walk that never ends is the verdict `"endless"`.

`Selections` has what `resolveFields` collects and merges. The lists of selections are Go slices:
`mem` has the arrays with the room that the appends of the parser left, and `clobbered` says
whether an append wrote over an entry that another slice has. `errs` has the kinds of errors that an
execution goes on after: a directive that cannot be evaluated, a field without a resolver, a panic below the
root, which leaves out the field it happened in. `SkipByDirective` is the code's rule, in which
`@skip` hides `@include`. `Apply` is the look-ahead of `FieldSelectionContext`.

`Documents` takes a request from `"received"` over `"parsed"`, `"selected"` and `"valid"` to
`"answered"`, one step for each part of `ServeGraphQLStream` that may return early. Which object
an interface or a union is at run time is open (`pick`). Which definition a property uses for
comparison is a direct one: `Collected` and `Merged` say what a document means without slices or
contexts, and by the documented rule of the directives (`Hidden`: skipped when `@skip` is true or
`@include` is not), `LeadsTo` what a fragment reaches.

### ResolverCache

`Cache.GetOrElseUpdate`, one step per access of what is shared: the lookup in the published map,
`create`, the mutex, the copy of the map as it is then, the store, the unlock. `published` is the
`atomic.Value`, `holder` the mutex, `call` how far each goroutine is. The keys say which of the
two caches they belong to.

### ResolverChain, Resolvers, GoTypes, Packing

`GoTypes` gives what the package asks `reflect`: struct fields by a breadth-first walk over embedded
structs (`typeFields`), methods and their shapes, casts. Types are data (`Declared`).
`Packing` has the packers: which Go type a schema type can be packed into, and what a value
becomes. Numbers are doubled, so that floats have halves; `MaxInt32` is small, and so is `MaxExact`, up to
which a float64 has every integer (2^53 in Go): past it `AsFloat64` rounds. `Finish` sets the defaults
of the structs, once and in order, and stops at the first that does not pack; `Default` is what a struct then
starts from. A panic in packing (`Panicked`) is told apart from an error.

`ResolverChain` is the concurrent part, on top of the cache: each goroutine (`job`) asks the resolvers in the
order of the list, the dynamic one in the middle (`Before`, `After`), and stops at the stages where it reads or
updates a cache. Then it runs the resolution: a field is read, a method called with packed arguments,
`__typename` cast. What each resolver makes of a request is a constant there (`Method`, `Field`, ...): an
operator on the request and what was looked up. `Resolvers` defines these, and `resolvers.cfg` gives the
constants these values. The division is that of the code, where only the caches are shared, and keeps
what is recursive (lists of resolvers, types, arguments) out of the module that is proved about.

| Model | Code |
|---|---|
| `MapResolver`, `MetadataResolver`, `MethodResolver`, `FieldResolver` | the resolvers of the same names |
| `Resolve`, `ResolveList` | the other resolvers and `resolverList` |
| `AskMap` ... `FieldFound` | `DynamicResolverFactory` with its two lookups |
| `Run`, `AskCast`, `CastFound` | running the resolution; `TryCastFunction` |

### Proof modules, MC modules

`QueryExecutionProofs`, `SubscriptionProofs`, `WsServerProofs`, `WsSessionProofs`,
`ResolverCacheProofs`, `ResolverChainProofs` and `SchemaEvolutionProofs` hold the proofs, `SyntaxTreeProofs` the
lemmas about lists that the last of them rests on; the MC modules are the instances for TLC. A definition marked "Mutated form" is a plausible
mistake in the definition before it, which shows that a property notices one.

## The runs

| Run | What it shows | Bounds |
|---|---|---|
| `query` | every field answered once, document order, token accounting, who reads a closed document, the contract of the stream, an answer to every query; the inductive invariant `QueryInv` | six nodes, `{ a { l { x } y y } }`: a list of two objects in an object, and after it an alias that is selected twice; `MaxParallelism` 3: main and two goroutines, so that both a full limiter and two abandoned goroutines occur (245,158 states) |
| `query_panic` | *violated*: a panic of an asynchronous resolver is handled | two fields |
| `subscription_safety` | no event lost while the stream is open, the contract of the stream, and the inductive invariant `SubscriptionInv`, which has events kept apart, in order, and quiet after the close | two firers with two events each, one of which closes, every kind of root field, one straggler, a reader that may leave (508,047 states) |
| `subscription_live` | each `FireSubscriptionEvent` returns; a cancelled subscription closes; no deadlock | two firers with two events each, a direct root field, no straggler, a reader that drains |
| `subscription_async_root` | *violated*: `FireSubscriptionEvent` returns, when the root resolver used `RunAsync` | one firer, one event |
| `ws_server` | a stop reaches every stream that is forwarded under its id, the client can tell by the id what a message is for, streams end with a stop or with the connection; the inductive invariant `ServerInv` | two operations, under one id or under two, one response each, one message per direction, an id that cannot be a key (361,268 states) |
| `ws_session` | callers get their own responses, in order and without a gap; a channel that is closed without an error has delivered everything; nothing after the close; the client keeps to the protocol; the inductive invariant `SessionInv` | two callers (symmetric: they differ in nothing, and only safety is checked), two responses and one, two messages per direction |
| `ws_session_live` | callers, both goroutines of the client, the loop and the forwarders never wait in a circle | two callers, one response and none, three messages per direction: room for all that can be on the way |
| `schema` | what is resolved is complete; a schema read in parts is the one read at once; it survives being printed, introspected, visited and copied from | 16 texts (declarations that refer to each other apart and together, each way of altering, and some that fail), 2 renamings, any three operations in a row (12,227 states) |
| `documents` | what validation accepts executes, with its variables defined, its merged fields in agreement and its recursion bounded; the answer is that of the document; printing keeps it; looking ahead sees it | every operation of two selections out of 18 with every pair of 5 and 4 fragments, and 40 texts for what these do not reach; `MaxDepth` 4 (14,625 states) |
| `documents_merge` | *violated*: a fragment only adds child selections | the same |
| `resolvers` | each request is answered as if it were alone, with what Go's rules give; arguments arrive as they were given; the caches lose and change nothing | two goroutines, two requests in a run out of a catalogue over the struct and pointer types of `MCResolvers`, `MaxInt32` 3, `MaxExact` 4 (492,470 states) |

Two firers with two events are enough for the races over `subMu`: one holds it, one waits, and
each has an event before and after; the order of three waiters is not told apart by any property. Deadlock
is not checked in `subscription_safety`: stragglers, an asynchronous root and a reader that left do wedge the
subscription, which is what `subscription_async_root` shows for one of them.

Two operations are enough for a connection: an id that is used again needs one id twice, and
waiting for the mutex or for the service goroutine needs two streams. With one message per
direction every write can block. Two responses distinguish a gap from an end. Deadlock is not checked in these
runs, since a connection ends and callers may have crashed by then; `StreamsEnd` and
`NobodyWaitsForEver` say who must not be waiting.

Three operations on a schema are a parse, a change and a parse that meets the change, or a
parse that fails between two that do not. `schema` and `documents` do not check deadlock, since their
runs end: a schema after `MaxTexts`, a request with its answer. `resolvers` has a step for the end
(`Finished`), so that a goroutine that waits for a mutex for ever would be a deadlock. Two goroutines
with one request each race for one key and for two keys of one cache; a third waits like the second.
The types have each depth of embedding that Go's rules tell apart (none, one, two by one way, two by two
ways), and the numbers each side of each limit.

Fairness. The Go scheduler runs every goroutine that can run: weak fairness of `Main`, each
`Goroutine(n)`, the caller, each straggler, each firer and the reader. `sync.Mutex` hands itself over
to a waiter that has starved, so that a firer gets a mutex that is free again and again (strong
fairness of `Lock` and `LockToClose`). Nobody has to cancel, and a resolver that runs is assumed to return.
For the server, the same hand-over gives strong fairness of `Loop` and `Forwarder(s)`; the engine
closes the stream of a request whose context is done; the client of `ws_server` reads, but need not
send or disconnect. For the client, goroutines that wait in a send on the same channel are
served in turn (strong fairness of `Call(c)` and `Service`), and the callers read their responses.

## What the violations say

- `HandlePanic` is called by a deferred function, not deferred itself, so that its `recover`
  does nothing (`query_panic`).
- The deferred function of `RunAsync` takes a token from whatever limiter is current. For a root
  resolver (`subscription_async_root`), or a goroutine left behind by a failed event, that can be the limiter
  of a later event, whose own release then waits for ever with `subMu` held.
- The append at `internal/exec/execution.go:167` writes into the array of the parsed selections when it
  has room. A field that is executed twice then appends into the same slots before the first have been
  executed, and one value is answered with the fields of the other (`documents_merge`).

`AnswerIsOfTheDocument` says that the last is the only way in which an answer differs from the
document, besides an `@include` that is overlooked (`Overlooked`, see the facts below) and panics,
which leave fields out. `FragmentsOnlyAdd` and `LookAheadAgrees` leave out what is overlooked in the same way.

## Facts without a run of their own

In subscriptions and queries:

- An alias that finds no resolver is not remembered (`execution.go:156-163`): selected twice, directly or
  by a fragment, it is resolved twice, and its path is reported twice or reported and answered.
- A root resolver that used `RunAsync` can fire before `rootFields` is set, which panics.
- A send to a channel nobody reads keeps `subMu`, and the close waits for it: cancelling does not end a
  subscription whose caller has stopped reading. `ServeGraphQL` is such a caller, and cancels the
  context of a copy it does not pass on.
- With `MaxParallelism` 1 the first `RunAsync` waits for the token main holds (`Start`,
  `StartGoroutine`), and a subscription whose only field is skipped returns a stream nobody writes to or
  closes (the state `silent`).

In the connections:

- The server takes any JSON value for an id. A list or an object panics in the access of the table
  (`ws-server.go:100` and `:128`) with the mutex locked, and the deferred function waits for it: the streams of
  the connection are never cancelled nor forwarded to their end. A response whose data is not JSON panics
  in its forwarder and ends the process. `StreamsEnd` is about everything else.
- A caller that waits to hand over its request when the reading goroutine closes `serviceCommands`
  panics (`Crash`; TLC reaches it in 10 steps).
- The goroutines of a connection start before it is put into the map. One that fails at once
  has been removed before it is added, and stays there: every later call panics (11 steps).
- The service goroutine waits for the reader of one response channel, and all streams of the connection
  with it. `NobodyWaitsForEver` therefore assumes callers that read.
- With the network full of starts in one direction and of data in the other, the
  service goroutine, the reading goroutine, the loop and a forwarder wait in a circle.
  `ws_session_live` has room for what can be on the way.
- The client never looks at the context of a request and never sends a stop, although `request.go:11`
  says that the context is there to cancel with.

In the schema (the exemptions in the properties name them):

- Each `Parse` appends to `PossibleTypes` again (`schema.go:550`), so that objects are in it twice.
- A redeclared type leaves the fields of other types on the old definition; a later renaming
  leaves them with a name nobody declares (`Dangling`).
- A `Parse` that failed leaves interfaces that are nil; `String()` panics on them, and so does dropping from such an
  object (`alterDrop`), when its directives and fields are already gone. The properties about a schema's text
  therefore ask for `ended = "ok"`.
- `RenameTypes` leaves the names of entry points, interfaces and members as they were, so that the
  next `Parse` fails; two types that get one name become one.
- Altering a built-in type changes it for every schema of the process. An unknown mode of
  `@graphql(alter:)` panics.
- An argument of a directive that is left out and has no default is nil, and printing it panics (`HasNilArgument`).
- The text leaves out directives of anything but objects, fields and enum values; introspection also
  the rest of them, defaults of input fields, locations, and it needs a query type; a type wrapped more than seven
  times panics in `NewSchema`.
- `AddIfMissing` does not bring the interfaces an object implements, and stores nil for a
  directive that is not declared.
- The resolver of `possibleTypes` sorts the slice of the schema in place while others may
  read it (`internal/introspection/resolvers.go:151`); this race has no model.

In validation and execution of documents:

- `SkipByDirective` looks at `@include` only when there is no `@skip`: a field with
  `@skip(if: false) @include(if: false)` is answered, although `internal/assets/meta.graphql:33` says of `@include`
  "only when the `if` argument is true" (an exemption of `AnswerIsOfTheDocument`, `FragmentsOnlyAdd` and
  `LookAheadAgrees`).
- A `@skip` or `@include` whose variable is null is reported in an error without a path, and
  the field is executed. A panic below the root becomes the error of one field, and the others go on.
- `markUsedFragments` returns early, so that a variable that is not defined gets through in a document with
  several operations (the exemption of `VariablesDefined`).
- Arguments are compared with all variables nil: two variables look alike (`argumentsConflict`).
- An integer that is too wide panics when it is evaluated; an operation whose entry point the
  schema does not have is accepted, and panics (the exemptions of `AcceptedExecutes`).
- `validateMaxDepth` never ends on fragments that spread each other without a field between them.
- With `Validate` unset nothing fills the `fieldMap` and every field is skipped; a return with an error after
  `TraceQuery` calls neither `traceFinish` nor `doc.Close`.
- Looking ahead panics on a union with a field (`__typename`) and refuses the meta fields.
- The parser of operations takes directives before variables; an empty selection set prints as nothing, an
  inline fragment without a type as `on` without a name; directives of variables are not printed.

In the resolvers:

- `resolvers/resolver_list.go:6` says the last resolver wins. A dynamic resolver that is not the first overrides only
  what it finds itself: with `next` given it falls through to it.
- `MethodResolver` returns nil, not `next`, when the parent is invalid or the arguments cannot
  be packed. `DirectiveResolver` ignores a directive without arguments, although
  `resolvers/directive_resolver.go:7` says that it applies to a field or type with the directive.
- `typeFields` counts what a doubly reached struct embeds once, so that a field Go calls ambiguous is
  resolved (`EmbedsTwice`). Methods with an underscore are out of reach.
- A nil element of a list of an abstract type panics in `__typename`. An integer
  given for an ID becomes the character of that number, and one given for a Float that a float64 does not have
  becomes one next to it. `PackedAsGiven` says so of both.
- `MethodResolver` does not look at the error of `Finish`, which stops at the first default that does not
  pack, a `null`: the defaults after it are lost, and the method gets zeros. When the struct in
  question is an input object, the arguments around it have nothing to start from and each call panics. A
  default of a number whose Go type has a name of its own panics when it is set, before the method is called.
- `mapResolver` asks for the kind of the key, so that a map with a named type of string for a key
  panics in `MapIndex`. `StructPacker` asserts that what it is given is a map.

## The proofs

For `QueryExecution`, for every tree and every `MaxParallelism`: `WalkInvariant`, `TypeCorrect`,
`ParentsKept`, `TokensAccountedFor`, `ParallelismBounded`, `ImplementsStream`, from
`TreeAssumption` alone; and `QueryInvariant`, `KeysInDocumentOrder`, `EveryFieldAccountedFor`,
`ReadersOfClosedDocAbandoned`, `EveryWaitEnds`, `EveryStepCloser`, `LeftIsCounted`, from
`NumberingAssumption` as well. That one says that the
numbers of the nodes are document order: fields of a selection set are numbered as they are listed, and
what is below a field comes before its next sibling. Nodes are only names, so it restricts no tree. No proof needs
`KeyAssumption`, by which the selections of one alias are in one selection set: each element of a list has a linked map of its own.

- That a key is never left without the key of its parent (`DataKeepsParents`) is not inductive: a truncation
  is safe only because the offset it goes back to is where the key of the failing node stands, with everything below it
  behind. `WalkInv` says so: the nodes from `at` up to the root form a `Trail`, each with its key right after its
  `mark` and marks growing downwards. That main never enters a node twice needs `Fresh` (what the loop has not
  come to has not been executed), and that what it executes is a node of the current selection
  set needs `ReadyVisited`.
- The limiter: `LimiterInv` is inductive given `WalkInv`, since `StartGoroutine` takes a node
  that had no goroutine (`Fresh`); the rest is counting `Holders`.
- The order: keys in document order is not inductive. `OrderInv` adds that what a live frame has still to
  write comes after all that is in the buffer, and that what is in the buffer after `at` is nested in it, so that a
  truncation takes nothing else.
- The account: `AccountInv` has each selection in one place at a time: ahead of the loop, in a linked map, in
  the buffer, in the error list, skipped, or merged. A truncation moves a subtree out of the buffer and its
  root to the errors, which is why only selections below a live field are in exactly one. That an alias is in an
  object once, and that what was merged is answered for, is `KeyInv`: at most one selection of an alias
  was resolved, and one that was merged found it. `EveryFieldAccountedFor` does not say that a path
  is reported once: an alias without a resolver is reported by each of its selections.
- The abandoned goroutines: by `AbandonInv` a goroutine that still reads a selection stands in the linked map
  of its parent, and that parent is in the buffer or below a failed field. When main is through
  (`MainInv`), no linked map of a frame in the buffer holds anything.
- The stream: `StreamInv` ties the number of responses and the close to how far main is.
- Why an execution ends: every step makes `Left` smaller in the lexicographic order of tuples of natural
  numbers (`EveryStepCloser`, `LeftIsCounted`), since a selection is resolved once (`AccountInv`) and leaves its
  linked map when it is executed; and whoever waits, waits for a goroutine that does not wait itself
  (`EveryWaitEnds`, from `LimiterInv` and `SettleInv`). With the fairness of `Spec` that is the argument behind
  `Answered`; its last step, from these two to "eventually", is beyond the prover and stays with the run `query`.
  `WaitsEnd` names the two limiters on which the code does block for ever: one of capacity 0, and one of
  capacity 1 when a resolver calls `RunAsync`, because main has the only place. `WaitsEnd` and `AlwaysCloser` are
  no properties of a run; `query.cfg` finds no violation of either when they are added to it.

For `Subscription`, for any set of firers, any number of events and any behaviour of root, stragglers and
reader: `SubscriptionInvariant`, `EventsKeptApart`, `OrderKept`, `NothingLost`, `QuietAfterClose`,
`ImplementsStream`, from `SubscriptionAssumption`. `SubscriptionInv` says who holds `subMu`
(`LockInv`: and that the close and the clearing of the callbacks happen under it), whose event
the buffers hold (`BufferInv`), that what was delivered is older than what is being fired
(`OrderInv`), and that an event which nobody holds any more was sent (`LossInv`).

For the server, for any set of ids, any number of operations and responses, any capacity of the network
and any client that keeps to the rule of `WsAnyClient`: `ServerInvariant`, `StopHonoured`,
`MessagesFindOperations`, `CompleteWritten`, from `NetworkAssumption`. That a stop is honoured
needs the table to hold the stream that is forwarded under the id (`RegisteredInv`), although
`Unregister` deletes by id: it deletes the right entry because an id in use
is used once (`UseInv`), by a stream that is not done or whose `complete` is still on the way, or
by a start that was not read. That in turn holds because `complete` is the last message of its stream
(`MessageInv`) and is written after the entry is gone. `CountInv` counts what was written.

For a session, for any number of callers that share a connection, any numbers of responses and any
capacity of the network: `SessionInvariant`, `OwnResponses`, `ClosedDelivered`, `ClosedQuiet`,
`ProtocolKept`, from `NetworkAssumption` and `ClientAssumption`.

- `ProtocolKept` is the refinement: each step of the client maps to a step of the client of
  `WsAnyClient` or to none. The one obligation of that client is to start an id only when it is in no use,
  which `IdInv` and `OnceInv` give: ids are given out in turn, and one that was given out is in one place, a `start`
  that was not read or a stream.
- Since every step maps, the invariant of the server and the lemmas of `WsServerProofs` hold of a session as they
  are: `SessionInv` contains `AnyClient!ServerInv`, and its proof cites the server's.
- That a client never gets an answer under an id it does not know, which would fail all its operations,
  is not inductive. `KnownInv` says which ids have to be in its table: those of a `start` on the way, of a stream that
  is in use, and of the message that is handed over. An entry goes with `complete`, which is the last of
  its stream (`HandedInv`), or with the connection.
- `FlowInv` is what "no gap" takes: what the client passed on of a stream and what is on the network are together
  exactly what the server wrote, in order. With `CompleteInv` a caller that reads `complete` has all.
- `OwnInv` says what a caller has; `TableInv` and `ServiceInv` that what is in the hands of the service
  goroutine is for the caller that the table names; `DialInv` and `HandshakeInv` how the connection comes and goes.

For the resolver cache, for any goroutines, caches and keys: `CacheInvariant` and `EntriesStay`, from
`CacheOfAssumption` and `NobodyAssumption`. That a store loses no entry is not inductive: it needs the
copy that is stored to be of the map that is published (`CopyInv`), which holds because the mutex is held from
the copy to the store (`MutexInv`) and nobody stores without it. `MapsInv` says that every map, published or not, has
for each key what is created for it, so that a caller that found the entry and one that created it return the same.

For the resolver chain, for any resolvers, requests, Go types and keys and any number of goroutines:
`ChainInvariant`, `AnswersAlone`, `ImplementsCache`, `CachesKept`, from the cache's assumptions and four
on the constants, which TLC evaluates for those of `Resolvers`: requests and values have keys in the caches
(`RequestAssumption`, `ValueAssumption`), and following pointers (`DereferencedAssumption`) and casting
(`CastsToAssumption`) satisfy the equations that define them. These equations stand in for the recursion. `JobInv` (in the
proof module) says that a job has at each stage what it would have alone; the steps that take something from a cache
keep it since the call returns what is created for its key, which is the cache's invariant. Every
step of the chain is one of `CacheNext` or none (`ImplementsCache`), so that what was proved of the cache holds here.
In a search for the name of an abstract type, `Trying` relates the value that is followed to the parent: they lead
to the same end and fit the same name.

For the schema, for any texts, however they are read, any renamings and any built-in types that a schema can be made of:
`SchemaHolds`, `ResolvedHolds`, `DefaultsSeen` and `TypesAreKept`, from `AlphabetAssumption`, `ReadingAssumption`,
`MetaAssumption` and `RenamingsAssumption`. The second says that a text is read as a list of declarations without addresses,
the third that the built-in schema came about by parsing a text, the others that names are finitely many. TLC
evaluates all four for what the parser of `SchemaLoad` reads in the run `schema`.

- `SchemaInv` looks at the types that the schema has now. It is not inductive, since `alter`, a redeclaration and
  a renaming leave types on the heap that others still refer to, and the next `ResolveTypes` writes the lists of those
  that come back. `WorldInv` says it of every type on the heap and of every directive: each address in a
  reference, in `interfaces` and in `possible` is on the heap or nil, and in the two lists it leads to an interface or to
  an object. These lists stay right because no step ever changes the kind of an address: a redeclaration allocates. That is a theorem of
  its own, `TypesAreKept`, with the name kept too by all but a renaming; every lemma about an operation or a stage says it of its worlds
  (`Keeps`). It is no property of a run; TLC finds no violation of it under `schema.cfg`.
- `WorldInv` is a property of a world, so that it can be carried through a text declaration by declaration (`ParsedWorld`)
  and through `ResolveTypes` stage by stage, however many entries a range came to before one failed. It holds of the worlds in between,
  which no state of `SchemaEvolution` shows. `IInv` is `WorldInv` of the state with what a success means (`Complete`).
- That a success is complete goes from loop to loop. Each has a lemma with the stages before as hypotheses: `TypesResolved`, `DeclsResolved`,
  `EntriesResolved`, `ObjectsLinked`, `UnionsLinked` is what each of them adds, and no later one takes away what an earlier one
  added, because it writes other fields of the type or only appends. A range that ends without an error
  has come to every entry (`RangedFacts`). An object is among the possible types of its interfaces whatever failed before, since the loop that links it
  starts from an empty list of interfaces and appends to each as it goes.
- `DefaultsSeen` (`VisitorSeesDefaults`) rests on two more parts of `Complete`: after the loops over types and enum values
  each directive of a field or a value has every argument its declaration has (`FieldsFilled`, `ValuesFilled`). The directives of
  types, input values and the schema itself are not filled in, and the property leaves them out. What is filled stays so, since sorting
  permutes (`SortedNames`) and the loop over the declarations, which comes later, keeps the names of their arguments (`ResolvedDecls`,
  `SameFilled`). That the visitor finds the directive it was called for takes each declaration to be stored under its own name,
  which `WorldInv` says.
- References are resolved from any state: a reference that is not nil was resolved by an earlier `Parse` and is kept,
  even when its type is no longer the one of that name. This is why `Complete` asks where references lead to, not to which of two types of one name.
- Loops over slices and over the sorted names are recursive functions on `0 .. n`. That such a function satisfies its equation is proved where it is
  used, from the principle of induction in its set form (`Induction`, from `LeastNumber` of
  `SyntaxTreeProofs`): a set of numbers with 0 and with each successor has all. That form takes no operator as a parameter, so
  the provers can use it. The lemmas about `SortByName`, `SortNames` and `Kept` (a sorted
  or filtered list has the elements of the list) are proved from the same two.

Only model-checked:

- everything under fairness (`Answered`, `FiringReturns`, `CancelEndsSubscription`, `StreamsEnd`, `NobodyWaitsForEver`), which is
  out of the prover's reach;
- of `schema`, `PartsAndWhole`, `TextRoundTrip`, `AddedTypeIsComplete` and
  `IntrospectionRoundTrip`: they compare what recursive operators read and write (texts, literals, the types that a type
  reaches), and `tlapm` does not take a module that declares one;
- all of `documents`, for the same reason: its parsers, walks and the merging of fragments are recursive over documents;
- `ResolvedAsInGo` and `PackedAsGiven`, which compare recursive definitions.

## Not modelled

- HTTP: one request and one response, encoded.
- The scanner, positions, indentation and messages of errors: text.
- Scalars, logging, tracing, the deprecated API, generators, assets, examples and test support.
- `Schema.DeepCopy`: generated, field by field. `makeSuggestion`: the end of a message.
- `inputconv`, and input types that refer to themselves with defaults (their packer recurses for ever).
- The connection that a racing caller dials (see the plan), `wsConnection.Close` and `closeOperation`, which
  nothing calls.

## The plan

1. Proofs: how `Packing` treats one value, once that is apart from the recursion; for a subscription what
   `EveryWaitEnds` says of a query.
2. The client's map of connections with several connections: racing dials, the overwritten
   entry, the entry of a dead connection.
3. The selection pool with two requests: what an abandoned goroutine reads after the reuse.
4. The punctuation of the buffer (`ResponseWriter`): a raw message that is empty, a truncated comma.
5. A second closer and a firer within the resolution of `Subscription`.
