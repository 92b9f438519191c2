---------------------------- MODULE Subscription ----------------------------
(***************************************************************************)
(* One subscription: Execute sets it up, the goroutines of its resolver    *)
(* fire events through FireSubscriptionEvent and end it through            *)
(* FireSubscriptionClose (internal/exec/execution.go), and the caller of   *)
(* ServeGraphQLStream reads the responses from a channel of capacity one   *)
(* (engine.go).                                                            *)
(*                                                                         *)
(* What is executed below an event is the subject of QueryExecution.  All  *)
(* that is kept of it here is that it may leave a straggler behind: a      *)
(* goroutine started by RunAsync that nobody waits for, because the field  *)
(* above it failed, and that still has a limiter token to give back.       *)
(***************************************************************************)
EXTENDS Integers, Sequences, FiniteSets, SequencesExt

CONSTANTS Firers,          \* the goroutines of the subscription's resolver
          Closers,         \* those that call FireSubscriptionClose when cancelled
          None,            \* stands for nil
          MaxEvents,       \* bound: events that one firer fires
          MaxParallelism,  \* the capacity of a limiter
          RootKinds,       \* how the root field may resolve
          MaxAbandoned,    \* bound: events whose execution leaves a straggler behind
          Reader           \* what the reader of the stream does

\* "direct" and "async": a resolution, run by Execute or by RunAsync; "many" and
\* "manyAsync": the same, but more than one field is selected; "missing": no resolver,
\* an error; "skipped": the field is excluded, no error.
Kinds == {"direct", "async", "many", "manyAsync", "missing", "skipped"}

\* The no-th event that a firer fires.
Event == [by : Firers, no : 1..MaxEvents]

ASSUME SubscriptionAssumption ==
  /\ Closers \subseteq Firers
  /\ None \notin Firers \cup Event
  /\ MaxEvents \in Nat
  /\ MaxParallelism \in Nat \ {0}
  /\ RootKinds \subseteq Kinds
  /\ MaxAbandoned \in Nat
  /\ Reader \in {"drains", "leaves"}

\* Every event that carries a value gets a limiter of its own, which is named for it;
\* limiter None is the one that Execute made.
Limiters == Event \cup {None}

Message == [of : Event, data : Event \cup {None}, errs : Event \cup {None}]

VARIABLES
  exec,        \* what Execute does
  rootKind,    \* how the root field resolved
  rootFields,  \* whether Execution.rootFields is set
  started,     \* whether the resolver has started its goroutines
  firer,       \* per firer, where it is
  fired,       \* per firer, the number of the event it fires or fired last
  asError,     \* per firer, whether that event is an error
  subMu,       \* the firer that holds subMu
  eventFunc,   \* whether FireSubscriptionEventFunc is still set
  slot,        \* the event that the Resolution of the root field returns
  data,        \* the event in the response buffer
  errs,        \* the event in the error list
  limiter,     \* the current limiter
  tokens,      \* per limiter, the number of its elements
  straggler,   \* per limiter, the goroutine that put a second token into it
  target,      \* per straggler, the limiter it takes a token from
  queue,       \* the response channel
  sent,        \* how many responses were sent
  closed,      \* whether the response channel is closed
  docOpen,     \* whether the document still owns its field selections
  received,    \* what the reader has received
  reader,      \* what the reader does
  cancelled,   \* whether the context of the request is cancelled
  crashed      \* whether a panic that nothing recovers ended the process

setup    == <<exec, rootKind, rootFields, started>>
firing   == <<firer, fired, asError>>
buffer   == <<slot, data, errs>>
limiting == <<limiter, tokens, straggler, target>>
stream   == <<queue, sent, closed, docOpen>>
reading  == <<received, reader, cancelled>>
vars     == <<setup, firing, subMu, eventFunc, buffer, limiting, stream, reading, crashed>>

\* Where a firer is while it holds subMu, and anywhere.
Holding == {"locked", "execute", "send", "release", "unlock", "closing", "closed"}
Places  == {"idle", "fire", "lock", "lockToClose", "ended"} \cup Holding

\* What has become of a goroutine that holds a limiter token.
Progress == {"none", "running", "returned", "receiving", "gone"}

TypeOK ==
  /\ exec \in {"start", "publish", "subscribe", "wait", "subscribed", "failed", "silent"}
  /\ rootKind \in Kinds \cup {None}
  /\ rootFields \in BOOLEAN
  /\ started \in BOOLEAN
  /\ firer \in [Firers -> Places]
  /\ fired \in [Firers -> 0..MaxEvents]
  /\ asError \in [Firers -> BOOLEAN]
  /\ subMu \in Firers \cup {None}
  /\ eventFunc \in BOOLEAN
  /\ slot \in Event \cup {None}
  /\ data \in Event \cup {None}
  /\ errs \in Event \cup {None}
  /\ limiter \in Limiters
  /\ tokens \in [Limiters -> Nat]
  /\ straggler \in [Limiters -> Progress]
  /\ target \in [Limiters -> Limiters]
  /\ queue \in Seq(Message)
  /\ sent \in Nat
  /\ closed \in BOOLEAN
  /\ docOpen \in BOOLEAN
  /\ received \in Seq(Message)
  /\ reader \in {"reading", "left", "ended"}
  /\ cancelled \in BOOLEAN
  /\ crashed \in BOOLEAN

Init ==
  /\ exec = "start"
  /\ rootKind = None
  /\ rootFields = FALSE
  /\ started = FALSE
  /\ firer = [f \in Firers |-> "idle"]
  /\ fired = [f \in Firers |-> 0]
  /\ asError = [f \in Firers |-> FALSE]
  /\ subMu = None
  /\ eventFunc = TRUE
  /\ slot = None
  /\ data = None
  /\ errs = None
  /\ limiter = None
  /\ tokens = [l \in Limiters |-> 0]
  /\ straggler = [l \in Limiters |-> "none"]
  /\ target = [l \in Limiters |-> None]
  /\ queue = <<>>
  /\ sent = 0
  /\ closed = FALSE
  /\ docOpen = TRUE
  /\ received = <<>>
  /\ reader = "reading"
  /\ cancelled = FALSE
  /\ crashed = FALSE

-----------------------------------------------------------------------------
(* Execute, on the goroutine of the caller.                                *)

\* resolveFields over the root selection set.  A resolver that uses RunAsync starts
\* its goroutine right here.
ResolveRoot ==
  /\ exec = "start"
  /\ \E k \in RootKinds :
       /\ rootKind' = k
       /\ exec' = CASE k \in {"direct", "async"} -> "publish"
                    [] k \in {"many", "manyAsync", "missing"} -> "failed"
                    [] k = "skipped" -> "silent"
       /\ IF k \in {"async", "manyAsync"}
            THEN /\ MaxParallelism > 1
                 /\ straggler' = [straggler EXCEPT ![None] = "running"]
                 /\ tokens' = [tokens EXCEPT ![None] = 2]
            ELSE /\ straggler' = straggler
                 /\ tokens' = [tokens EXCEPT ![None] = 1]
  /\ UNCHANGED <<rootFields, started, firing, subMu, eventFunc, buffer, limiter, target,
                 stream, reading, crashed>>

\* Execute makes the resolved field known to FireSubscriptionEvent.
PublishRootFields ==
  /\ exec = "publish"
  /\ rootFields' = TRUE
  /\ exec' = IF rootKind = "async" THEN "wait" ELSE "subscribe"
  /\ UNCHANGED <<rootKind, started, firing, subMu, eventFunc, buffer, limiting, stream,
                 reading, crashed>>

\* The resolution starts the goroutines that fire events, or returns an error.
RunResolution ==
  /\ exec = "subscribe"
  /\ \/ exec' = "subscribed" /\ started' = TRUE
     \/ exec' = "failed" /\ UNCHANGED started
  /\ UNCHANGED <<rootKind, rootFields, firing, subMu, eventFunc, buffer, limiting, stream,
                 reading, crashed>>

\* The resolution that RunAsync returned waits for its goroutine, and returns the
\* error of a resolver that started nothing.
AwaitResolution ==
  /\ exec = "wait"
  /\ straggler[None] = "gone"
  /\ exec' = IF started THEN "subscribed" ELSE "failed"
  /\ UNCHANGED <<rootKind, rootFields, started, firing, subMu, eventFunc, buffer, limiting,
                 stream, reading, crashed>>

Execute == ResolveRoot \/ PublishRootFields \/ RunResolution \/ AwaitResolution

-----------------------------------------------------------------------------
(* The goroutines that hold a limiter token after main has moved on.       *)

\* The asynchronous root resolver runs: it starts the goroutines that fire events, or
\* returns an error.
AsyncRootRuns ==
  /\ straggler[None] = "running"
  /\ started' \in BOOLEAN
  /\ straggler' = [straggler EXCEPT ![None] = "returned"]
  /\ UNCHANGED <<exec, rootKind, rootFields, firing, subMu, eventFunc, buffer, limiter,
                 tokens, target, stream, reading, crashed>>

\* Its deferred function looks up the limiter: the current one, not the one that it
\* put its token into.
StragglerLooksUp(l) ==
  /\ straggler[l] = "returned"
  /\ straggler' = [straggler EXCEPT ![l] = "receiving"]
  /\ target' = [target EXCEPT ![l] = limiter]
  /\ UNCHANGED <<setup, firing, subMu, eventFunc, buffer, limiter, tokens, stream, reading,
                 crashed>>

\* It takes a token out of that limiter.
StragglerReleases(l) ==
  /\ straggler[l] = "receiving"
  /\ tokens[target[l]] > 0
  /\ tokens' = [tokens EXCEPT ![target[l]] = @ - 1]
  /\ straggler' = [straggler EXCEPT ![l] = "gone"]
  /\ UNCHANGED <<setup, firing, subMu, eventFunc, buffer, limiter, target, stream, reading,
                 crashed>>

-----------------------------------------------------------------------------
(* FireSubscriptionEvent, called by firer f.                               *)

Move(f, from, to) ==
  /\ firer[f] = from
  /\ firer' = [firer EXCEPT ![f] = to]

TheEvent(f) == [by |-> f, no |-> fired[f]]

\* The resolver decides to fire its next event.
Fire(f) ==
  /\ started
  /\ fired[f] < MaxEvents
  /\ Move(f, "idle", "fire")
  /\ fired' = [fired EXCEPT ![f] = @ + 1]
  /\ \E e \in BOOLEAN : asError' = [asError EXCEPT ![f] = e]
  /\ UNCHANGED <<setup, subMu, eventFunc, buffer, limiting, stream, reading, crashed>>

\* Without rootFields the method panics on the goroutine of the resolver.
CheckRootFields(f) ==
  /\ Move(f, "fire", "lock")
  /\ crashed' = ~rootFields
  /\ UNCHANGED <<setup, fired, asError, subMu, eventFunc, buffer, limiting, stream, reading>>

Lock(f) ==
  /\ subMu = None
  /\ subMu' = f
  /\ Move(f, "lock", "locked")
  /\ UNCHANGED <<setup, fired, asError, eventFunc, buffer, limiting, stream, reading, crashed>>

\* Mutated form: the event is dropped while an earlier response is unread.
DropEventWhenBusy(f) ==
  /\ ~eventFunc \/ queue # <<>>
  /\ Move(f, "locked", "unlock")
  /\ UNCHANGED <<setup, fired, asError, subMu, eventFunc, buffer, limiting, stream, reading,
                 crashed>>

\* Mutated form: the event is tried again instead of being dropped.
DropEventRetries(f) ==
  /\ ~eventFunc
  /\ subMu' = None
  /\ Move(f, "locked", "lock")
  /\ UNCHANGED <<setup, fired, asError, eventFunc, buffer, limiting, stream, reading, crashed>>

\* The subscription is closed already: the event is dropped.
DropEvent(f) ==
  /\ ~eventFunc
  /\ Move(f, "locked", "unlock")
  /\ UNCHANGED <<setup, fired, asError, subMu, eventFunc, buffer, limiting, stream, reading,
                 crashed>>

\* Mutated form: the errors of the event before are kept.
InstallEventKeepsErrors(f) ==
  /\ eventFunc
  /\ Move(f, "locked", IF asError[f] THEN "send" ELSE "execute")
  /\ slot' = TheEvent(f)
  /\ data' = None
  /\ IF asError[f]
       THEN errs' = TheEvent(f) /\ UNCHANGED <<limiter, tokens>>
       ELSE /\ limiter' = TheEvent(f)
            /\ tokens' = [tokens EXCEPT ![TheEvent(f)] = 1]
            /\ UNCHANGED errs
  /\ UNCHANGED <<setup, fired, asError, subMu, eventFunc, straggler, target, stream, reading,
                 crashed>>

\* Install the event as the result of the root field and reset the response; a value
\* gets a fresh limiter, with one token, to be executed under.
InstallEvent(f) ==
  /\ eventFunc
  /\ Move(f, "locked", IF asError[f] THEN "send" ELSE "execute")
  /\ slot' = TheEvent(f)
  /\ data' = None
  /\ IF asError[f]
       THEN errs' = TheEvent(f) /\ UNCHANGED <<limiter, tokens>>
       ELSE /\ errs' = None
            /\ limiter' = TheEvent(f)
            /\ tokens' = [tokens EXCEPT ![TheEvent(f)] = 1]
  /\ UNCHANGED <<setup, fired, asError, subMu, eventFunc, straggler, target, stream, reading,
                 crashed>>

\* recursiveExecute writes what the root field resolves to.
ExecuteEvent(f) ==
  /\ Move(f, "execute", "send")
  /\ data' = slot
  /\ \/ UNCHANGED <<tokens, straggler>>
     \/ /\ Cardinality({l \in Event : straggler[l] # "none"}) < MaxAbandoned
        /\ tokens[limiter] < MaxParallelism
        /\ tokens' = [tokens EXCEPT ![limiter] = @ + 1]
        /\ straggler' = [straggler EXCEPT ![limiter] = "returned"]
  /\ UNCHANGED <<setup, fired, asError, subMu, eventFunc, slot, errs, limiter, target, stream,
                 reading, crashed>>

\* FireSubscriptionEventFunc: the channel has room for one response.
SendResponse(f) ==
  /\ Len(queue) < 1
  /\ Move(f, "send", IF asError[f] THEN "unlock" ELSE "release")
  /\ crashed' = closed
  /\ queue' = Append(queue, [of |-> TheEvent(f), data |-> data, errs |-> errs])
  /\ sent' = sent + 1
  /\ UNCHANGED <<setup, fired, asError, subMu, eventFunc, buffer, limiting, closed, docOpen,
                 reading>>

\* The deferred receive that gives the token of the event back.
ReleaseEvent(f) ==
  /\ tokens[limiter] > 0
  /\ Move(f, "release", "unlock")
  /\ tokens' = [tokens EXCEPT ![limiter] = @ - 1]
  /\ UNCHANGED <<setup, fired, asError, subMu, eventFunc, buffer, limiter, straggler, target,
                 stream, reading, crashed>>

Unlock(f) ==
  /\ subMu' = None
  /\ Move(f, "unlock", "idle")
  /\ UNCHANGED <<setup, fired, asError, eventFunc, buffer, limiting, stream, reading, crashed>>

-----------------------------------------------------------------------------
(* FireSubscriptionClose, called by firer f once the context is cancelled. *)

NoticeCancel(f) ==
  /\ started
  /\ cancelled
  /\ Move(f, "idle", IF f \in Closers THEN "lockToClose" ELSE "ended")
  /\ UNCHANGED <<setup, fired, asError, subMu, eventFunc, buffer, limiting, stream, reading,
                 crashed>>

LockToClose(f) ==
  /\ subMu = None
  /\ subMu' = f
  /\ Move(f, "lockToClose", "closing")
  /\ UNCHANGED <<setup, fired, asError, eventFunc, buffer, limiting, stream, reading, crashed>>

\* Mutated form: the channel is left open.
CloseDocumentOnly(f) ==
  /\ Move(f, "closing", "closed")
  /\ crashed' = ~eventFunc
  /\ docOpen' = FALSE
  /\ UNCHANGED <<setup, fired, asError, subMu, eventFunc, buffer, limiting, queue, sent, closed,
                 reading>>

\* FireSubscriptionCloseFunc: close the channel and the document.  After the first
\* close the function is nil, and calling it panics.
CloseStream(f) ==
  /\ Move(f, "closing", "closed")
  /\ crashed' = ~eventFunc
  /\ closed' = TRUE
  /\ docOpen' = FALSE
  /\ UNCHANGED <<setup, fired, asError, subMu, eventFunc, buffer, limiting, queue, sent,
                 reading>>

\* Mutated form: FireSubscriptionEventFunc stays set.
KeepFuncs(f) ==
  /\ subMu' = None
  /\ Move(f, "closed", "ended")
  /\ UNCHANGED <<setup, fired, asError, eventFunc, buffer, limiting, stream, reading, crashed>>

ForgetFuncs(f) ==
  /\ eventFunc' = FALSE
  /\ subMu' = None
  /\ Move(f, "closed", "ended")
  /\ UNCHANGED <<setup, fired, asError, buffer, limiting, stream, reading, crashed>>

-----------------------------------------------------------------------------
(* The reader of the stream.                                               *)

Serving == exec \in {"subscribed", "silent"}

\* A reader may leave after a response, as ServeGraphQL does after the first: it cancels a
\* context that the request was not given.  Or it may leave when it cancels.
Leaving == {reader} \cup {r \in {"left"} : Reader = "leaves" /\ reader = "reading"}

Receive ==
  /\ Serving /\ reader = "reading" /\ queue # <<>>
  /\ queue' = Tail(queue)
  /\ received' = Append(received, Head(queue))
  /\ reader' \in Leaving
  /\ UNCHANGED <<setup, firing, subMu, eventFunc, buffer, limiting, sent, closed, docOpen,
                 cancelled, crashed>>

ReceiveClose ==
  /\ Serving /\ reader = "reading" /\ queue = <<>> /\ closed
  /\ reader' = "ended"
  /\ UNCHANGED <<setup, firing, subMu, eventFunc, buffer, limiting, stream, received,
                 cancelled, crashed>>

\* The caller of ServeGraphQLStream cancels the context of its request, and then goes
\* on reading or does not.
Cancel ==
  /\ exec # "start" /\ ~cancelled
  /\ cancelled' = TRUE
  /\ reader' \in Leaving
  /\ UNCHANGED <<setup, firing, subMu, eventFunc, buffer, limiting, stream, received, crashed>>

-----------------------------------------------------------------------------
Firer(f) ==
  /\ ~crashed
  /\ \/ Fire(f) \/ CheckRootFields(f) \/ Lock(f)
     \/ DropEvent(f) \/ InstallEvent(f) \/ ExecuteEvent(f)
     \/ SendResponse(f) \/ ReleaseEvent(f) \/ Unlock(f)
     \/ NoticeCancel(f) \/ LockToClose(f) \/ CloseStream(f) \/ ForgetFuncs(f)

Straggler(l) == ~crashed /\ (StragglerLooksUp(l) \/ StragglerReleases(l))

AsyncRoot == ~crashed /\ AsyncRootRuns

Caller == ~crashed /\ Execute

Reading == ~crashed /\ (Receive \/ ReceiveClose)

\* The process has died, or there is no subscription, or its resolver has ended.
Terminated ==
  /\ crashed \/ exec = "failed" \/ \A f \in Firers : firer[f] = "ended"
  /\ UNCHANGED vars

Next ==
  \/ Caller
  \/ AsyncRoot
  \/ \E l \in Limiters : Straggler(l)
  \/ \E f \in Firers : Firer(f)
  \/ Reading
  \/ ~crashed /\ Cancel
  \/ Terminated

\* Every goroutine is scheduled, and a mutex that is free again and again is obtained.
\* Nobody has to cancel.
Fairness ==
  /\ WF_vars(Caller)
  /\ WF_vars(AsyncRoot)
  /\ \A l \in Limiters : WF_vars(Straggler(l))
  /\ \A f \in Firers : WF_vars(Firer(f)) /\ SF_vars(~crashed /\ (Lock(f) \/ LockToClose(f)))
  /\ WF_vars(Reading)

Spec == Init /\ [][Next]_vars /\ Fairness

-----------------------------------------------------------------------------
(* Properties.                                                             *)

\* The responses that the execution has sent, in order.
Delivered == received \o queue

\* However many goroutines fire at once, a response holds the result of its own event,
\* or its own error, and nothing of another event: Resolution, data, errs and limiter
\* are fields that every event overwrites (FireSubscriptionEvent, subMu).
EventsNotMixed ==
  \A m \in ToSet(Delivered) : \/ m.data = m.of /\ m.errs = None
                              \/ m.data = None /\ m.errs = m.of

\* The events of one goroutine arrive in the order it fired them, each once.
DeliveredInOrder ==
  \A i, j \in DOMAIN Delivered :
    i < j /\ Delivered[i].of.by = Delivered[j].of.by => Delivered[i].of.no < Delivered[j].of.no

\* Events of f that FireSubscriptionEvent has returned from.
Finished(f) == IF firer[f] \in {"idle", "ended", "lockToClose", "closing", "closed"}
                 THEN fired[f] ELSE fired[f] - 1

\* Until the stream is closed, no event is lost: each one whose call has returned has
\* been sent (the early return of FireSubscriptionEvent drops events after the close).
OpenStreamLosesNothing ==
  ~closed /\ ~crashed =>
    \A f \in Firers : \A k \in 1..Finished(f) :
      [by |-> f, no |-> k] \in {m.of : m \in ToSet(Delivered)}

\* Once the channel is closed and the document's selections are back in the pool, no
\* event is executing or about to send: the one would read selections of another
\* request, the other panic (FireSubscriptionClose, engine.go).
ClosedIsQuiet ==
  closed => \A f \in Firers : firer[f] \notin {"execute", "send"}

\* A call of FireSubscriptionEvent returns.
FiringReturns ==
  \A f \in Firers : firer[f] = "fire" ~> (firer[f] = "idle" \/ crashed)

\* When the caller cancels the context of the request, and the resolver closes the
\* subscription because of that, the stream ends ("Required if caller wants to cancel
\* long-running operations like subscriptions", request.go).
CancelEndsSubscription == cancelled /\ exec = "subscribed" ~> (closed \/ crashed)

-----------------------------------------------------------------------------
(* The strengthening that makes the invariants above inductive.            *)

\* Whoever is between Lock and Unlock holds the mutex, and nobody else.  The functions
\* are forgotten, under the mutex, right after the channel is closed, so that whoever
\* gets past the check of FireSubscriptionEventFunc has an open stream to the end.
LockInv ==
  /\ \A f \in Firers : firer[f] \in Holding <=> subMu = f
  /\ closed <=> (~eventFunc \/ \E f \in Firers : firer[f] = "closed")
  /\ \A f \in Firers : firer[f] \in {"execute", "send"} => ~closed

\* A firer is at an event from Fire until FireSubscriptionEvent returns.
AtEvent == {"fire", "lock", "locked", "execute", "send", "release", "unlock"}

\* Until its response is sent.
Unsent == {"fire", "lock", "locked", "execute", "send"}

\* The buffer belongs to the firer that holds the mutex.
BufferInv ==
  \A f \in Firers :
    /\ firer[f] \in AtEvent => fired[f] > 0
    /\ firer[f] = "execute" => slot = TheEvent(f) /\ errs = None /\ ~asError[f]
    /\ firer[f] = "send" => /\ data = IF asError[f] THEN None ELSE TheEvent(f)
                            /\ errs = IF asError[f] THEN TheEvent(f) ELSE None

\* What has been delivered is older than what is being fired.
OrderInv ==
  \A m \in ToSet(Delivered) :
    /\ m.of.no <= fired[m.of.by]
    /\ firer[m.of.by] \in Unsent => m.of.no < fired[m.of.by]

\* While the stream is open, an event that a firer has fired is on its way to SendResponse,
\* or its response has been sent.
LossInv ==
  ~closed =>
    \A f \in Firers : \A k \in 1..fired[f] :
      \/ k = fired[f] /\ firer[f] \in Unsent
      \/ \E m \in ToSet(Delivered) : m.of = [by |-> f, no |-> k]

\* The inductive invariant of a subscription.
SubscriptionInv ==
  /\ TypeOK
  /\ LockInv
  /\ BufferInv
  /\ OrderInv
  /\ EventsNotMixed
  /\ DeliveredInOrder
  /\ LossInv

-----------------------------------------------------------------------------
\* What the caller of ServeGraphQLStream relies on.
Stream == INSTANCE ResponseStream WITH Single <- FALSE
StreamContract == Stream!Spec
=============================================================================
