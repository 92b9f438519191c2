--------------------------- MODULE QueryExecution ---------------------------
(***************************************************************************)
(* The execution of one query or mutation (internal/exec/execution.go)     *)
(* together with the asynchronous resolvers it starts                      *)
(* (resolvers/async.go).                                                   *)
(*                                                                         *)
(* One goroutine, "main", walks the selection tree: in each selection set  *)
(* it first resolves every field (resolveFields), which may start          *)
(* goroutines through RunAsync, and then executes the resolved fields in   *)
(* order (recursiveExecute), waiting for the goroutine of a field when it  *)
(* reaches that field.  The limiter, a channel of capacity MaxParallelism, *)
(* holds one token for main and one for every running goroutine.  A field  *)
(* that fails is cut out of the response and its path is added to errs.    *)
(*                                                                         *)
(* A node stands for one selection of a field in one selection set at run  *)
(* time: the elements of a list each have their own nodes, and so has each *)
(* selection of an alias that is selected several times, directly or by    *)
(* fragments.  Key[n] is the first of these: a selection that finds its    *)
(* alias resolved is merged into it, one that does not is resolved itself. *)
(* Nodes are numbered in document order, and Elements[n] is the sequence   *)
(* of selection sets that are executed below n: none for a leaf, one for   *)
(* an object, one for each element of a list.  What is merged into n has   *)
(* its selections there too.                                               *)
(***************************************************************************)
EXTENDS Integers, Sequences, FiniteSets, SequencesExt

CONSTANTS NodeCount,       \* number of fields in the tree
          Parent,          \* the field a field is selected below
          Key,             \* the first selection of its alias in its selection set
          Elements,        \* the selection sets below a field
          MaxParallelism   \* the capacity of the limiter

Root   == 0                \* the operation itself
Nodes  == 1..NodeCount
Frames == 0..NodeCount

\* A node is numbered after its parent and is listed in one place below it.
ASSUME TreeAssumption ==
  /\ NodeCount \in Nat
  /\ MaxParallelism \in Nat
  /\ Parent \in [Nodes -> Frames]
  /\ Elements \in [Frames -> Seq(Seq(Nodes))]
  /\ Len(Elements[Root]) = 1
  /\ \A n \in Nodes : Parent[n] < n
  /\ \A p \in Frames : \A d, e \in DOMAIN Elements[p] :
       \A i \in DOMAIN Elements[p][d], j \in DOMAIN Elements[p][e] :
         /\ Parent[Elements[p][d][i]] = p
         /\ Elements[p][d][i] = Elements[p][e][j] => d = e /\ i = j
  /\ Key \in [Nodes -> Nodes]
  /\ \A n \in Nodes : Parent[Key[n]] = Parent[n] /\ Key[Key[n]] = Key[n] /\ Key[n] <= n

\* "Document order": every node is listed below its parent, siblings are numbered in the
\* order in which they are listed, and the nodes below a field before the next sibling, so
\* that a node between Parent[n] and n is nested below Parent[n] too.
ASSUME NumberingAssumption ==
  /\ \A n \in Nodes : \E e \in DOMAIN Elements[Parent[n]] :
       \E i \in DOMAIN Elements[Parent[n]][e] : Elements[Parent[n]][e][i] = n
  /\ \A p \in Frames : \A d, e \in DOMAIN Elements[p] :
       \A i \in DOMAIN Elements[p][d], j \in DOMAIN Elements[p][e] :
         d < e \/ (d = e /\ i < j) => Elements[p][d][i] < Elements[p][e][j]
  /\ \A m, n \in Nodes : Parent[n] < m /\ m < n => Parent[n] <= Parent[m]

\* Each element of a list has a linked map of its own.
ASSUME KeyAssumption ==
  \A n \in Nodes : \E e \in DOMAIN Elements[Parent[n]] :
    {n, Key[n]} \subseteq ToSet(Elements[Parent[n]][e])

VARIABLES
  main,       \* what the goroutine of Execute does
  at,         \* the node whose selection set main is in
  element,    \* per node, the selection set of Elements being executed
  cursor,     \* per node, the place of resolveFields in that selection set
  ready,      \* per node, the linked map of resolved fields not yet executed
  mark,       \* per node, the offset in data that a failure truncates to
  resolver,   \* per node, what Resolver.Resolve returned for it
  goroutine,  \* per node, the goroutine RunAsync started for it
  result,     \* per node, what the asynchronous resolver produced
  tokens,     \* the number of elements in the limiter
  data,       \* the keys in the response buffer, in order
  errs,       \* the selections whose paths the reported errors have, in order
  unplaced,   \* an error without a path was reported
  responses,  \* what was sent on the response channel
  closed,     \* the response channel is closed
  docOpen,    \* the query document still owns its field selections
  crashed     \* a goroutine died of a panic, and the process with it

walk    == <<at, element, cursor, ready, mark>>
async   == <<goroutine, result>>
output  == <<data, errs>>
stream  == <<responses, closed, docOpen>>
vars    == <<main, walk, resolver, async, tokens, output, unplaced, stream, crashed>>

Mains      == {"start", "walk", "acquire", "close", "release", "done", "panicked"}
Resolvers  == {"none", "skipped", "merged", "missing", "direct", "async"}
Goroutines == {"none", "running", "returned", "sending", "sent", "taken"}
Results    == {"none", "value", "error", "panic"}
Response   == [data : Seq(Nodes), errs : Seq(Nodes), unplaced : BOOLEAN]

TypeOK ==
  /\ main \in Mains
  /\ at \in Frames
  /\ element \in [Frames -> Nat]
  /\ cursor \in [Frames -> Nat \ {0}]
  /\ ready \in [Frames -> Seq(Nodes)]
  /\ mark \in [Nodes -> Nat]
  /\ resolver \in [Nodes -> Resolvers]
  /\ goroutine \in [Nodes -> Goroutines]
  /\ result \in [Nodes -> Results]
  /\ tokens \in Nat
  /\ data \in Seq(Nodes)
  /\ errs \in Seq(Nodes)
  /\ unplaced \in BOOLEAN
  /\ responses \in Seq(Response)
  /\ closed \in BOOLEAN
  /\ docOpen \in BOOLEAN
  /\ crashed \in BOOLEAN

Init ==
  /\ main = "start"
  /\ at = Root
  /\ element = [n \in Frames |-> 0]
  /\ cursor = [n \in Frames |-> 1]
  /\ ready = [n \in Frames |-> <<>>]
  /\ mark = [n \in Nodes |-> 0]
  /\ resolver = [n \in Nodes |-> "none"]
  /\ goroutine = [n \in Nodes |-> "none"]
  /\ result = [n \in Nodes |-> "none"]
  /\ tokens = 0
  /\ data = <<>>
  /\ errs = <<>>
  /\ unplaced = FALSE
  /\ responses = <<>>
  /\ closed = FALSE
  /\ docOpen = TRUE
  /\ crashed = FALSE

-----------------------------------------------------------------------------
(* Entering the operation, and resolving the fields of a selection set.    *)

\* Execute puts main's own token into the limiter before anything is resolved;
\* with a capacity of zero the send never completes.
Start ==
  /\ main = "start"
  /\ tokens < MaxParallelism
  /\ tokens' = tokens + 1
  /\ main' = "walk"
  /\ element' = [element EXCEPT ![Root] = 1]
  /\ UNCHANGED <<at, cursor, ready, mark, resolver, async, output, stream, unplaced, crashed>>

\* The selection set main is in, and the field the loop of resolveFields is at.
SelectionSet == Elements[at][element[at]]
Current == SelectionSet[cursor[at]]

Resolving == main = "walk" /\ cursor[at] <= Len(SelectionSet)
Resolved  == main = "walk" /\ cursor[at] > Len(SelectionSet)

\* The loop of resolveFields goes on to the next selection.
Advance == cursor' = [cursor EXCEPT ![at] = @ + 1]

\* skipByDirective: directives, of the selection or of a fragment around it, that cannot be
\* evaluated are reported in an error without a path, and exclude nothing.
EvaluateDirectives == unplaced' \in {unplaced, TRUE}

\* The alias of n is in the linked map.
AliasResolved(n) ==
  \E m \in Nodes : Key[m] = Key[n] /\ resolver[m] \in {"direct", "async"}

\* A directive excludes the selection, or validation left it without a schema, or it is
\* below a selection that was not merged.
SkipField ==
  /\ Resolving
  /\ EvaluateDirectives
  /\ resolver' = [resolver EXCEPT ![Current] = "skipped"]
  /\ Advance
  /\ UNCHANGED <<main, at, element, ready, mark, async, tokens, output, stream, crashed>>

\* The alias was resolved by an earlier selection, to which this one adds what it selects.
MergeField ==
  /\ Resolving
  /\ AliasResolved(Current)
  /\ EvaluateDirectives
  /\ resolver' = [resolver EXCEPT ![Current] = "merged"]
  /\ Advance
  /\ UNCHANGED <<main, at, element, ready, mark, async, tokens, output, stream, crashed>>

\* Mutated form: the error is not recorded.
NoResolverUnreported ==
  /\ Resolving
  /\ ~AliasResolved(Current)
  /\ EvaluateDirectives
  /\ resolver' = [resolver EXCEPT ![Current] = "missing"]
  /\ Advance
  /\ UNCHANGED <<main, at, element, ready, mark, async, tokens, output, stream, crashed>>

\* Resolve returned nil: "No resolver found".  The alias is not put into the linked map, so
\* that the next selection of it will be resolved, and perhaps reported, again.
NoResolver ==
  /\ Resolving
  /\ ~AliasResolved(Current)
  /\ EvaluateDirectives
  /\ resolver' = [resolver EXCEPT ![Current] = "missing"]
  /\ errs' = Append(errs, Current)
  /\ Advance
  /\ UNCHANGED <<main, at, element, ready, mark, async, tokens, data, stream, crashed>>

\* Mutated form: the linked map adds at its front.
AddToReadyFirst(n) ==
  /\ ready' = [ready EXCEPT ![at] = <<n>> \o @]
  /\ Advance

\* The linked map keeps the order in which fields are added to it.
AddToReady(n) ==
  /\ ready' = [ready EXCEPT ![at] = Append(@, n)]
  /\ Advance

\* Resolve returned a resolution that main will run itself.
ResolveDirect ==
  /\ Resolving
  /\ ~AliasResolved(Current)
  /\ EvaluateDirectives
  /\ resolver' = [resolver EXCEPT ![Current] = "direct"]
  /\ AddToReady(Current)
  /\ UNCHANGED <<main, at, element, mark, async, tokens, output, stream, crashed>>

\* The resolver calls RunAsync, which first sends to the limiter.
ResolveAsync ==
  /\ Resolving
  /\ ~AliasResolved(Current)
  /\ EvaluateDirectives
  /\ main' = "acquire"
  /\ UNCHANGED <<walk, resolver, async, tokens, output, stream, crashed>>

\* The send succeeds, the goroutine starts and Resolve returns.
StartGoroutine ==
  /\ main = "acquire"
  /\ tokens < MaxParallelism
  /\ tokens' = tokens + 1
  /\ main' = "walk"
  /\ resolver' = [resolver EXCEPT ![Current] = "async"]
  /\ goroutine' = [goroutine EXCEPT ![Current] = "running"]
  /\ AddToReady(Current)
  /\ UNCHANGED <<at, element, mark, result, output, stream, unplaced, crashed>>

\* Mutated form: only the last write is undone.
CutOutLastKey(n, offset) ==
  /\ data' = SubSeq(data, 1, IF offset < Len(data) THEN offset ELSE Len(data) - 1)
  /\ errs' = Append(errs, n)

\* The error branch of recursiveExecute: n is cut out of the buffer and reported.
CutOut(n, offset) ==
  /\ data' = SubSeq(data, 1, offset)
  /\ errs' = Append(errs, n)

\* Resolver.Resolve panics.  The recover of executeSelected fails the node whose
\* selection set is being resolved, and what was already resolved in it is
\* dropped; nothing recovers a panic in the root selection set.
ResolvePanics ==
  /\ Resolving
  /\ ~AliasResolved(Current)
  /\ EvaluateDirectives
  /\ IF at = Root
       THEN main' = "panicked" /\ UNCHANGED <<at, output>>
       ELSE at' = Parent[at] /\ CutOut(at, mark[at]) /\ UNCHANGED main
  /\ UNCHANGED <<element, cursor, ready, mark, resolver, async, tokens, stream, crashed>>

-----------------------------------------------------------------------------
(* Executing the resolved fields of a selection set, in order.             *)

Executing == Resolved /\ ready[at] # <<>>

\* main can run the resolution of n: it waits for the goroutine, if there is one.
Settled(n) == resolver[n] = "async" => goroutine[n] = "sent"

\* Mutated form: main does not wait for the goroutine.
TakeResultUnsettled(n) ==
  /\ n \in Nodes
  /\ UNCHANGED goroutine

\* Run the resolution of n, the first field of the linked map.
TakeResult(n) ==
  /\ Settled(n)
  /\ goroutine' = [goroutine EXCEPT ![n] = IF resolver[n] = "async" THEN "taken" ELSE @]

\* A value that is written with its key and nothing below it: a scalar, an enum,
\* a null, an empty list or a raw message.
WriteField ==
  /\ Executing
  /\ LET n == Head(ready[at]) IN
       /\ TakeResult(n)
       /\ result[n] \in {"none", "value"}
       /\ data' = Append(data, n)
  /\ ready' = [ready EXCEPT ![at] = Tail(@)]
  /\ UNCHANGED <<main, at, element, cursor, mark, resolver, result, tokens, errs,
                 stream, unplaced, crashed>>

\* The resolution returns an error or panics, or its value cannot be written:
\* a null for a non-null type, a value that does not marshal, not a list.
FailField ==
  /\ Executing
  /\ LET n == Head(ready[at]) IN
       /\ TakeResult(n)
       /\ CutOut(n, Len(data))
  /\ ready' = [ready EXCEPT ![at] = Tail(@)]
  /\ UNCHANGED <<main, at, element, cursor, mark, resolver, result, tokens, stream, unplaced, crashed>>

\* The value has fields of its own: write the key and enter its first selection set.
EnterField ==
  /\ Executing
  /\ LET n == Head(ready[at]) IN
       /\ Elements[n] # <<>>
       /\ TakeResult(n)
       /\ result[n] \in {"none", "value"}
       /\ data' = Append(data, n)
       /\ mark' = [mark EXCEPT ![n] = Len(data)]
       /\ at' = n
       /\ element' = [element EXCEPT ![n] = 1]
  /\ ready' = [ready EXCEPT ![at] = Tail(@)]
  /\ UNCHANGED <<main, cursor, resolver, result, tokens, errs, stream, unplaced, crashed>>

SelectionSetDone == Resolved /\ ready[at] = <<>>

\* The loop of writeList goes on to the next element.
NextElement ==
  /\ SelectionSetDone
  /\ element[at] < Len(Elements[at])
  /\ element' = [element EXCEPT ![at] = @ + 1]
  /\ cursor' = [cursor EXCEPT ![at] = 1]
  /\ UNCHANGED <<main, at, ready, mark, resolver, async, tokens, output, stream, unplaced, crashed>>

\* Every element is written: executeSelected returns to the selection set above.
LeaveField ==
  /\ SelectionSetDone
  /\ at # Root
  /\ element[at] = Len(Elements[at])
  /\ at' = Parent[at]
  /\ UNCHANGED <<main, element, cursor, ready, mark, resolver, async, tokens, output,
                 stream, unplaced, crashed>>

-----------------------------------------------------------------------------
(* The end of Execute: send the response, close the stream, release.       *)

\* Mutated form: nothing is sent when there are errors.
AnswerWithoutErrors ==
  /\ SelectionSetDone
  /\ at = Root
  /\ responses' = IF errs = <<>> THEN Append(responses, [data |-> data, errs |-> errs, unplaced |-> unplaced])
                                 ELSE responses
  /\ main' = "close"
  /\ UNCHANGED <<walk, resolver, async, tokens, output, closed, docOpen, unplaced, crashed>>

\* The response is sent with what the buffer and the error list hold now.
Answer ==
  /\ SelectionSetDone
  /\ at = Root
  /\ responses' = Append(responses, [data |-> data, errs |-> errs, unplaced |-> unplaced])
  /\ main' = "close"
  /\ UNCHANGED <<walk, resolver, async, tokens, output, closed, docOpen, unplaced, crashed>>

\* Mutated form: the channel is left open.
CloseDocumentOnly ==
  /\ main = "close"
  /\ docOpen' = FALSE
  /\ main' = "release"
  /\ UNCHANGED <<walk, resolver, async, tokens, output, responses, closed, unplaced, crashed>>

\* FireSubscriptionClose: the channel is closed and the document's field
\* selections go back to the pool.
CloseStream ==
  /\ main = "close"
  /\ closed' = TRUE
  /\ docOpen' = FALSE
  /\ main' = "release"
  /\ UNCHANGED <<walk, resolver, async, tokens, output, responses, unplaced, crashed>>

\* The deferred receive that gives main's own token back.
ReleaseMain ==
  /\ main = "release"
  /\ tokens > 0
  /\ tokens' = tokens - 1
  /\ main' = "done"
  /\ UNCHANGED <<walk, resolver, async, output, stream, unplaced, crashed>>

-----------------------------------------------------------------------------
(* The goroutine that RunAsync starts for node n.                          *)

\* resolver() returns, or panics; either way the deferred function runs next.
GoroutineReturns(n) ==
  /\ goroutine[n] = "running"
  /\ goroutine' = [goroutine EXCEPT ![n] = "returned"]
  /\ \E r \in {"value", "error", "panic"} : result' = [result EXCEPT ![n] = r]
  /\ UNCHANGED <<main, walk, resolver, tokens, output, stream, unplaced, crashed>>

\* Mutated form: a goroutine whose resolver failed keeps its token.
GoroutineReleasesOnSuccess(n) ==
  /\ goroutine[n] = "returned"
  /\ tokens > 0
  /\ tokens' = IF result[n] = "value" THEN tokens - 1 ELSE tokens
  /\ goroutine' = [goroutine EXCEPT ![n] = "sending"]
  /\ UNCHANGED <<main, walk, resolver, result, output, stream, unplaced, crashed>>

\* The deferred function reads the path of the field and gives the token back.
GoroutineReleases(n) ==
  /\ goroutine[n] = "returned"
  /\ tokens > 0
  /\ tokens' = tokens - 1
  /\ goroutine' = [goroutine EXCEPT ![n] = "sending"]
  /\ UNCHANGED <<main, walk, resolver, result, output, stream, unplaced, crashed>>

\* The result channel has room for the one result.
GoroutineSends(n) ==
  /\ goroutine[n] = "sending"
  /\ goroutine' = [goroutine EXCEPT ![n] = "sent"]
  /\ UNCHANGED <<main, walk, resolver, result, tokens, output, stream, unplaced, crashed>>

\* HandlePanic calls recover one call too deep to stop a panic: once the deferred
\* function has run, the panic goes on and ends the process.
GoroutineDies(n) ==
  /\ goroutine[n] \in {"sent", "taken"}
  /\ result[n] = "panic"
  /\ crashed' = TRUE
  /\ UNCHANGED <<main, walk, resolver, async, tokens, output, unplaced, stream>>

-----------------------------------------------------------------------------
Main ==
  /\ ~crashed
  /\ \/ Start
     \/ SkipField \/ MergeField \/ NoResolver \/ ResolveDirect
     \/ ResolveAsync \/ StartGoroutine \/ ResolvePanics
     \/ WriteField \/ FailField \/ EnterField
     \/ NextElement \/ LeaveField
     \/ Answer \/ CloseStream \/ ReleaseMain

Goroutine(n) ==
  /\ ~crashed
  /\ \/ GoroutineReturns(n)
     \/ GoroutineReleases(n)
     \/ GoroutineSends(n)
     \/ GoroutineDies(n)

\* Everything has come to its end; the only state the system may rest in.
Terminated ==
  /\ \/ crashed
     \/ /\ main \in {"done", "panicked"}
        /\ \A n \in Nodes : /\ goroutine[n] \in {"none", "sent", "taken"}
                            /\ goroutine[n] # "none" => result[n] # "panic"
  /\ UNCHANGED vars

Next == Main \/ (\E n \in Nodes : Goroutine(n)) \/ Terminated

\* Go schedules every goroutine, and every resolver is assumed to return.
Fairness == WF_vars(Main) /\ \A n \in Nodes : WF_vars(Goroutine(n))

Spec == Init /\ [][Next]_vars /\ Fairness

-----------------------------------------------------------------------------
(* Properties.                                                             *)

\* Nodes whose goroutine has put a token into the limiter and not yet taken it out.
Holders == {n \in Nodes : goroutine[n] \in {"running", "returned"}}

\* The token of main itself, which a panic in the root selection set leaks.
MainHolds == IF main \in {"start", "done"} THEN 0 ELSE 1

\* The number of elements in the limiter is the number of goroutines that still
\* have to take one out: no deferred receive of execution.go or async.go blocks,
\* and none frees a slot that somebody else occupies.
TokenAccounting == tokens = MainHolds + Cardinality(Holders)

\* At most MaxParallelism resolvers of a request run at a time, main's included
\* (the limiter of Execute and RunAsync).
ParallelismBound ==
  MainHolds + Cardinality({n \in Nodes : goroutine[n] = "running"}) <= MaxParallelism

\* A field is selected below a field that was written, in a selection set that
\* main entered.
Selected(n) ==
  \/ Parent[n] = Root
  \/ Parent[n] \in ToSet(data) /\ element[Parent[n]] > 0

\* The response answers for every selection of a field, in exactly one way: it has the
\* key, or one error with the path, or the selection was excluded, or merged into another
\* of its alias that was resolved and so has the key or an error; and no object has a key
\* twice.  An alias may yet be reported more than once, or reported and answered: each of
\* its selections that finds no resolver reports it (resolveFields, recursiveExecute,
\* executeSelected, AddError).
ResponseAccountsForEveryField ==
  responses # <<>> =>
    /\ IsInjective(errs)
    /\ \A n \in Nodes : Selected(n) =>
         Cardinality({ w \in {"data", "errs", "skipped", "merged"} :
             \/ w = "data" /\ n \in ToSet(data)
             \/ w = "errs" /\ n \in ToSet(errs)
             \/ w \in {"skipped", "merged"} /\ resolver[n] = w }) = 1
    /\ \A n \in Nodes : Selected(n) /\ resolver[n] = "merged" =>
         \E m \in ToSet(data) \cup ToSet(errs) : Key[m] = Key[n] /\ resolver[m] # "missing"
    /\ \A m, n \in ToSet(data) : Key[m] = Key[n] => m = n

\* Whatever order the goroutines finish in, the keys stand in the document order of the
\* selections that were resolved, and none of these is written twice (the linked map of
\* resolveFields, recursiveExecute).
DataInDocumentOrder == \A i, j \in DOMAIN data : i < j => data[i] < data[j]

\* Wherever a failure truncates the buffer, no key is left without the key of the
\* field it is nested in, which stands before it (recursiveExecute).
DataKeepsParents ==
  \A j \in DOMAIN data : \/ Parent[data[j]] = Root
                         \/ \E i \in 1..(j - 1) : data[i] = Parent[data[j]]

\* a and the nodes nested below it: those from which the way up leads to a.
Below(a) ==
  {n \in Nodes : \E S \in SUBSET Nodes : n \in S /\ \A m \in S : m = a \/ Parent[m] \in S}

\* n was resolved, but a field above it failed before n was executed.
Abandoned(n) == \E a \in ToSet(errs) : n # a /\ n \in Below(a)

\* The deferred function of RunAsync reads the field selection through
\* SelectionPath.  When the document is closed and its selections are back in the
\* pool, the only goroutines that have this still to do belong to fields that
\* nobody waited for, because a field above them failed.
ClosedDocReadOnlyByAbandoned ==
  \A n \in Holders : docOpen \/ Abandoned(n)

\* Every query is answered and its stream closed, unless a panic gets out.
Answered == <>(closed \/ crashed \/ main = "panicked")

\* Whoever waits is waited on by nobody he waits for: a goroutine of RunAsync never waits to
\* take a token out, main never waits to take out its own, and what main does wait for, a
\* place in the limiter or the result of the next field, is a goroutine that is on its way.
\* The exceptions are a limiter without a place for main, and one whose only place main has
\* itself when a resolver calls RunAsync (Execute, RunAsync, recursiveExecute).
WaitsEnd ==
  /\ \A n \in Nodes : goroutine[n] = "returned" => tokens > 0
  /\ main = "release" => tokens > 0
  /\ main = "start" /\ MaxParallelism > 0 => tokens < MaxParallelism
  /\ main = "acquire" /\ MaxParallelism > 1 => tokens < MaxParallelism \/ Holders # {}
  /\ Executing =>
       LET n == Head(ready[at]) IN
         Settled(n) \/ goroutine[n] \in {"running", "returned", "sending"}

Unresolved == {n \in Nodes : resolver[n] = "none"}
Waiting    == {n \in Nodes : n \in ToSet(ready[Parent[n]])}
Stage(g)   == {n \in Nodes : goroutine[n] = g}

\* The steps that main has still before it when it does not walk on.
MainLeft ==
  [start |-> 4, walk |-> 4, acquire |-> 3, close |-> 2, release |-> 1, done |-> 0,
   panicked |-> 0][main]

\* What an execution has still to do, the most important first.
Left ==
  << Cardinality(Unresolved), Cardinality(Waiting),
     at, Len(Elements[at]) - element[at], MainLeft,
     Cardinality(Stage("running")), Cardinality(Stage("returned")), Cardinality(Stage("sending")),
     IF crashed THEN 0 ELSE 1 >>

\* The lexicographic order, in which no sequence of tuples of numbers descends for ever.
Less(s, t) == \E i \in DOMAIN t : s[i] < t[i] /\ \A j \in 1..(i - 1) : s[j] = t[j]

\* Every step leaves less to do: main resolves a field and executes it at most once, comes
\* back from below it, and passes each element of a list once, and a goroutine goes through
\* its stages once (resolveFields, recursiveExecute, writeList, RunAsync).
AlwaysCloser == [][Less(Left', Left)]_vars

\* "handles panics in resolvers" (README.md), "we do this in defer since the
\* resolver() could panic" (async.go): a panic of a resolver is turned into an
\* error and does not end the process.
PanicsAreHandled == ~crashed

-----------------------------------------------------------------------------
(* The strengthening that makes the invariants above inductive.            *)

\* A selection set is entered from the one above it, and main blocks on the
\* limiter only for a field it still has to resolve.
Entered ==
  /\ IF main = "start" THEN at = Root /\ element[Root] = 0 ELSE element[at] > 0
  /\ \A p \in Frames : element[p] <= Len(Elements[p])
  /\ \A n \in Nodes : element[n] > 0 => element[Parent[n]] > 0
  /\ main = "acquire" => cursor[at] <= Len(SelectionSet)

\* The linked map of a selection set holds, once each, fields that the loop of
\* resolveFields has passed and that have not been executed.
ReadyVisited ==
  \A p \in Frames :
    /\ ready[p] # <<>> => element[p] > 0
    /\ \A i \in DOMAIN ready[p] :
         /\ \E j \in DOMAIN Elements[p][element[p]] :
              j < cursor[p] /\ ready[p][i] = Elements[p][element[p]][j]
         /\ element[ready[p][i]] = 0
         /\ \A j \in DOMAIN ready[p] : ready[p][i] = ready[p][j] => i = j

\* A field that the loop has not come to yet has no goroutine and was not executed.
Fresh ==
  \A p \in Frames : \A e \in DOMAIN Elements[p] : \A i \in DOMAIN Elements[p][e] :
    e > element[p] \/ (e = element[p] /\ i >= cursor[p]) =>
      /\ goroutine[Elements[p][e][i]] = "none"
      /\ element[Elements[p][e][i]] = 0

\* The bookkeeping that makes truncation safe.  S holds the nodes from at up to the
\* root (and perhaps nodes that main has left): the key of each stands right after
\* its mark, and marks grow from parent to child.
IsTrail(S) ==
  /\ at \in S \cup {Root}
  /\ \A m \in S :
       /\ Parent[m] \in S \cup {Root}
       /\ mark[m] < Len(data)
       /\ data[mark[m] + 1] = m
       /\ Parent[m] \in S => mark[Parent[m]] < mark[m]

Trail == \E S \in SUBSET Nodes : IsTrail(S)

\* The inductive invariant of the walk over the tree.
WalkInv ==
  /\ TypeOK
  /\ Entered
  /\ ReadyVisited
  /\ Fresh
  /\ Trail
  /\ DataKeepsParents

\* The fields of p that the loop of resolveFields has still to come to.
Ahead(p) ==
  {n \in Nodes :
     /\ Parent[n] = p
     /\ \E e \in DOMAIN Elements[p] : \E i \in DOMAIN Elements[p][e] :
          /\ e > element[p] \/ (e = element[p] /\ i >= cursor[p])
          /\ n = Elements[p][e][i]}

\* The selection sets that the response has a place for: the operation's, and those of the
\* fields in the buffer.
Live == {p \in Frames : element[p] > 0 /\ (p = Root \/ p \in ToSet(data))}

\* What the response has still to get comes, in document order, after all that is in the
\* buffer, and belongs to at or to a field above it.  What stands in the buffer after at is
\* nested below at, so that cutting at out takes nothing else along.
OrderInv ==
  /\ DataInDocumentOrder
  /\ \A p \in Frames : element[p] = 0 => cursor[p] = 1
  /\ \A p \in Frames : \A i, j \in DOMAIN ready[p] : i < j => ready[p][i] < ready[p][j]
  /\ \A p \in Live : \A n \in Ahead(p) \cup ToSet(ready[p]) :
       p <= at /\ \A m \in ToSet(data) : m < n
  /\ \A n \in ToSet(data) : at < n => at <= Parent[n]

\* A selection is ahead, in a linked map, in the buffer, in the error list, skipped or
\* merged, and in no two of these; below a live field it is in one.
AccountInv ==
  /\ \A p \in Frames : \A n \in Ahead(p) :
       resolver[n] = "none" /\ n \notin ToSet(data) \cup ToSet(errs)
  /\ \A p \in Frames : \A n \in ToSet(ready[p]) :
       resolver[n] \in {"direct", "async"} /\ n \notin ToSet(data) \cup ToSet(errs)
  /\ \A n \in ToSet(data) : resolver[n] \in {"direct", "async"} /\ n \notin ToSet(errs)
  /\ \A n \in ToSet(errs) : resolver[n] \notin {"skipped", "merged"}
  /\ IsInjective(errs)
  /\ \A n \in Nodes : Parent[n] \in Live =>
       \/ n \in Ahead(Parent[n]) \cup ToSet(ready[Parent[n]]) \cup ToSet(data) \cup ToSet(errs)
       \/ resolver[n] \in {"skipped", "merged"}

\* One selection of an alias is resolved at most, and what is merged has one to be merged into.
KeyInv ==
  /\ \A m, n \in Nodes :
       /\ Key[m] = Key[n]
       /\ resolver[m] \in {"direct", "async"} /\ resolver[n] \in {"direct", "async"}
       => m = n
  /\ \A n \in Nodes : resolver[n] = "merged" => AliasResolved(n)
  /\ main = "acquire" => ~AliasResolved(Current)

\* A goroutine runs for an asynchronous field, which is in a linked map as long as nobody has
\* taken the result; and a selection set that main has entered is in the response or below a
\* reported field.
AbandonInv ==
  /\ \A n \in Nodes : goroutine[n] # "none" => resolver[n] = "async"
  /\ \A n \in Nodes :
       goroutine[n] \in {"running", "returned", "sending", "sent"} =>
         n \in ToSet(ready[Parent[n]])
  /\ \A p \in Nodes :
       element[p] > 0 => p \in ToSet(data) \/ \E a \in ToSet(errs) : p \in Below(a)

\* An asynchronous field has a goroutine, and leaves its linked map when its result is taken.
SettleInv ==
  /\ \A n \in Nodes : resolver[n] = "async" => goroutine[n] # "none"
  /\ \A n \in Nodes : goroutine[n] = "taken" => n \notin ToSet(ready[Parent[n]])

\* How far main is tells what it has done.
MainInv ==
  /\ main = "start" => data = <<>> /\ \A n \in Nodes : goroutine[n] = "none"
  /\ main \in {"close", "release", "done"} =>
       at = Root /\ cursor[Root] > Len(SelectionSet) /\ ready[Root] = <<>>
  /\ docOpen <=> main \notin {"release", "done"}

\* How far main is tells what the reader of the stream has seen.
StreamInv ==
  /\ Len(responses) = IF main \in {"close", "release", "done"} THEN 1 ELSE 0
  /\ closed <=> main \in {"release", "done"}

\* The inductive invariant of the response.
QueryInv ==
  /\ WalkInv
  /\ OrderInv
  /\ AccountInv
  /\ KeyInv
  /\ AbandonInv
  /\ SettleInv
  /\ MainInv
  /\ StreamInv

\* The inductive invariant of the limiter.
LimiterInv == TokenAccounting /\ tokens <= MaxParallelism

-----------------------------------------------------------------------------
\* What the caller of ServeGraphQLStream relies on: one response, then the close.
Stream == INSTANCE ResponseStream WITH sent <- Len(responses), Single <- TRUE
StreamContract == Stream!Spec
=============================================================================
