------------------------ MODULE QueryExecutionProofs ------------------------
(***************************************************************************)
(* Proofs about QueryExecution, for every tree and every MaxParallelism.   *)
(***************************************************************************)
EXTENDS QueryExecution, FiniteSetTheorems, TLAPS

\* Cutting a sequence short gives a sequence over the same elements.
LEMMA PrefixLemma ==
  ASSUME NEW S, NEW s \in Seq(S), NEW k \in 0..Len(s)
  PROVE  /\ SubSeq(s, 1, k) \in Seq(S)
         /\ Len(SubSeq(s, 1, k)) = k
         /\ \A i \in 1..k : SubSeq(s, 1, k)[i] = s[i]
  OBVIOUS

\* Where main stands in the tree, as facts the steps below need.
LEMMA PlaceLemma ==
  ASSUME TypeOK, Entered, main # "start"
  PROVE  /\ at \in Frames
         /\ element[at] \in DOMAIN Elements[at]
         /\ SelectionSet \in Seq(Nodes)
         /\ cursor[at] \in Nat \ {0}
         /\ cursor[at] <= Len(SelectionSet) =>
              /\ cursor[at] \in DOMAIN SelectionSet
              /\ Current \in Nodes
              /\ Parent[Current] = at
<1>1. at \in Frames /\ element[at] \in Nat \ {0} /\ cursor[at] \in Nat \ {0}
  BY DEF TypeOK, Entered
<1>2. element[at] <= Len(Elements[at]) /\ Elements[at] \in Seq(Seq(Nodes))
  BY <1>1, TreeAssumption DEF Entered
<1>3. element[at] \in DOMAIN Elements[at] /\ SelectionSet \in Seq(Nodes)
  BY <1>1, <1>2 DEF SelectionSet
<1>4. ASSUME cursor[at] <= Len(SelectionSet)
      PROVE  /\ cursor[at] \in DOMAIN SelectionSet
             /\ Current \in Nodes
             /\ Parent[Current] = at
  <2>1. cursor[at] \in DOMAIN SelectionSet /\ Current \in Nodes
    BY <1>1, <1>3, <1>4 DEF Current
  <2>2. Parent[Current] = at
    BY <1>1, <1>3, <2>1, TreeAssumption DEF Current, SelectionSet
  <2>. QED BY <2>1, <2>2
<1>. QED BY <1>1, <1>3, <1>4

\* The selection set that a node is at is a sequence of nodes.
LEMMA SelectionLemma ==
  ASSUME TypeOK, Entered, NEW p \in Frames, element[p] > 0
  PROVE  /\ element[p] \in DOMAIN Elements[p]
         /\ Elements[p][element[p]] \in Seq(Nodes)
         /\ DOMAIN Elements[p][element[p]] \subseteq Nat
<1>1. Elements[p] \in Seq(Seq(Nodes))
  BY TreeAssumption
<1>2. element[p] \in 1..Len(Elements[p])
  BY DEF TypeOK, Entered
<1>3. element[p] \in DOMAIN Elements[p] /\ Elements[p][element[p]] \in Seq(Nodes)
  BY <1>1, <1>2
<1>. QED BY <1>3

\* The first field of a linked map, as facts the steps below need.
LEMMA ReadyLemma ==
  ASSUME TypeOK, Entered, ReadyVisited, NEW p \in Frames, ready[p] # <<>>
  PROVE  /\ Head(ready[p]) \in Nodes
         /\ Head(ready[p]) = ready[p][1]
         /\ 1 \in DOMAIN ready[p]
         /\ Tail(ready[p]) \in Seq(Nodes)
         /\ DOMAIN Tail(ready[p]) = 1..(Len(ready[p]) - 1)
         /\ \A i \in DOMAIN Tail(ready[p]) :
              /\ i + 1 \in DOMAIN ready[p]
              /\ Tail(ready[p])[i] = ready[p][i + 1]
              /\ Tail(ready[p])[i] \in Nodes
              /\ Tail(ready[p])[i] # Head(ready[p])
         /\ element[Head(ready[p])] = 0
         /\ Parent[Head(ready[p])] = p
<1>1. ready[p] \in Seq(Nodes) /\ element \in [Frames -> Nat]
  BY DEF TypeOK
<1>2. /\ Head(ready[p]) \in Nodes
      /\ Head(ready[p]) = ready[p][1]
      /\ 1 \in DOMAIN ready[p]
      /\ Tail(ready[p]) \in Seq(Nodes)
      /\ DOMAIN Tail(ready[p]) = 1..(Len(ready[p]) - 1)
  BY <1>1
<1>3. \A i \in DOMAIN Tail(ready[p]) :
        /\ i + 1 \in DOMAIN ready[p]
        /\ Tail(ready[p])[i] = ready[p][i + 1]
        /\ Tail(ready[p])[i] \in Nodes
  BY <1>1, <1>2
<1>4. \A i \in DOMAIN Tail(ready[p]) : Tail(ready[p])[i] # Head(ready[p])
  BY <1>2, <1>3 DEF ReadyVisited
<1>5. element[Head(ready[p])] = 0
  BY <1>2 DEF ReadyVisited
<1>6. Parent[Head(ready[p])] = p
  <2>1. PICK j \in DOMAIN Elements[p][element[p]] :
           ready[p][1] = Elements[p][element[p]][j]
    BY <1>2 DEF ReadyVisited
  <2>2. element[p] \in DOMAIN Elements[p]
    <3>1. element[p] > 0 BY DEF ReadyVisited
    <3>2. Elements[p] \in Seq(Seq(Nodes)) BY TreeAssumption
    <3>3. element[p] \in 1..Len(Elements[p]) BY <1>1, <3>1 DEF Entered
    <3>. QED BY <3>2, <3>3
  <2>. QED BY <1>2, <2>1, <2>2, TreeAssumption
<1>. QED BY <1>2, <1>3, <1>4, <1>5, <1>6

-----------------------------------------------------------------------------
(* Type correctness and the walk over the tree.                            *)

LEMMA WalkInit == Init => WalkInv
<1>. SUFFICES ASSUME Init PROVE WalkInv
  OBVIOUS
<1>1. TypeOK
  <2>1. Root \in Frames
    BY TreeAssumption DEF Root, Frames
  <2>2. /\ main \in Mains
        /\ element \in [Frames -> Nat]
        /\ cursor \in [Frames -> Nat \ {0}]
        /\ ready \in [Frames -> Seq(Nodes)]
        /\ mark \in [Nodes -> Nat]
    BY DEF Init, Mains
  <2>3. /\ resolver \in [Nodes -> Resolvers]
        /\ goroutine \in [Nodes -> Goroutines]
        /\ result \in [Nodes -> Results]
    BY DEF Init, Resolvers, Goroutines, Results
  <2>4. /\ tokens \in Nat
        /\ data \in Seq(Nodes)
        /\ errs \in Seq(Nodes)
        /\ responses \in Seq(Response)
    BY DEF Init
  <2>5. /\ closed \in BOOLEAN /\ docOpen \in BOOLEAN /\ crashed \in BOOLEAN
        /\ unplaced \in BOOLEAN
    BY DEF Init
  <2>6. at \in Frames
    BY <2>1 DEF Init
  <2>. QED BY <2>2, <2>3, <2>4, <2>5, <2>6 DEF TypeOK
<1>2. Entered
  <2>1. \A p \in Frames : element[p] = 0
    BY DEF Init
  <2>2. \A p \in Frames : Len(Elements[p]) \in Nat
    BY TreeAssumption
  <2>3. \A n \in Nodes : n \in Frames
    BY DEF Nodes, Frames
  <2>. QED BY <1>1, <2>1, <2>2, <2>3 DEF Init, Entered, TypeOK
<1>3. ReadyVisited
  BY DEF Init, ReadyVisited
<1>4. Fresh
  <2>1. \A p \in Frames : \A e \in DOMAIN Elements[p] : \A i \in DOMAIN Elements[p][e] :
          Elements[p][e][i] \in Nodes
    BY TreeAssumption
  <2>2. \A n \in Nodes : n \in Frames
    BY DEF Nodes, Frames
  <2>3. \A n \in Nodes : goroutine[n] = "none" /\ element[n] = 0
    BY <2>2 DEF Init
  <2>. QED BY <2>1, <2>3 DEF Fresh
<1>5. IsTrail({})
  BY DEF Init, IsTrail
<1>6. Trail
  BY <1>5 DEF Trail
<1>7. DataKeepsParents
  BY DEF Init, DataKeepsParents
<1>. QED BY <1>1, <1>2, <1>3, <1>4, <1>6, <1>7 DEF WalkInv

\* Steps that move neither main in the tree nor the response.
LEMMA WalkStands ==
  ASSUME WalkInv, TypeOK', UNCHANGED <<walk, data>>,
         main' = "start" <=> main = "start",
         main' = "acquire" => main = "acquire" \/ cursor[at] <= Len(SelectionSet),
         \A n \in Nodes : goroutine[n] = "none" => goroutine'[n] = "none"
  PROVE  WalkInv'
<1>. USE DEF walk
<1>1. Entered'
  BY DEF WalkInv, Entered, SelectionSet
<1>2. ReadyVisited'
  BY DEF WalkInv, ReadyVisited
<1>3. Fresh'
  <2>1. \A p \in Frames : \A e \in DOMAIN Elements[p] : \A i \in DOMAIN Elements[p][e] :
          Elements[p][e][i] \in Nodes
    BY TreeAssumption
  <2>. QED BY <2>1 DEF WalkInv, Fresh
<1>4. Trail'
  BY DEF WalkInv, Trail, IsTrail
<1>5. DataKeepsParents'
  BY DEF WalkInv, DataKeepsParents
<1>. QED BY <1>1, <1>2, <1>3, <1>4, <1>5 DEF WalkInv

\* A trail gives the offset that a failure of its last node truncates to.
LEMMA MarkLemma ==
  ASSUME TypeOK, Trail, at # Root
  PROVE  at \in Nodes /\ mark[at] \in 0..Len(data)
<1>1. at \in Nodes
  BY DEF TypeOK, Frames, Nodes, Root
<1>2. PICK S \in SUBSET Nodes : IsTrail(S)
  BY DEF Trail
<1>. QED BY <1>1, <1>2 DEF IsTrail, TypeOK

LEMMA TypeStep ==
  ASSUME TypeOK, Entered, ReadyVisited, Trail, [Next]_vars
  PROVE  TypeOK'
<1>. USE DEF walk, async, output, stream
<1>0. EvaluateDirectives => unplaced' \in BOOLEAN
  BY DEF EvaluateDirectives, TypeOK
<1>1. CASE UNCHANGED vars
  BY <1>1 DEF TypeOK, vars
<1>2. CASE Start
  <2>1. 0 \in Frames /\ "walk" \in Mains
    BY TreeAssumption DEF Frames, Mains
  <2>. QED BY <1>2, <2>1 DEF Start, TypeOK, Root
<1>3. CASE SkipField \/ MergeField
  <2>1. Current \in Nodes
    BY <1>3, PlaceLemma DEF SkipField, MergeField, Resolving
  <2>2. CASE SkipField
    BY <1>0, <2>1, <2>2 DEF SkipField, Advance, TypeOK, Resolvers
  <2>3. CASE MergeField
    BY <1>0, <2>1, <2>3 DEF MergeField, Advance, TypeOK, Resolvers
  <2>. QED BY <1>3, <2>2, <2>3
<1>4. CASE NoResolver
  <2>1. Current \in Nodes
    BY <1>4, PlaceLemma DEF NoResolver, Resolving
  <2>. QED BY <1>0, <1>4, <2>1 DEF NoResolver, Advance, TypeOK, Resolvers
<1>5. CASE ResolveDirect
  <2>1. Current \in Nodes
    BY <1>5, PlaceLemma DEF ResolveDirect, Resolving
  <2>. QED BY <1>0, <1>5, <2>1 DEF ResolveDirect, AddToReady, Advance, TypeOK, Resolvers
<1>6. CASE ResolveAsync
  BY <1>0, <1>6 DEF ResolveAsync, TypeOK, Mains
<1>7. CASE StartGoroutine
  <2>1. Current \in Nodes
    BY <1>7, PlaceLemma DEF StartGoroutine, Entered
  <2>2. "walk" \in Mains /\ "async" \in Resolvers /\ "running" \in Goroutines
    BY DEF Mains, Resolvers, Goroutines
  <2>. QED BY <1>7, <2>1, <2>2 DEF StartGoroutine, AddToReady, Advance, TypeOK
<1>8. CASE ResolvePanics
  <2>1. CASE at = Root
    BY <1>0, <1>8, <2>1 DEF ResolvePanics, TypeOK, Mains
  <2>2. CASE at # Root
    <3>1. at \in Nodes /\ Parent[at] \in Frames
      BY <2>2, MarkLemma, TreeAssumption
    <3>2. SubSeq(data, 1, mark[at]) \in Seq(Nodes)
      BY <2>2, MarkLemma, PrefixLemma DEF TypeOK
    <3>0. /\ at' = Parent[at]
          /\ data' = SubSeq(data, 1, mark[at])
          /\ errs' = Append(errs, at)
      BY <1>8, <2>2 DEF ResolvePanics, CutOut
    <3>3. data' \in Seq(Nodes) /\ errs' \in Seq(Nodes) /\ at' \in Frames
      BY <3>0, <3>1, <3>2 DEF TypeOK
    <3>4. UNCHANGED <<main, element, cursor, ready, mark, resolver, async, tokens,
                      stream, crashed>>
      BY <1>8, <2>2 DEF ResolvePanics
    <3>5. unplaced' \in BOOLEAN
      BY <1>0, <1>8 DEF ResolvePanics
    <3>. QED BY <3>3, <3>4, <3>5 DEF TypeOK
  <2>. QED BY <2>1, <2>2
<1>9. CASE WriteField
  <2>1. at \in Frames /\ ready[at] # <<>>
    BY <1>9 DEF WriteField, Executing, TypeOK
  <2>2. Head(ready[at]) \in Nodes /\ Tail(ready[at]) \in Seq(Nodes)
    BY <2>1, ReadyLemma
  <2>3. "taken" \in Goroutines
    BY DEF Goroutines
  <2>. QED BY <1>9, <2>1, <2>2, <2>3 DEF WriteField, TakeResult, TypeOK
<1>10. CASE FailField
  <2>1. at \in Frames /\ ready[at] # <<>>
    BY <1>10 DEF FailField, Executing, TypeOK
  <2>2. Head(ready[at]) \in Nodes /\ Tail(ready[at]) \in Seq(Nodes)
    BY <2>1, ReadyLemma
  <2>3. "taken" \in Goroutines
    BY DEF Goroutines
  <2>4. SubSeq(data, 1, Len(data)) \in Seq(Nodes)
    BY PrefixLemma DEF TypeOK
  <2>. QED BY <1>10, <2>1, <2>2, <2>3, <2>4 DEF FailField, TakeResult, CutOut, TypeOK
<1>11. CASE EnterField
  <2>1. at \in Frames /\ ready[at] # <<>>
    BY <1>11 DEF EnterField, Executing, TypeOK
  <2>2. Head(ready[at]) \in Nodes /\ Tail(ready[at]) \in Seq(Nodes)
    BY <2>1, ReadyLemma
  <2>3. "taken" \in Goroutines
    BY DEF Goroutines
  <2>4. Head(ready[at]) \in Frames
    BY <2>2 DEF Frames, Nodes
  <2>5. data' \in Seq(Nodes) /\ at' \in Frames
    BY <1>11, <2>2, <2>4 DEF EnterField, TypeOK
  <2>6. /\ element' \in [Frames -> Nat]
        /\ ready' \in [Frames -> Seq(Nodes)]
        /\ mark' \in [Nodes -> Nat]
    <3>1. /\ element' = [element EXCEPT ![Head(ready[at])] = 1]
          /\ ready' = [ready EXCEPT ![at] = Tail(@)]
          /\ mark' = [mark EXCEPT ![Head(ready[at])] = Len(data)]
      BY <1>11 DEF EnterField
    <3>2. Len(data) \in Nat
      BY DEF TypeOK
    <3>. QED BY <2>2, <3>1, <3>2 DEF TypeOK
  <2>7. goroutine' \in [Nodes -> Goroutines]
    BY <1>11, <2>3 DEF EnterField, TakeResult, TypeOK
  <2>8. UNCHANGED <<main, cursor, resolver, result, tokens, errs, stream, unplaced,
                  crashed>>
    BY <1>11 DEF EnterField
  <2>. QED BY <2>5, <2>6, <2>7, <2>8 DEF TypeOK
<1>12. CASE NextElement
  BY <1>12 DEF NextElement, TypeOK
<1>13. CASE LeaveField
  <2>1. Parent[at] \in Frames
    BY <1>13, TreeAssumption DEF LeaveField, TypeOK, Frames, Nodes, Root
  <2>. QED BY <1>13, <2>1 DEF LeaveField, TypeOK
<1>14. CASE Answer
  <2>1. [data |-> data, errs |-> errs, unplaced |-> unplaced] \in Response
    BY DEF TypeOK, Response
  <2>. QED BY <1>14, <2>1 DEF Answer, TypeOK, Mains
<1>15. CASE CloseStream
  BY <1>15 DEF CloseStream, TypeOK, Mains
<1>16. CASE ReleaseMain
  BY <1>16 DEF ReleaseMain, TypeOK, Mains
<1>17. ASSUME NEW n \in Nodes, Goroutine(n)
       PROVE  TypeOK'
  <2>1. CASE GoroutineReturns(n)
    BY <2>1 DEF GoroutineReturns, TypeOK, Goroutines, Results
  <2>2. CASE GoroutineReleases(n)
    BY <2>2 DEF GoroutineReleases, TypeOK, Goroutines
  <2>3. CASE GoroutineSends(n)
    BY <2>3 DEF GoroutineSends, TypeOK, Goroutines
  <2>4. CASE GoroutineDies(n)
    BY <2>4 DEF GoroutineDies, TypeOK
  <2>. QED BY <1>17, <2>1, <2>2, <2>3, <2>4 DEF Goroutine
<1>. QED
  BY <1>1, <1>2, <1>3, <1>4, <1>5, <1>6, <1>7, <1>8, <1>9, <1>10, <1>11, <1>12,
     <1>13, <1>14, <1>15, <1>16, <1>17
     DEF Next, Main, Terminated

\* One step of the loop of resolveFields: the field it was at may enter the linked
\* map and may get a goroutine.
LEMMA AdvanceKeepsWalk ==
  ASSUME WalkInv, TypeOK', main # "start", main' = "walk",
         cursor[at] <= Len(SelectionSet), Advance,
         UNCHANGED <<at, element, mark, data>>,
         ready' = ready \/ ready' = [ready EXCEPT ![at] = Append(@, Current)],
         \A n \in Nodes : n # Current => goroutine'[n] = goroutine[n]
  PROVE  WalkInv'
<1>. USE DEF WalkInv
<1>1. /\ at \in Frames
      /\ element[at] \in DOMAIN Elements[at]
      /\ cursor[at] \in Nat \ {0}
      /\ cursor[at] \in DOMAIN SelectionSet
      /\ Current \in Nodes
      /\ Parent[Current] = at
  BY PlaceLemma
<1>2. /\ cursor \in [Frames -> Nat \ {0}]
      /\ cursor' = [cursor EXCEPT ![at] = @ + 1]
      /\ element \in [Frames -> Nat]
      /\ ready \in [Frames -> Seq(Nodes)]
  BY DEF Advance, TypeOK
<1>3. Entered'
  BY DEF Entered, SelectionSet
<1>4. \A p \in Frames : \A e \in DOMAIN Elements[p] : \A i \in DOMAIN Elements[p][e] :
        /\ Elements[p][e][i] \in Nodes
        /\ Elements[p][e][i] = Current => p = at /\ e = element[at] /\ i = cursor[at]
  <2>. TAKE p \in Frames
  <2>. TAKE e \in DOMAIN Elements[p]
  <2>. TAKE i \in DOMAIN Elements[p][e]
  <2>1. Elements[p][e][i] \in Nodes
    BY TreeAssumption
  <2>2. Parent[Elements[p][e][i]] = p
    BY TreeAssumption
  <2>3. Elements[p][e][i] = Current => p = at
    BY <1>1, <2>2
  <2>4. Current = Elements[at][element[at]][cursor[at]]
    BY DEF Current, SelectionSet
  <2>5. Elements[p][e][i] = Current => e = element[at] /\ i = cursor[at]
    BY <1>1, <2>3, <2>4, TreeAssumption DEF SelectionSet
  <2>. QED BY <2>1, <2>3, <2>5
<1>5. element[Current] = 0
  BY <1>1 DEF Fresh, Current, SelectionSet
<1>6. ReadyVisited'
  <2>. SUFFICES ASSUME NEW p \in Frames
                PROVE  /\ ready'[p] # <<>> => element[p] > 0
                       /\ \A i \in DOMAIN ready'[p] :
                            /\ \E j \in DOMAIN Elements[p][element[p]] :
                                 /\ j < cursor'[p]
                                 /\ ready'[p][i] = Elements[p][element[p]][j]
                            /\ element[ready'[p][i]] = 0
                            /\ \A j \in DOMAIN ready'[p] :
                                 ready'[p][i] = ready'[p][j] => i = j
    BY DEF ReadyVisited
  <2>1. \A j \in Nat : j < cursor[p] => j < cursor'[p]
    BY <1>1, <1>2
  <2>4. \A i \in DOMAIN ready[p] :
          /\ element[p] > 0
          /\ \E j \in DOMAIN Elements[p][element[p]] :
               j < cursor'[p] /\ ready[p][i] = Elements[p][element[p]][j]
          /\ element[ready[p][i]] = 0
    <3>. TAKE i \in DOMAIN ready[p]
    <3>1. element[p] > 0
      BY DEF ReadyVisited
    <3>2. PICK j \in DOMAIN Elements[p][element[p]] :
             j < cursor[p] /\ ready[p][i] = Elements[p][element[p]][j]
      BY DEF ReadyVisited
    <3>3. j < cursor'[p]
      BY <3>1, <3>2, <2>1, SelectionLemma
    <3>. QED BY <3>1, <3>2, <3>3 DEF ReadyVisited
  <2>2. CASE ready'[p] = ready[p]
    <3>1. /\ ready[p] # <<>> => element[p] > 0
          /\ \A i, j \in DOMAIN ready[p] : ready[p][i] = ready[p][j] => i = j
      BY DEF ReadyVisited
    <3>. QED BY <2>2, <2>4, <3>1
  <2>3. CASE p = at /\ ready'[p] = Append(ready[p], Current)
    <3>1. /\ DOMAIN ready'[p] = 1..(Len(ready[p]) + 1)
          /\ DOMAIN ready[p] = 1..Len(ready[p])
          /\ \A i \in DOMAIN ready[p] : ready'[p][i] = ready[p][i]
          /\ ready'[p][Len(ready[p]) + 1] = Current
          /\ Len(ready[p]) \in Nat
      BY <1>2, <2>3
    <3>2. \A i \in DOMAIN ready[p] : ready[p][i] # Current
      BY <1>1, <1>4, <2>3 DEF ReadyVisited
    <3>3. element[p] > 0
      BY <2>3, <1>1, <1>2 DEF Entered
    <3>4. \A i \in DOMAIN ready'[p] :
            /\ \E j \in DOMAIN Elements[p][element[p]] :
                 j < cursor'[p] /\ ready'[p][i] = Elements[p][element[p]][j]
            /\ element[ready'[p][i]] = 0
      <4>. TAKE i \in DOMAIN ready'[p]
      <4>1. CASE i \in DOMAIN ready[p]
        BY <4>1, <3>1, <2>4
      <4>2. CASE i = Len(ready[p]) + 1
        <5>1. ready'[p][i] = Current /\ p = at
          BY <4>2, <3>1, <2>3
        <5>2. Current = Elements[at][element[at]][cursor[at]] /\ cursor[at] < cursor'[at]
          BY <1>1, <1>2 DEF Current, SelectionSet
        <5>. QED BY <5>1, <5>2, <1>1, <1>5 DEF SelectionSet
      <4>. QED BY <3>1, <4>1, <4>2
    <3>5. \A i, j \in DOMAIN ready'[p] : ready'[p][i] = ready'[p][j] => i = j
      BY <3>1, <3>2 DEF ReadyVisited
    <3>. QED BY <3>3, <3>4, <3>5
  <2>. QED BY <1>1, <1>2, <2>2, <2>3
<1>7. Fresh'
  <2>. SUFFICES ASSUME NEW p \in Frames, NEW e \in DOMAIN Elements[p],
                       NEW i \in DOMAIN Elements[p][e],
                       e > element[p] \/ (e = element[p] /\ i >= cursor'[p])
                PROVE  /\ goroutine'[Elements[p][e][i]] = "none"
                       /\ element[Elements[p][e][i]] = 0
    BY DEF Fresh
  <2>1. e > element[p] \/ (e = element[p] /\ i >= cursor[p])
    <3>1. Elements[p] \in Seq(Seq(Nodes))
      BY TreeAssumption
    <3>2. i \in Nat
      BY <3>1
    <3>. QED BY <3>2, <1>1, <1>2
  <2>2. Elements[p][e][i] # Current
    <3>1. Elements[p] \in Seq(Seq(Nodes))
      BY TreeAssumption
    <3>2. i \in Nat /\ e \in Nat
      BY <3>1
    <3>. QED BY <3>2, <1>1, <1>2, <1>4
  <2>. QED BY <2>1, <2>2, <1>4 DEF Fresh
<1>8. Trail' /\ DataKeepsParents'
  BY DEF Trail, IsTrail, DataKeepsParents
<1>. QED BY <1>3, <1>6, <1>7, <1>8

\* Taking the first field out of the linked map.
LEMMA PopKeepsReady ==
  ASSUME TypeOK, Entered, ReadyVisited, ready[at] # <<>>,
         ready' = [ready EXCEPT ![at] = Tail(@)],
         UNCHANGED cursor,
         \A p \in Frames : element[p] > 0 => element'[p] = element[p],
         \A n \in Nodes : n # Head(ready[at]) => element'[n] = element[n]
  PROVE  ReadyVisited'
<1>1. at \in Frames /\ element \in [Frames -> Nat] /\ ready \in [Frames -> Seq(Nodes)]
  BY DEF TypeOK
<1>2. SUFFICES ASSUME NEW p \in Frames
               PROVE  /\ ready'[p] # <<>> => element'[p] > 0
                      /\ \A i \in DOMAIN ready'[p] :
                           /\ \E j \in DOMAIN Elements[p][element'[p]] :
                                /\ j < cursor[p]
                                /\ ready'[p][i] = Elements[p][element'[p]][j]
                           /\ element'[ready'[p][i]] = 0
                           /\ \A j \in DOMAIN ready'[p] :
                                ready'[p][i] = ready'[p][j] => i = j
  BY DEF ReadyVisited
<1>3. CASE p = at
  <2>1. /\ ready'[p] = Tail(ready[p])
        /\ element[p] > 0
        /\ element'[p] = element[p]
    BY <1>1, <1>3 DEF ReadyVisited
  <2>2. ASSUME NEW i \in DOMAIN ready'[p]
        PROVE  /\ i + 1 \in DOMAIN ready[p]
               /\ ready'[p][i] = ready[p][i + 1]
               /\ element'[ready'[p][i]] = element[ready[p][i + 1]]
    BY <1>1, <1>3, <2>1, ReadyLemma
  <2>3. \A i \in DOMAIN ready'[p] : i \in Int
    BY <1>1, <1>3, <2>1, ReadyLemma
  <2>. QED BY <2>1, <2>2, <2>3 DEF ReadyVisited
<1>4. CASE p # at
  <2>1. ready'[p] = ready[p] /\ ready[p] \in Seq(Nodes)
    BY <1>1, <1>4
  <2>2. ready[p] # <<>> => element'[p] = element[p]
    BY <1>1 DEF ReadyVisited
  <2>3. ASSUME NEW i \in DOMAIN ready[p]
        PROVE  element'[ready[p][i]] = element[ready[p][i]] /\ ready[p] # <<>>
    <3>1. ready[p][i] \in Nodes /\ ready[p] # <<>>
      BY <2>1
    <3>2. PICK j \in DOMAIN Elements[p][element[p]] :
             ready[p][i] = Elements[p][element[p]][j]
      BY DEF ReadyVisited
    <3>3. Parent[ready[p][i]] = p
      BY <3>1, <3>2, SelectionLemma, TreeAssumption DEF ReadyVisited
    <3>4. ready[p][i] # Head(ready[at])
      BY <1>1, <1>4, <3>3, ReadyLemma
    <3>. QED BY <3>1, <3>4
  <2>. QED BY <2>1, <2>2, <2>3 DEF ReadyVisited
<1>. QED BY <1>3, <1>4

\* A key written in the selection set of at.
LEMMA AppendKeepsParents ==
  ASSUME TypeOK, Trail, DataKeepsParents, NEW n \in Nodes, Parent[n] = at,
         data' = Append(data, n)
  PROVE  DataKeepsParents'
<1>1. /\ data \in Seq(Nodes)
      /\ DOMAIN data = 1..Len(data)
      /\ Len(data) \in Nat
      /\ DOMAIN data' = 1..(Len(data) + 1)
      /\ \A j \in DOMAIN data : data'[j] = data[j]
      /\ data'[Len(data) + 1] = n
  BY DEF TypeOK
<1>2. at # Root => \E i \in 1..Len(data) : data[i] = at
  <2>. HAVE at # Root
  <2>1. PICK S \in SUBSET Nodes : IsTrail(S)
    BY DEF Trail
  <2>2. at \in S /\ mark[at] \in Nat
    BY <2>1 DEF IsTrail, TypeOK
  <2>3. mark[at] + 1 \in 1..Len(data) /\ data[mark[at] + 1] = at
    BY <1>1, <2>1, <2>2 DEF IsTrail
  <2>. QED BY <2>3
<1>. SUFFICES ASSUME NEW j \in DOMAIN data'
              PROVE  \/ Parent[data'[j]] = Root
                     \/ \E i \in 1..(j - 1) : data'[i] = Parent[data'[j]]
  BY DEF DataKeepsParents
<1>3. CASE j \in DOMAIN data
  <2>1. data'[j] = data[j] /\ j \in 1..Len(data)
    BY <1>1, <1>3
  <2>2. CASE Parent[data[j]] = Root
    BY <2>1, <2>2
  <2>3. CASE \E i \in 1..(j - 1) : data[i] = Parent[data[j]]
    <3>1. PICK i \in 1..(j - 1) : data[i] = Parent[data[j]]
      BY <2>3
    <3>2. data'[i] = data[i]
      BY <1>1, <2>1, <3>1
    <3>. QED BY <2>1, <3>1, <3>2
  <2>. QED BY <1>3, <2>2, <2>3 DEF DataKeepsParents
<1>4. CASE j = Len(data) + 1
  <2>1. CASE at = Root
    BY <1>1, <1>4, <2>1
  <2>2. CASE at # Root
    <3>1. PICK i \in 1..Len(data) : data[i] = at
      BY <1>2, <2>2
    <3>2. i \in 1..(j - 1) /\ data'[i] = at /\ Parent[data'[j]] = at
      BY <1>1, <1>4, <3>1
    <3>. QED BY <3>2
  <2>. QED BY <2>1, <2>2
<1>. QED BY <1>1, <1>3, <1>4

\* Truncating the buffer cannot separate a key from the one it is nested in.
LEMMA CutKeepsParents ==
  ASSUME TypeOK, DataKeepsParents, NEW k \in 0..Len(data),
         data' = SubSeq(data, 1, k)
  PROVE  DataKeepsParents'
<1>1. /\ data \in Seq(Nodes)
      /\ DOMAIN data = 1..Len(data)
      /\ DOMAIN data' = 1..k
      /\ \A i \in 1..k : data'[i] = data[i]
  BY PrefixLemma DEF TypeOK
<1>. SUFFICES ASSUME NEW j \in DOMAIN data'
              PROVE  \/ Parent[data'[j]] = Root
                     \/ \E i \in 1..(j - 1) : data'[i] = Parent[data'[j]]
  BY DEF DataKeepsParents
<1>2. j \in DOMAIN data /\ data'[j] = data[j]
  BY <1>1
<1>3. CASE Parent[data[j]] = Root
  BY <1>2, <1>3
<1>4. CASE \E i \in 1..(j - 1) : data[i] = Parent[data[j]]
  <2>1. PICK i \in 1..(j - 1) : data[i] = Parent[data[j]]
    BY <1>4
  <2>2. i \in 1..k
    BY <1>1, <2>1
  <2>. QED BY <1>1, <1>2, <2>1, <2>2
<1>. QED BY <1>2, <1>3, <1>4 DEF DataKeepsParents

\* A trail survives a longer buffer.
LEMMA AppendKeepsTrail ==
  ASSUME TypeOK, Trail, NEW n \in Nodes, data' = Append(data, n), UNCHANGED <<at, mark>>
  PROVE  Trail'
<1>1. PICK S \in SUBSET Nodes : IsTrail(S)
  BY DEF Trail
<1>2. ASSUME NEW m \in S
      PROVE  mark[m] < Len(data') /\ data'[mark[m] + 1] = m
  <2>1. mark[m] \in Nat /\ data \in Seq(Nodes)
    BY DEF TypeOK
  <2>2. mark[m] < Len(data) /\ data[mark[m] + 1] = m
    BY <1>1 DEF IsTrail
  <2>3. mark[m] + 1 \in 1..Len(data)
    BY <2>1, <2>2
  <2>. QED BY <2>1, <2>2, <2>3
<1>3. IsTrail(S)'
  BY <1>1, <1>2 DEF IsTrail
<1>. QED BY <1>3 DEF Trail

\* Waiting for a goroutine concerns a field that has one.
LEMMA TakeLeavesFresh ==
  ASSUME TypeOK, NEW n \in Nodes, TakeResult(n), NEW m \in Nodes, goroutine[m] = "none"
  PROVE  goroutine'[m] = "none"
BY DEF TypeOK, TakeResult, Settled

\* Going on to the next selection set of a node that the loops have passed.
LEMMA GrowthKeepsFresh ==
  ASSUME TypeOK, Fresh, NEW q \in Frames,
         element' = [element EXCEPT ![q] = element[q] + 1],
         \A p \in Frames \ {q} : cursor'[p] = cursor[p],
         \A n \in Nodes : goroutine[n] = "none" => goroutine'[n] = "none",
         \A p \in Frames : \A e \in DOMAIN Elements[p] : \A i \in DOMAIN Elements[p][e] :
           e > element[p] \/ (e = element[p] /\ i >= cursor[p]) => Elements[p][e][i] # q
  PROVE  Fresh'
<1>. SUFFICES ASSUME NEW p \in Frames, NEW e \in DOMAIN Elements[p],
                     NEW i \in DOMAIN Elements[p][e],
                     e > element'[p] \/ (e = element'[p] /\ i >= cursor'[p])
              PROVE  /\ goroutine'[Elements[p][e][i]] = "none"
                     /\ element'[Elements[p][e][i]] = 0
  BY DEF Fresh
<1>1. e \in Nat /\ i \in Nat /\ Elements[p][e][i] \in Nodes
  <2>1. Elements[p] \in Seq(Seq(Nodes))
    BY TreeAssumption
  <2>. QED BY <2>1
<1>2. e > element[p] \/ (e = element[p] /\ i >= cursor[p])
  BY <1>1 DEF TypeOK
<1>3. Elements[p][e][i] # q /\ Elements[p][e][i] \in Frames
  BY <1>1, <1>2 DEF Nodes, Frames
<1>4. goroutine[Elements[p][e][i]] = "none" /\ element[Elements[p][e][i]] = 0
  BY <1>2 DEF Fresh
<1>. QED BY <1>1, <1>3, <1>4 DEF TypeOK

\* Execute: main enters the selection set of the operation.
LEMMA StartKeepsWalk ==
  ASSUME WalkInv, TypeOK', Start
  PROVE  WalkInv'
<1>. USE DEF WalkInv
<1>1. /\ main = "start" /\ main' = "walk"
      /\ element' = [element EXCEPT ![Root] = 1]
      /\ UNCHANGED <<at, cursor, ready, mark, goroutine, data>>
  BY DEF Start, async, output
<1>2. at = Root /\ element[Root] = 0
  BY <1>1 DEF Entered
<1>3. /\ element \in [Frames -> Nat]
      /\ ready \in [Frames -> Seq(Nodes)]
      /\ Root \in Frames
      /\ Root \notin Nodes
      /\ Len(Elements[Root]) = 1
  <2>1. Root \in Frames /\ Root \notin Nodes
    BY TreeAssumption DEF Frames, Nodes, Root
  <2>. QED BY <2>1, TreeAssumption DEF TypeOK
<1>4. \A n \in Nodes : Parent[n] \in Frames /\ n \in Frames
  BY TreeAssumption DEF Nodes, Frames
<1>5. Entered'
  <2>1. element'[at'] = 1 /\ main' # "start" /\ main' # "acquire"
    BY <1>1, <1>2, <1>3
  <2>2. \A p \in Frames : element'[p] <= Len(Elements[p])
    <3>1. \A p \in Frames : element[p] <= Len(Elements[p])
      BY DEF Entered
    <3>. TAKE p \in Frames
    <3>2. CASE p = Root
      <4>1. element'[Root] = 1 /\ Len(Elements[Root]) = 1
        BY <1>1, <1>3
      <4>. QED BY <3>2, <4>1
    <3>3. CASE p # Root
      BY <1>1, <1>3, <3>1, <3>3
    <3>. QED BY <3>2, <3>3
  <2>3. \A n \in Nodes : element'[n] > 0 => element'[Parent[n]] > 0
    BY <1>1, <1>3, <1>4 DEF Entered
  <2>. QED BY <2>1, <2>2, <2>3 DEF Entered
<1>6. ReadyVisited'
  <2>1. \A p \in Frames : ready[p] # <<>> => element'[p] = element[p] /\ element[p] > 0
    BY <1>1, <1>2, <1>3 DEF ReadyVisited
  <2>2. \A p \in Frames : \A i \in DOMAIN ready[p] :
          ready[p] # <<>> /\ element'[ready[p][i]] = element[ready[p][i]]
    BY <1>1, <1>3, <1>4
  <2>. QED BY <1>1, <2>1, <2>2 DEF ReadyVisited
<1>7. Fresh'
  <2>1. \A p \in Frames : \A e \in DOMAIN Elements[p] : \A i \in DOMAIN Elements[p][e] :
          Elements[p][e][i] # Root
    BY <1>3, TreeAssumption
  <2>2. element' = [element EXCEPT ![Root] = element[Root] + 1]
    BY <1>1, <1>2
  <2>3. /\ \A p \in Frames \ {Root} : cursor'[p] = cursor[p]
        /\ \A n \in Nodes : goroutine[n] = "none" => goroutine'[n] = "none"
    BY <1>1
  <2>. QED BY <1>3, <2>1, <2>2, <2>3, GrowthKeepsFresh
<1>8. Trail' /\ DataKeepsParents'
  BY <1>1 DEF Trail, IsTrail, DataKeepsParents
<1>. QED BY <1>5, <1>6, <1>7, <1>8

\* writeList: main goes on to the selection set of the next element.
LEMMA NextElementKeepsWalk ==
  ASSUME WalkInv, TypeOK', NextElement
  PROVE  WalkInv'
<1>. USE DEF WalkInv
<1>1. /\ main = "walk" /\ main' = "walk"
      /\ ready[at] = <<>>
      /\ element[at] < Len(Elements[at])
      /\ element' = [element EXCEPT ![at] = element[at] + 1]
      /\ cursor' = [cursor EXCEPT ![at] = 1]
      /\ UNCHANGED <<at, ready, mark, goroutine, data>>
  BY DEF NextElement, SelectionSetDone, Resolved, async, output
<1>2. /\ at \in Frames
      /\ element[at] > 0
      /\ element \in [Frames -> Nat]
      /\ cursor \in [Frames -> Nat \ {0}]
      /\ ready \in [Frames -> Seq(Nodes)]
  BY <1>1 DEF TypeOK, Entered
<1>3. \A p \in Frames : Len(Elements[p]) \in Nat
  BY TreeAssumption
<1>4. \A n \in Nodes : Parent[n] \in Frames /\ n \in Frames
  BY TreeAssumption DEF Nodes, Frames
<1>5. Entered'
  <2>1. element'[at'] > 0 /\ main' # "start" /\ main' # "acquire"
    BY <1>1, <1>2
  <2>2. \A p \in Frames : element'[p] <= Len(Elements[p])
    <3>1. \A p \in Frames : element[p] <= Len(Elements[p])
      BY DEF Entered
    <3>. QED BY <1>1, <1>2, <1>3, <3>1
  <2>3. \A n \in Nodes : element'[n] > 0 => element'[Parent[n]] > 0
    <3>1. \A n \in Nodes : element[n] > 0 => element[Parent[n]] > 0
      BY DEF Entered
    <3>2. \A p \in Frames : element'[p] > 0 <=> element[p] > 0
      BY <1>1, <1>2
    <3>. QED BY <1>4, <3>1, <3>2
  <2>. QED BY <2>1, <2>2, <2>3 DEF Entered
<1>6. ReadyVisited'
  <2>. SUFFICES ASSUME NEW p \in Frames
                PROVE  /\ ready[p] # <<>> => element'[p] > 0
                       /\ \A i \in DOMAIN ready[p] :
                            /\ \E j \in DOMAIN Elements[p][element'[p]] :
                                 /\ j < cursor'[p]
                                 /\ ready[p][i] = Elements[p][element'[p]][j]
                            /\ element'[ready[p][i]] = 0
                            /\ \A j \in DOMAIN ready[p] : ready[p][i] = ready[p][j] => i = j
    BY <1>1 DEF ReadyVisited
  <2>1. CASE p = at
    <3>1. ready[p] = <<>> /\ DOMAIN ready[p] = {}
      BY <1>1, <2>1
    <3>. QED BY <3>1
  <2>2. CASE p # at
    <3>1. element'[p] = element[p] /\ cursor'[p] = cursor[p]
      BY <1>1, <1>2, <2>2
    <3>2. \A i \in DOMAIN ready[p] : element'[ready[p][i]] = 0
      <4>. TAKE i \in DOMAIN ready[p]
      <4>1. element[ready[p][i]] = 0 /\ ready[p][i] \in Nodes
        BY <1>2 DEF ReadyVisited
      <4>. QED BY <1>1, <1>2, <1>4, <4>1
    <3>. QED BY <3>1, <3>2 DEF ReadyVisited
  <2>. QED BY <2>1, <2>2
<1>7. Fresh'
  <2>1. \A p \in Frames : \A e \in DOMAIN Elements[p] : \A i \in DOMAIN Elements[p][e] :
          e > element[p] \/ (e = element[p] /\ i >= cursor[p]) => Elements[p][e][i] # at
    BY <1>2 DEF Fresh
  <2>2. /\ \A p \in Frames \ {at} : cursor'[p] = cursor[p]
        /\ \A n \in Nodes : goroutine[n] = "none" => goroutine'[n] = "none"
    BY <1>1, <1>2
  <2>. QED BY <1>1, <1>2, <2>1, <2>2, GrowthKeepsFresh
<1>8. Trail' /\ DataKeepsParents'
  BY <1>1 DEF Trail, IsTrail, DataKeepsParents
<1>. QED BY <1>5, <1>6, <1>7, <1>8

\* executeSelected returns: main goes on in the selection set above.
LEMMA LeaveFieldKeepsWalk ==
  ASSUME WalkInv, TypeOK', LeaveField
  PROVE  WalkInv'
<1>. USE DEF WalkInv
<1>1. /\ main = "walk" /\ main' = "walk"
      /\ at # Root /\ at' = Parent[at]
      /\ UNCHANGED <<element, cursor, ready, mark, goroutine, data>>
  BY DEF LeaveField, SelectionSetDone, Resolved, async, output
<1>2. at \in Nodes /\ element[at] > 0
  BY <1>1, MarkLemma DEF Entered
<1>3. Entered'
  BY <1>1, <1>2 DEF Entered
<1>4. ReadyVisited' /\ Fresh' /\ DataKeepsParents'
  BY <1>1 DEF ReadyVisited, Fresh, DataKeepsParents
<1>5. Trail'
  <2>1. PICK S \in SUBSET Nodes : IsTrail(S)
    BY DEF Trail
  <2>2. IsTrail(S)'
    BY <1>1, <1>2, <2>1 DEF IsTrail
  <2>. QED BY <2>2 DEF Trail
<1>. QED BY <1>3, <1>4, <1>5

\* The recover of executeSelected: the field main is in is cut out.
LEMMA RecoverKeepsWalk ==
  ASSUME WalkInv, TypeOK', ResolvePanics, at # Root
  PROVE  WalkInv'
<1>. USE DEF WalkInv
<1>1. /\ main = "walk" /\ main' = "walk"
      /\ at' = Parent[at]
      /\ data' = SubSeq(data, 1, mark[at])
      /\ UNCHANGED <<element, cursor, ready, mark, goroutine>>
  BY DEF ResolvePanics, Resolving, CutOut, async
<1>2. at \in Nodes /\ element[at] > 0 /\ mark[at] \in 0..Len(data)
  BY <1>1, MarkLemma DEF Entered
<1>3. Entered'
  BY <1>1, <1>2 DEF Entered
<1>4. ReadyVisited' /\ Fresh'
  BY <1>1 DEF ReadyVisited, Fresh
<1>5. DataKeepsParents'
  BY <1>1, <1>2, CutKeepsParents
<1>6. Trail'
  <2>1. PICK S \in SUBSET Nodes : IsTrail(S)
    BY DEF Trail
  <2>2. at \in S /\ \A m \in S : mark[m] \in Nat
    BY <1>2, <2>1 DEF IsTrail, TypeOK
  <2>. PICK T \in SUBSET Nodes : T = {m \in S : mark[m] < mark[at]}
    OBVIOUS
  <2>3. Parent[at] \in T \cup {Root}
    BY <2>1, <2>2 DEF IsTrail
  <2>4. /\ Len(data') = mark[at]
        /\ \A i \in 1..mark[at] : data'[i] = data[i]
    <3>1. data \in Seq(Nodes)
      BY DEF TypeOK
    <3>. QED BY <1>1, <1>2, <3>1, PrefixLemma
  <2>5. ASSUME NEW m \in T
        PROVE  /\ Parent[m] \in T \cup {Root}
               /\ mark[m] < Len(data')
               /\ data'[mark[m] + 1] = m
               /\ Parent[m] \in T => mark[Parent[m]] < mark[m]
    <3>1. mark[m] + 1 \in 1..mark[at]
      BY <1>2, <2>2
    <3>2. data'[mark[m] + 1] = m
      BY <2>1, <2>4, <3>1 DEF IsTrail
    <3>3. Parent[m] \in S => mark[Parent[m]] < mark[m]
      BY <2>1 DEF IsTrail
    <3>4. Parent[m] \in T \cup {Root}
      BY <1>2, <2>1, <2>2, <3>3 DEF IsTrail
    <3>. QED BY <2>4, <3>2, <3>3, <3>4
  <2>6. IsTrail(T)'
    BY <1>1, <2>3, <2>5 DEF IsTrail
  <2>. QED BY <2>6 DEF Trail
<1>. QED BY <1>3, <1>4, <1>5, <1>6

\* recursiveExecute: a field is executed and nothing is executed below it.
LEMMA ExecutedKeepsWalk ==
  ASSUME WalkInv, TypeOK', WriteField \/ FailField
  PROVE  WalkInv'
<1>. USE DEF WalkInv
<1>. DEFINE n == Head(ready[at])
<1>1. /\ main = "walk" /\ main' = "walk"
      /\ ready[at] # <<>>
      /\ ready' = [ready EXCEPT ![at] = Tail(@)]
      /\ TakeResult(n)
      /\ UNCHANGED <<at, element, cursor, mark>>
  BY DEF WriteField, FailField, Executing, Resolved
<1>2. n \in Nodes /\ Parent[n] = at
  BY <1>1, ReadyLemma DEF TypeOK
<1>3. data' = Append(data, n) \/ data' = SubSeq(data, 1, Len(data))
  BY DEF WriteField, FailField, CutOut
<1>4. Entered'
  BY <1>1 DEF Entered
<1>5. ReadyVisited'
  BY <1>1, PopKeepsReady
<1>6. Fresh'
  <2>1. \A p \in Frames : \A e \in DOMAIN Elements[p] : \A i \in DOMAIN Elements[p][e] :
          Elements[p][e][i] \in Nodes
    BY TreeAssumption
  <2>2. \A m \in Nodes : goroutine[m] = "none" => goroutine'[m] = "none"
    BY <1>1, <1>2, TakeLeavesFresh
  <2>. QED BY <1>1, <2>1, <2>2 DEF Fresh
<1>7. CASE data' = Append(data, n)
  <2>1. Trail'
    BY <1>1, <1>2, <1>7, AppendKeepsTrail
  <2>2. DataKeepsParents'
    BY <1>2, <1>7, AppendKeepsParents
  <2>. QED BY <1>4, <1>5, <1>6, <2>1, <2>2
<1>8. CASE data' = SubSeq(data, 1, Len(data))
  <2>1. data \in Seq(Nodes) /\ Len(data) \in 0..Len(data)
    BY DEF TypeOK
  <2>2. DataKeepsParents'
    BY <1>8, <2>1, CutKeepsParents
  <2>3. /\ Len(data') = Len(data)
        /\ \A i \in 1..Len(data) : data'[i] = data[i]
    BY <1>8, <2>1, PrefixLemma
  <2>4. PICK S \in SUBSET Nodes : IsTrail(S)
    BY DEF Trail
  <2>5. ASSUME NEW m \in S PROVE data'[mark[m] + 1] = m
    <3>1. mark[m] < Len(data) /\ mark[m] \in Nat
      BY <2>4 DEF IsTrail, TypeOK
    <3>2. mark[m] + 1 \in 1..Len(data)
      BY <2>1, <3>1
    <3>. QED BY <2>3, <2>4, <3>2 DEF IsTrail
  <2>6. IsTrail(S)'
    BY <1>1, <2>3, <2>4, <2>5 DEF IsTrail
  <2>7. Trail'
    BY <2>6 DEF Trail
  <2>. QED BY <1>4, <1>5, <1>6, <2>2, <2>7
<1>. QED BY <1>3, <1>7, <1>8

\* executeSelected: a field is executed and main enters its selection set.
LEMMA EnterFieldKeepsWalk ==
  ASSUME WalkInv, TypeOK', EnterField
  PROVE  WalkInv'
<1>. USE DEF WalkInv
<1>. PICK n \in Nodes : n = Head(ready[at])
  BY ReadyLemma DEF EnterField, Executing, TypeOK
<1>1. /\ main = "walk" /\ main' = "walk"
      /\ ready[at] # <<>>
      /\ Elements[n] # <<>>
      /\ data' = Append(data, n)
      /\ mark' = [mark EXCEPT ![n] = Len(data)]
      /\ at' = n
      /\ element' = [element EXCEPT ![n] = 1]
      /\ ready' = [ready EXCEPT ![at] = Tail(@)]
      /\ TakeResult(n)
      /\ UNCHANGED cursor
  BY DEF EnterField, Executing, Resolved
<1>2. /\ at \in Frames
      /\ element[at] > 0
      /\ element \in [Frames -> Nat]
      /\ ready \in [Frames -> Seq(Nodes)]
      /\ mark \in [Nodes -> Nat]
      /\ data \in Seq(Nodes)
  BY <1>1 DEF TypeOK, Entered
<1>3. element[n] = 0 /\ Parent[n] = at
  BY <1>1, <1>2, ReadyLemma
<1>4. \A m \in Nodes : Parent[m] \in Frames /\ m \in Frames /\ Parent[m] < m
  BY TreeAssumption DEF Nodes, Frames
<1>5. Entered'
  <2>1. element'[at'] > 0 /\ main' # "start" /\ main' # "acquire"
    BY <1>1, <1>2, <1>4
  <2>2. \A p \in Frames : element'[p] <= Len(Elements[p])
    <3>1. \A p \in Frames : element[p] <= Len(Elements[p])
      BY DEF Entered
    <3>2. Elements[n] \in Seq(Seq(Nodes))
      BY <1>4, TreeAssumption
    <3>3. 1 <= Len(Elements[n])
      BY <1>1, <3>2
    <3>. QED BY <1>1, <1>2, <3>1, <3>3
  <2>3. \A m \in Nodes : element'[m] > 0 => element'[Parent[m]] > 0
    <3>1. \A m \in Nodes : element[m] > 0 => element[Parent[m]] > 0
      BY DEF Entered
    <3>2. \A p \in Frames : element'[p] > 0 <=> element[p] > 0 \/ p = n
      BY <1>1, <1>2
    <3>. QED BY <1>2, <1>3, <1>4, <3>1, <3>2
  <2>. QED BY <2>1, <2>2, <2>3 DEF Entered
<1>6. ReadyVisited'
  <2>1. \A p \in Frames : element[p] > 0 => element'[p] = element[p]
    BY <1>1, <1>2, <1>3
  <2>2. \A m \in Nodes : m # Head(ready[at]) => element'[m] = element[m]
    BY <1>1, <1>2, <1>4
  <2>. QED BY <1>1, <2>1, <2>2, PopKeepsReady
<1>7. Fresh'
  <2>1. PICK j \in DOMAIN Elements[at][element[at]] :
           j < cursor[at] /\ n = Elements[at][element[at]][j]
    <3>1. n = ready[at][1] /\ 1 \in DOMAIN ready[at]
      BY <1>1, <1>2, ReadyLemma
    <3>2. \E j \in DOMAIN Elements[at][element[at]] :
             j < cursor[at] /\ ready[at][1] = Elements[at][element[at]][j]
      BY <1>2, <3>1 DEF ReadyVisited
    <3>. QED BY <3>1, <3>2
  <2>2. ASSUME NEW p \in Frames, NEW e \in DOMAIN Elements[p],
               NEW i \in DOMAIN Elements[p][e],
               e > element[p] \/ (e = element[p] /\ i >= cursor[p]),
               Elements[p][e][i] = n
        PROVE  FALSE
    <3>1. Parent[Elements[p][e][i]] = p
      BY TreeAssumption
    <3>2. p = at
      BY <1>3, <2>2, <3>1
    <3>3. element[at] \in DOMAIN Elements[at]
      BY <1>2, SelectionLemma
    <3>4. e = element[at] /\ i = j
      <4>1. /\ e \in DOMAIN Elements[at] /\ i \in DOMAIN Elements[at][e]
            /\ Elements[at][e][i] = Elements[at][element[at]][j]
        BY <2>1, <2>2, <3>2
      <4>. QED BY <1>2, <2>1, <3>3, <4>1, TreeAssumption
    <3>5. j \in Nat /\ cursor[at] \in Nat
      BY <1>2, SelectionLemma DEF TypeOK
    <3>6. element[at] \in Nat
      BY <1>2
    <3>. QED BY <2>1, <2>2, <3>2, <3>4, <3>5, <3>6
  <2>3. element' = [element EXCEPT ![n] = element[n] + 1] /\ n \in Frames
    BY <1>1, <1>3, <1>4
  <2>4. \A m \in Nodes : goroutine[m] = "none" => goroutine'[m] = "none"
    BY <1>1, TakeLeavesFresh
  <2>5. \A p \in Frames \ {n} : cursor'[p] = cursor[p]
    BY <1>1
  <2>. QED BY <2>2, <2>3, <2>4, <2>5, GrowthKeepsFresh
<1>8. DataKeepsParents'
  BY <1>1, <1>3, AppendKeepsParents
<1>9. Trail'
  <2>1. PICK S \in SUBSET Nodes : IsTrail(S)
    BY DEF Trail
  <2>. PICK T \in SUBSET Nodes : T = {m \in S : m < n} \cup {n}
    OBVIOUS
  <2>2. at \in T \cup {Root} /\ at # n
    <3>1. at \in S \cup {Root}
      BY <2>1 DEF IsTrail
    <3>2. at < n /\ at \in Int /\ n \in Int
      BY <1>2, <1>3, <1>4 DEF Nodes, Frames
    <3>. QED BY <3>1, <3>2
  <2>3. /\ Len(data') = Len(data) + 1
        /\ Len(data) \in Nat
        /\ data'[Len(data) + 1] = n
        /\ \A i \in 1..Len(data) : data'[i] = data[i]
    BY <1>1, <1>2
  <2>4. ASSUME NEW m \in T, m # n
        PROVE  /\ Parent[m] \in T \cup {Root} /\ Parent[m] # n
               /\ mark'[m] = mark[m]
               /\ mark[m] < Len(data)
               /\ data'[mark[m] + 1] = m
               /\ Parent[m] \in S => mark[Parent[m]] < mark[m]
    <3>1. m \in S /\ m < n /\ m \in Nodes
      BY <2>4
    <3>2. /\ Parent[m] \in S \cup {Root}
          /\ mark[m] < Len(data)
          /\ data[mark[m] + 1] = m
          /\ Parent[m] \in S => mark[Parent[m]] < mark[m]
      BY <2>1, <3>1 DEF IsTrail
    <3>3. m \in Int /\ n \in Int /\ Parent[m] \in Int /\ Parent[m] < n
      BY <1>4, <3>1 DEF Nodes, Frames
    <3>4. Parent[m] \in T \cup {Root} /\ Parent[m] # n
      BY <3>2, <3>3
    <3>5. mark[m] \in Nat /\ mark'[m] = mark[m]
      BY <1>1, <1>2, <2>4, <3>1
    <3>6. mark[m] + 1 \in 1..Len(data)
      BY <2>3, <3>2, <3>5
    <3>. QED BY <2>3, <3>2, <3>4, <3>5, <3>6
  <2>5. mark'[n] = Len(data)
    BY <1>1, <1>2
  <2>6. \A m \in T :
          /\ Parent[m] \in T \cup {Root}
          /\ mark'[m] < Len(data')
          /\ data'[mark'[m] + 1] = m
          /\ Parent[m] \in T => mark'[Parent[m]] < mark'[m]
    <3>. TAKE m \in T
    <3>1. CASE m = n
      <4>1. /\ Parent[m] \in T \cup {Root}
            /\ mark'[m] < Len(data')
            /\ data'[mark'[m] + 1] = m
        BY <1>3, <2>2, <2>3, <2>5, <3>1
      <4>2. ASSUME Parent[m] \in T PROVE mark'[Parent[m]] < mark'[m]
        <5>1. Parent[m] = at /\ at \in T /\ at # n
          BY <1>3, <2>2, <3>1, <4>2
        <5>2. mark'[at] = mark[at] /\ mark[at] < Len(data)
          BY <2>4, <5>1
        <5>. QED BY <2>5, <3>1, <5>1, <5>2
      <4>. QED BY <4>1, <4>2
    <3>2. CASE m # n
      <4>1. mark[m] \in Nat
        BY <1>2
      <4>2. Parent[m] \in T => mark'[Parent[m]] = mark[Parent[m]] /\ Parent[m] \in S
        BY <2>4, <3>2
      <4>. QED BY <2>3, <2>4, <3>2, <4>1, <4>2
    <3>. QED BY <3>1, <3>2
  <2>7. IsTrail(T)'
    BY <1>1, <2>6 DEF IsTrail
  <2>. QED BY <2>7 DEF Trail
<1>. QED BY <1>5, <1>6, <1>7, <1>8, <1>9

\* Every step keeps the invariant of the walk.
LEMMA WalkStep == WalkInv /\ [Next]_vars => WalkInv'
<1>. SUFFICES ASSUME WalkInv, [Next]_vars PROVE WalkInv'
  OBVIOUS
<1>1. TypeOK'
  BY TypeStep DEF WalkInv
<1>. USE DEF async, output, stream
<1>2. CASE UNCHANGED vars
  BY <1>1, <1>2, WalkStands DEF vars
<1>3. CASE Start
  BY <1>1, <1>3, StartKeepsWalk
<1>4. CASE SkipField \/ MergeField
  BY <1>1, <1>4, AdvanceKeepsWalk DEF SkipField, MergeField, Resolving
<1>5. CASE NoResolver
  BY <1>1, <1>5, AdvanceKeepsWalk DEF NoResolver, Resolving
<1>6. CASE ResolveDirect
  BY <1>1, <1>6, AdvanceKeepsWalk DEF ResolveDirect, Resolving, AddToReady
<1>7. CASE ResolveAsync
  BY <1>1, <1>7, WalkStands DEF ResolveAsync, Resolving
<1>8. CASE StartGoroutine
  <2>1. cursor[at] <= Len(SelectionSet)
    BY <1>8 DEF StartGoroutine, WalkInv, Entered
  <2>2. \A n \in Nodes : n # Current => goroutine'[n] = goroutine[n]
    BY <1>8 DEF StartGoroutine, WalkInv, TypeOK
  <2>. QED BY <1>1, <1>8, <2>1, <2>2, AdvanceKeepsWalk DEF StartGoroutine, AddToReady
<1>9. CASE ResolvePanics
  <2>1. CASE at = Root
    BY <1>1, <1>9, <2>1, WalkStands DEF ResolvePanics, Resolving, walk
  <2>2. CASE at # Root
    BY <1>1, <1>9, <2>2, RecoverKeepsWalk
  <2>. QED BY <2>1, <2>2
<1>10. CASE WriteField \/ FailField
  BY <1>1, <1>10, ExecutedKeepsWalk
<1>11. CASE EnterField
  BY <1>1, <1>11, EnterFieldKeepsWalk
<1>12. CASE NextElement
  BY <1>1, <1>12, NextElementKeepsWalk
<1>13. CASE LeaveField
  BY <1>1, <1>13, LeaveFieldKeepsWalk
<1>14. CASE Answer
  BY <1>1, <1>14, WalkStands DEF Answer, SelectionSetDone, Resolved
<1>15. CASE CloseStream
  BY <1>1, <1>15, WalkStands DEF CloseStream
<1>16. CASE ReleaseMain
  BY <1>1, <1>16, WalkStands DEF ReleaseMain
<1>17. ASSUME NEW n \in Nodes, Goroutine(n)
       PROVE  WalkInv'
  <2>1. UNCHANGED <<main, walk, data>>
    BY <1>17 DEF Goroutine, GoroutineReturns, GoroutineReleases, GoroutineSends,
                 GoroutineDies
  <2>2. \A m \in Nodes : goroutine[m] = "none" => goroutine'[m] = "none"
    BY <1>17 DEF Goroutine, GoroutineReturns, GoroutineReleases, GoroutineSends,
                 GoroutineDies, WalkInv, TypeOK
  <2>. QED BY <1>1, <2>1, <2>2, WalkStands
<1>. QED
  BY <1>2, <1>3, <1>4, <1>5, <1>6, <1>7, <1>8, <1>9, <1>10, <1>11, <1>12, <1>13,
     <1>14, <1>15, <1>16, <1>17
     DEF Next, Main, Terminated

\* The walk over the tree keeps its invariant in every execution.
THEOREM WalkInvariant == Spec => []WalkInv
BY WalkInit, WalkStep, PTL DEF Spec

\* Every variable keeps its type, for every tree and every MaxParallelism.
THEOREM TypeCorrect == Spec => []TypeOK
<1>1. WalkInv => TypeOK
  BY DEF WalkInv
<1>. QED BY <1>1, WalkInvariant, PTL

\* recursiveExecute truncates the buffer at any depth and for any failure, and the
\* response never holds a key without the key it is nested in.
THEOREM ParentsKept == Spec => []DataKeepsParents
<1>1. WalkInv => DataKeepsParents
  BY DEF WalkInv
<1>. QED BY <1>1, WalkInvariant, PTL

-----------------------------------------------------------------------------
(* The sets of fields that a step moves a field between.                   *)

\* Adding to a sequence adds to its set.
LEMMA AppendSet ==
  ASSUME NEW S, NEW s \in Seq(S), NEW x
  PROVE  ToSet(Append(s, x)) = ToSet(s) \cup {x}
BY DEF ToSet

\* Taking the first of a sequence of distinct elements removes it from the set.
LEMMA TailSet ==
  ASSUME NEW S, NEW s \in Seq(S), s # <<>>,
         \A i, j \in DOMAIN s : s[i] = s[j] => i = j
  PROVE  ToSet(Tail(s)) = ToSet(s) \ {Head(s)} /\ Head(s) \in ToSet(s)
<1>1. /\ DOMAIN s = 1..Len(s) /\ Len(s) \in Nat \ {0}
      /\ DOMAIN Tail(s) = 1..(Len(s) - 1)
      /\ \A i \in DOMAIN Tail(s) : Tail(s)[i] = s[i + 1]
      /\ Head(s) = s[1]
  OBVIOUS
<1>2. ASSUME NEW x \in ToSet(Tail(s)) PROVE x \in ToSet(s) \ {Head(s)}
  <2>1. PICK i \in DOMAIN Tail(s) : x = Tail(s)[i]
    BY DEF ToSet
  <2>2. i + 1 \in DOMAIN s /\ x = s[i + 1] /\ i + 1 # 1 /\ 1 \in DOMAIN s
    BY <1>1, <2>1
  <2>. QED BY <1>1, <2>2 DEF ToSet
<1>3. ASSUME NEW x \in ToSet(s), x # Head(s) PROVE x \in ToSet(Tail(s))
  <2>1. PICK i \in DOMAIN s : x = s[i]
    BY DEF ToSet
  <2>2. i - 1 \in DOMAIN Tail(s) /\ Tail(s)[i - 1] = x
    BY <1>1, <1>3, <2>1
  <2>. QED BY <2>2 DEF ToSet
<1>4. Head(s) \in ToSet(s)
  BY <1>1 DEF ToSet
<1>. QED BY <1>2, <1>3, <1>4

\* Cutting an increasing sequence before one of its elements leaves the smaller ones.
LEMMA CutSet ==
  ASSUME NEW s \in Seq(Nodes), NEW k \in 0..Len(s), k < Len(s),
         \A i, j \in DOMAIN s : i < j => s[i] < s[j]
  PROVE  ToSet(SubSeq(s, 1, k)) = {x \in ToSet(s) : x < s[k + 1]}
<1>1. /\ DOMAIN s = 1..Len(s) /\ Len(s) \in Nat
      /\ DOMAIN SubSeq(s, 1, k) = 1..k
      /\ \A i \in 1..k : SubSeq(s, 1, k)[i] = s[i]
      /\ \A i \in 1..Len(s) : s[i] \in Nodes /\ s[i] \in Nat
      /\ k + 1 \in DOMAIN s
  <2>1. \A i \in 1..Len(s) : s[i] \in Nodes
    OBVIOUS
  <2>2. \A m \in Nodes : m \in Nat
    BY DEF Nodes
  <2>3. DOMAIN SubSeq(s, 1, k) = 1..k /\ \A i \in 1..k : SubSeq(s, 1, k)[i] = s[i]
    BY PrefixLemma
  <2>. QED BY <2>1, <2>2, <2>3
<1>2. ASSUME NEW x \in ToSet(SubSeq(s, 1, k)) PROVE x \in ToSet(s) /\ x < s[k + 1]
  <2>1. PICK i \in 1..k : x = s[i]
    BY <1>1 DEF ToSet
  <2>2. i \in DOMAIN s /\ i < k + 1
    BY <1>1, <2>1
  <2>. QED BY <1>1, <2>1, <2>2 DEF ToSet
<1>3. ASSUME NEW x \in ToSet(s), x < s[k + 1] PROVE x \in ToSet(SubSeq(s, 1, k))
  <2>1. PICK i \in DOMAIN s : x = s[i]
    BY DEF ToSet
  <2>2. ~(k + 1 < i) /\ i # k + 1
    <3>1. s[i] \in Nat /\ s[k + 1] \in Nat
      BY <1>1
    <3>2. k + 1 < i => s[k + 1] < s[i]
      BY <1>1
    <3>. QED BY <1>3, <2>1, <3>1, <3>2
  <2>3. i \in 1..k
    BY <1>1, <2>2
  <2>. QED BY <1>1, <2>1, <2>3 DEF ToSet
<1>. QED BY <1>2, <1>3

\* Where a node is listed.
LEMMA ListedLemma ==
  ASSUME NEW p \in Frames, NEW e \in DOMAIN Elements[p], NEW i \in DOMAIN Elements[p][e]
  PROVE  /\ Elements[p][e][i] \in Nodes
         /\ Parent[Elements[p][e][i]] = p
         /\ e \in Nat \ {0} /\ i \in Nat \ {0}
         /\ i <= Len(Elements[p][e])
         /\ e <= Len(Elements[p])
<1>1. Elements[p] \in Seq(Seq(Nodes)) /\ Parent[Elements[p][e][i]] = p
  BY TreeAssumption
<1>2. e \in 1..Len(Elements[p]) /\ Elements[p][e] \in Seq(Nodes)
  BY <1>1
<1>3. i \in 1..Len(Elements[p][e]) /\ Elements[p][e][i] \in Nodes
  BY <1>2
<1>. QED BY <1>1, <1>2, <1>3

\* Fields that are ahead, are waiting, or are in the buffer are nodes, and what is ahead or
\* waiting in p is selected below p.
LEMMA PlacesTyped ==
  ASSUME TypeOK, Entered, ReadyVisited
  PROVE  /\ ToSet(data) \subseteq Nodes
         /\ ToSet(errs) \subseteq Nodes
         /\ \A p \in Frames : \A n \in Ahead(p) \cup ToSet(ready[p]) : n \in Nodes /\ Parent[n] = p
         /\ \A p \in Frames : ready[p] = <<>> <=> ToSet(ready[p]) = {}
         /\ \A p \in Frames : element[p] = 0 => ready[p] = <<>>
<1>1. data \in Seq(Nodes) /\ errs \in Seq(Nodes)
  BY DEF TypeOK
<1>2. ToSet(data) \subseteq Nodes /\ ToSet(errs) \subseteq Nodes
  BY <1>1 DEF ToSet
<1>3. \A p \in Frames : \A n \in Ahead(p) : n \in Nodes /\ Parent[n] = p
  BY DEF Ahead
<1>4. ASSUME NEW p \in Frames
      PROVE  /\ ready[p] = <<>> <=> ToSet(ready[p]) = {}
             /\ element[p] = 0 => ready[p] = <<>>
  <2>1. ready[p] \in Seq(Nodes) /\ element[p] \in Nat
    BY DEF TypeOK
  <2>2. ready[p] = <<>> <=> ToSet(ready[p]) = {}
    <3>1. ready[p] = <<>> => ToSet(ready[p]) = {}
      BY DEF ToSet
    <3>2. ready[p] # <<>> => 1 \in DOMAIN ready[p]
      BY <2>1
    <3>3. 1 \in DOMAIN ready[p] => ready[p][1] \in ToSet(ready[p])
      BY DEF ToSet
    <3>. QED BY <3>1, <3>2, <3>3
  <2>. QED BY <2>1, <2>2 DEF ReadyVisited
<1>5. ASSUME NEW p \in Frames, NEW n \in ToSet(ready[p])
      PROVE  n \in Nodes /\ Parent[n] = p
  <2>1. PICK i \in DOMAIN ready[p] : n = ready[p][i]
    BY DEF ToSet
  <2>2. ready[p] # <<>>
    BY <1>4
  <2>3. element[p] \in DOMAIN Elements[p]
    BY <2>2, SelectionLemma DEF ReadyVisited
  <2>4. PICK j \in DOMAIN Elements[p][element[p]] : n = Elements[p][element[p]][j]
    BY <2>1 DEF ReadyVisited
  <2>. QED BY <2>3, <2>4, ListedLemma
<1>. QED BY <1>2, <1>3, <1>4, <1>5

\* One step of the loop of resolveFields leaves one field fewer ahead.
LEMMA AdvanceAhead ==
  ASSUME TypeOK, Entered, main # "start", cursor[at] <= Len(SelectionSet),
         Advance, UNCHANGED element
  PROVE  /\ Current \in Ahead(at)
         /\ \A p \in Frames : Ahead(p)' = Ahead(p) \ {Current}
<1>1. /\ at \in Frames
      /\ element[at] \in DOMAIN Elements[at]
      /\ cursor[at] \in Nat \ {0}
      /\ cursor[at] \in DOMAIN SelectionSet
      /\ Current \in Nodes
      /\ Parent[Current] = at
      /\ Current = Elements[at][element[at]][cursor[at]]
  BY PlaceLemma DEF Current, SelectionSet
<1>2. cursor[at] \in DOMAIN Elements[at][element[at]]
  BY <1>1 DEF SelectionSet
<1>3. Current \in Ahead(at)
  BY <1>1, <1>2 DEF Ahead
<1>4. /\ cursor'[at] = cursor[at] + 1
      /\ \A p \in Frames : p # at => cursor'[p] = cursor[p]
  BY <1>1 DEF Advance, TypeOK
<1>5. ASSUME NEW p \in Frames, NEW e \in DOMAIN Elements[p], NEW i \in DOMAIN Elements[p][e]
      PROVE  e > element[p] \/ (e = element[p] /\ i >= cursor'[p]) <=>
               /\ e > element[p] \/ (e = element[p] /\ i >= cursor[p])
               /\ Elements[p][e][i] # Current
  <2>1. e \in Nat /\ i \in Nat /\ Parent[Elements[p][e][i]] = p
    BY ListedLemma
  <2>2. CASE p # at
    <3>1. Elements[p][e][i] # Current
      BY <1>1, <2>1, <2>2
    <3>. QED BY <1>4, <2>2, <3>1
  <2>3. CASE p = at
    <3>1. Elements[p][e][i] = Current <=> e = element[p] /\ i = cursor[p]
      BY <1>1, <1>2, <2>3, TreeAssumption
    <3>2. element[p] \in Nat /\ cursor[p] \in Nat
      BY DEF TypeOK
    <3>. QED BY <1>4, <2>1, <2>3, <3>1, <3>2
  <2>. QED BY <2>2, <2>3
<1>6. ASSUME NEW p \in Frames PROVE Ahead(p)' = Ahead(p) \ {Current}
  BY <1>5 DEF Ahead
<1>. QED BY <1>3, <1>6

\* Going on to the next selection set of q leaves the same fields ahead, when none of the
\* selection set before is.
LEMMA GrowthAhead ==
  ASSUME TypeOK, NEW q \in Frames,
         element' = [element EXCEPT ![q] = element[q] + 1],
         cursor'[q] = 1, \A p \in Frames \ {q} : cursor'[p] = cursor[p],
         element[q] = 0 \/ cursor[q] > Len(Elements[q][element[q]])
  PROVE  \A p \in Frames : Ahead(p)' = Ahead(p)
<1>. TAKE p \in Frames
<1>1. ASSUME NEW e \in DOMAIN Elements[p], NEW i \in DOMAIN Elements[p][e]
      PROVE  e > element'[p] \/ (e = element'[p] /\ i >= cursor'[p]) <=>
               e > element[p] \/ (e = element[p] /\ i >= cursor[p])
  <2>1. /\ e \in Nat \ {0} /\ i \in Nat \ {0} /\ i <= Len(Elements[p][e])
        /\ element[p] \in Nat /\ cursor[p] \in Nat
        /\ Len(Elements[p][e]) \in Nat
    <3>1. Elements[p] \in Seq(Seq(Nodes))
      BY TreeAssumption
    <3>2. Len(Elements[p][e]) \in Nat
      BY <3>1
    <3>. QED BY <3>2, ListedLemma DEF TypeOK
  <2>2. CASE p # q
    BY <2>2 DEF TypeOK
  <2>3. CASE p = q
    <3>1. element'[p] = element[p] + 1
      BY <2>3 DEF TypeOK
    <3>2. ~(e = element[p] /\ i >= cursor[p])
      BY <2>1, <2>3
    <3>. QED BY <2>1, <2>3, <3>1, <3>2
  <2>. QED BY <2>2, <2>3
<1>. QED BY <1>1 DEF Ahead

-----------------------------------------------------------------------------
(* The order of the response.                                              *)

LEMMA OrderInit == Init => OrderInv
<1>. SUFFICES ASSUME Init PROVE OrderInv
  OBVIOUS
<1>1. Live = {} /\ DOMAIN data = {} /\ ToSet(data) = {}
  BY DEF Init, Live, ToSet
<1>2. \A p \in Frames : element[p] = 0 /\ cursor[p] = 1 /\ DOMAIN ready[p] = {}
  BY DEF Init
<1>. QED BY <1>1, <1>2 DEF OrderInv, DataInDocumentOrder

\* The key of the field that main is in stands in the buffer, at its mark.
LEMMA AtWritten ==
  ASSUME TypeOK, Trail
  PROVE  /\ at = Root \/ at \in ToSet(data)
         /\ at # Root => /\ mark[at] \in 0..Len(data)
                         /\ mark[at] < Len(data)
                         /\ data[mark[at] + 1] = at
<1>1. CASE at = Root
  BY <1>1
<1>2. CASE at # Root
  <2>1. PICK S \in SUBSET Nodes : IsTrail(S)
    BY DEF Trail
  <2>2. at \in S /\ mark[at] < Len(data) /\ data[mark[at] + 1] = at
    BY <1>2, <2>1 DEF IsTrail
  <2>3. mark[at] \in Nat /\ data \in Seq(Nodes)
    BY <2>2 DEF TypeOK
  <2>4. mark[at] + 1 \in DOMAIN data
    BY <2>2, <2>3
  <2>5. at \in ToSet(data)
    BY <2>2, <2>4 DEF ToSet
  <2>. QED BY <1>2, <2>2, <2>3, <2>5
<1>. QED BY <1>1, <1>2

\* Nodes are numbers above the root's.
LEMMA NodeNumbers ==
  /\ Root \in Int
  /\ \A p \in Frames : p \in Int /\ Root <= p
  /\ \A n \in Nodes : n \in Int /\ n \in Frames /\ Root < n
                      /\ Parent[n] \in Frames /\ Parent[n] \in Int /\ Parent[n] < n
BY TreeAssumption DEF Root, Nodes, Frames

\* Steps that do not concern the order of the response.
LEMMA OrderStands ==
  ASSUME OrderInv, UNCHANGED <<at, element, cursor, ready, data>>
  PROVE  OrderInv'
BY DEF OrderInv, DataInDocumentOrder, Live, Ahead

\* One step of the loop of resolveFields.
LEMMA AdvanceKeepsOrder ==
  ASSUME WalkInv, OrderInv, main # "start", cursor[at] <= Len(SelectionSet), Advance,
         UNCHANGED <<at, element, data>>,
         ready' = ready \/ ready' = [ready EXCEPT ![at] = Append(@, Current)]
  PROVE  OrderInv'
<1>. USE DEF WalkInv
<1>1. /\ Current \in Ahead(at)
      /\ \A p \in Frames : Ahead(p)' = Ahead(p) \ {Current}
  BY AdvanceAhead
<1>2. /\ at \in Frames
      /\ element[at] \in DOMAIN Elements[at] /\ element[at] > 0
      /\ cursor[at] \in Nat
      /\ cursor[at] \in DOMAIN Elements[at][element[at]]
      /\ Current = Elements[at][element[at]][cursor[at]]
  <2>1. element[at] \in DOMAIN Elements[at] /\ at \in Frames
    BY PlaceLemma
  <2>2. element[at] > 0
    BY <2>1, TreeAssumption
  <2>. QED BY <2>1, <2>2, PlaceLemma DEF Current, SelectionSet
<1>3. /\ ready \in [Frames -> Seq(Nodes)]
      /\ \A p \in Frames : p # at => ready'[p] = ready[p]
      /\ ready'[at] = ready[at] \/ ready'[at] = Append(ready[at], Current)
  BY <1>2 DEF TypeOK
<1>4. ASSUME NEW p \in Frames
      PROVE  ToSet(ready'[p]) \subseteq ToSet(ready[p]) \cup Ahead(p)
  <2>1. CASE ready'[p] = ready[p]
    BY <2>1
  <2>2. CASE p = at /\ ready'[p] = Append(ready[p], Current)
    <3>1. ready[p] \in Seq(Nodes)
      BY <1>3
    <3>2. ToSet(ready'[p]) = ToSet(ready[p]) \cup {Current}
      BY <2>2, <3>1, AppendSet
    <3>. QED BY <1>1, <2>2, <3>2
  <2>. QED BY <1>3, <2>1, <2>2
<1>5. \A p \in Frames : element'[p] = 0 => cursor'[p] = 1
  BY <1>2 DEF OrderInv, Advance, TypeOK
<1>6. ASSUME NEW p \in Frames, NEW i \in DOMAIN ready'[p], NEW j \in DOMAIN ready'[p], i < j
      PROVE  ready'[p][i] < ready'[p][j]
  <2>1. CASE ready'[p] = ready[p]
    BY <1>6, <2>1 DEF OrderInv
  <2>2. CASE p = at /\ ready'[p] = Append(ready[p], Current)
    <3>1. /\ DOMAIN ready'[p] = 1..(Len(ready[p]) + 1)
          /\ DOMAIN ready[p] = 1..Len(ready[p])
          /\ \A k \in DOMAIN ready[p] : ready'[p][k] = ready[p][k]
          /\ ready'[p][Len(ready[p]) + 1] = Current
          /\ Len(ready[p]) \in Nat
      BY <1>3, <2>2
    <3>2. i \in DOMAIN ready[p]
      BY <1>6, <3>1
    <3>3. CASE j \in DOMAIN ready[p]
      BY <1>6, <3>1, <3>2, <3>3 DEF OrderInv
    <3>4. CASE j = Len(ready[p]) + 1
      <4>1. PICK k \in DOMAIN Elements[at][element[at]] :
               k < cursor[at] /\ ready[at][i] = Elements[at][element[at]][k]
        BY <2>2, <3>2 DEF ReadyVisited
      <4>2. ready[at][i] < Current
        BY <1>2, <4>1, NumberingAssumption
      <4>. QED BY <2>2, <3>1, <3>2, <3>4, <4>2
    <3>. QED BY <3>1, <3>3, <3>4
  <2>. QED BY <1>3, <2>1, <2>2
<1>7. Live' = Live
  BY DEF Live
<1>8. \A p \in Live' : \A n \in Ahead(p)' \cup ToSet(ready'[p]) :
        p <= at' /\ \A m \in ToSet(data') : m < n
  <2>. SUFFICES ASSUME NEW p \in Live, NEW n \in Ahead(p)' \cup ToSet(ready'[p])
                PROVE  p <= at /\ \A m \in ToSet(data) : m < n
    BY <1>7
  <2>1. p \in Frames
    BY DEF Live
  <2>2. n \in Ahead(p) \cup ToSet(ready[p])
    BY <1>1, <1>4, <2>1
  <2>. QED BY <2>2 DEF OrderInv
<1>9. DataInDocumentOrder' /\ \A n \in ToSet(data') : at' < n => at' <= Parent[n]
  BY DEF OrderInv, DataInDocumentOrder
<1>. QED BY <1>5, <1>6, <1>8, <1>9 DEF OrderInv

\* What is in a linked map is not ahead.
LEMMA HeadNotAhead ==
  ASSUME TypeOK, Entered, ReadyVisited, ready[at] # <<>>, NEW p \in Frames
  PROVE  Head(ready[at]) \notin Ahead(p)
<1>. DEFINE n == Head(ready[at])
<1>1. at \in Frames
  BY DEF TypeOK
<1>2. n = ready[at][1] /\ 1 \in DOMAIN ready[at] /\ Parent[n] = at /\ element[at] > 0
  BY <1>1, ReadyLemma DEF ReadyVisited
<1>3. PICK j \in DOMAIN Elements[at][element[at]] :
         j < cursor[at] /\ n = Elements[at][element[at]][j]
  BY <1>1, <1>2 DEF ReadyVisited
<1>4. element[at] \in DOMAIN Elements[at]
  BY <1>1, <1>2, SelectionLemma
<1>5. ASSUME NEW e \in DOMAIN Elements[at], NEW i \in DOMAIN Elements[at][e],
             n = Elements[at][e][i]
      PROVE  ~(e > element[at] \/ (e = element[at] /\ i >= cursor[at]))
  <2>1. Elements[at][e][i] = Elements[at][element[at]][j]
    BY <1>3, <1>5
  <2>2. e = element[at] /\ i = j
    BY <1>1, <1>3, <1>4, <2>1, TreeAssumption
  <2>3. e \in Nat /\ j \in Nat /\ cursor[at] \in Nat
    BY <1>1, <1>3, <1>4, ListedLemma DEF TypeOK
  <2>. QED BY <1>3, <2>2, <2>3
<1>6. n \notin Ahead(at)
  BY <1>5 DEF Ahead
<1>7. p # at => n \notin Ahead(p)
  BY <1>2 DEF Ahead
<1>. QED BY <1>6, <1>7

\* The field to be executed next comes after everything in the buffer and before
\* everything else that the response has still to get.
LEMMA HeadInOrder ==
  ASSUME TypeOK, Entered, ReadyVisited, Trail, OrderInv, ready[at] # <<>>,
         NEW n, n = Head(ready[at])
  PROVE  /\ at \in Live
         /\ n \in Nodes /\ Parent[n] = at /\ element[n] = 0
         /\ n \in ToSet(ready[at])
         /\ \A m \in ToSet(data) : m < n
         /\ \A p \in Live : \A x \in (Ahead(p) \cup ToSet(ready[p])) \ {n} : n < x
<1>1. /\ at \in Frames
      /\ n \in Nodes /\ Parent[n] = at /\ element[n] = 0
      /\ n = ready[at][1] /\ 1 \in DOMAIN ready[at]
  BY ReadyLemma DEF TypeOK
<1>2. n \in ToSet(ready[at])
  BY <1>1 DEF ToSet
<1>3. element[at] > 0
  BY <1>1 DEF ReadyVisited
<1>4. at \in Live
  BY <1>1, <1>3, AtWritten DEF Live
<1>5. \A m \in ToSet(data) : m < n
  BY <1>2, <1>4 DEF OrderInv
<1>6. ASSUME NEW p \in Live, NEW x \in (Ahead(p) \cup ToSet(ready[p])) \ {n}
      PROVE  n < x
  <2>1. p \in Frames /\ x \in Nodes /\ Parent[x] = p
    BY PlacesTyped DEF Live
  <2>2. CASE p = at /\ x \in ToSet(ready[p])
    <3>1. PICK i \in DOMAIN ready[at] : x = ready[at][i]
      BY <2>2 DEF ToSet
    <3>2. ready[at] \in Seq(Nodes)
      BY <1>1 DEF TypeOK
    <3>3. 1 < i
      BY <1>1, <1>6, <3>1, <3>2
    <3>. QED BY <1>1, <3>1, <3>3 DEF OrderInv
  <2>3. CASE p = at /\ x \in Ahead(p)
    <3>0. PICK e \in DOMAIN Elements[at] : \E i \in DOMAIN Elements[at][e] :
             /\ e > element[at] \/ (e = element[at] /\ i >= cursor[at])
             /\ x = Elements[at][e][i]
      BY <2>3 DEF Ahead
    <3>1. PICK i \in DOMAIN Elements[at][e] :
             /\ e > element[at] \/ (e = element[at] /\ i >= cursor[at])
             /\ x = Elements[at][e][i]
      BY <3>0
    <3>2. PICK j \in DOMAIN Elements[at][element[at]] :
             j < cursor[at] /\ n = Elements[at][element[at]][j]
      BY <1>1 DEF ReadyVisited
    <3>3. element[at] \in DOMAIN Elements[at]
      BY <1>1, <1>3, SelectionLemma
    <3>4. e \in Nat /\ i \in Nat /\ j \in Nat /\ element[at] \in Nat /\ cursor[at] \in Nat
      BY <1>1, <3>3, ListedLemma DEF TypeOK
    <3>5. element[at] < e \/ (element[at] = e /\ j < i)
      BY <3>1, <3>2, <3>4
    <3>. QED BY <1>1, <3>1, <3>2, <3>3, <3>5, NumberingAssumption
  <2>4. CASE p # at
    <3>1. p <= at
      BY DEF OrderInv
    <3>2. p < at /\ at # Root
      BY <1>1, <2>1, <2>4, <3>1, NodeNumbers
    <3>3. at < x
      BY <3>2, AtWritten DEF OrderInv
    <3>4. at \in Nodes
      BY <1>1, <3>2 DEF Frames, Nodes, Root
    <3>5. ~(x < n)
      <4>. SUFFICES ASSUME x < n PROVE FALSE
        OBVIOUS
      <4>1. Parent[n] < x /\ x < n
        BY <1>1, <3>3
      <4>2. Parent[n] <= Parent[x]
        BY <1>1, <2>1, <4>1, NumberingAssumption
      <4>. QED BY <1>1, <2>1, <3>2, <4>2, NodeNumbers
    <3>. QED BY <1>1, <1>6, <2>1, <3>5, NodeNumbers
  <2>. QED BY <2>2, <2>3, <2>4
<1>. QED BY <1>1, <1>2, <1>4, <1>5, <1>6

\* A key that comes after all others goes to the end of the buffer.
LEMMA AppendKeepsOrder ==
  ASSUME TypeOK, DataInDocumentOrder, NEW n, \A m \in ToSet(data) : m < n,
         data' = Append(data, n)
  PROVE  DataInDocumentOrder' /\ ToSet(data') = ToSet(data) \cup {n}
<1>1. data \in Seq(Nodes)
  BY DEF TypeOK
<1>2. /\ DOMAIN data = 1..Len(data) /\ Len(data) \in Nat
      /\ DOMAIN data' = 1..(Len(data) + 1)
      /\ \A i \in DOMAIN data : data'[i] = data[i] /\ data[i] \in ToSet(data)
      /\ data'[Len(data) + 1] = n
  BY <1>1 DEF ToSet
<1>3. ASSUME NEW i \in DOMAIN data', NEW j \in DOMAIN data', i < j
      PROVE  data'[i] < data'[j]
  <2>1. i \in DOMAIN data
    BY <1>2, <1>3
  <2>2. CASE j \in DOMAIN data
    BY <1>2, <1>3, <2>1, <2>2 DEF DataInDocumentOrder
  <2>3. CASE j = Len(data) + 1
    BY <1>2, <2>1, <2>3
  <2>. QED BY <1>2, <2>2, <2>3
<1>. QED BY <1>1, <1>3, AppendSet DEF DataInDocumentOrder

\* What taking the first field does to the linked maps.
LEMMA PopSets ==
  ASSUME TypeOK, ReadyVisited, ready[at] # <<>>,
         ready' = [ready EXCEPT ![at] = Tail(@)]
  PROVE  /\ \A p \in Frames : p # at => ready'[p] = ready[p]
         /\ ToSet(ready'[at]) = ToSet(ready[at]) \ {Head(ready[at])}
         /\ \A p \in Frames : \A i, j \in DOMAIN ready'[p] : i < j =>
              \E k, l \in DOMAIN ready[p] :
                k < l /\ ready'[p][i] = ready[p][k] /\ ready'[p][j] = ready[p][l]
<1>1. at \in Frames /\ ready \in [Frames -> Seq(Nodes)]
  BY DEF TypeOK
<1>2. \A i, j \in DOMAIN ready[at] : ready[at][i] = ready[at][j] => i = j
  BY <1>1 DEF ReadyVisited
<1>3. /\ ready'[at] = Tail(ready[at])
      /\ \A p \in Frames : p # at => ready'[p] = ready[p]
  BY <1>1
<1>4. ToSet(ready'[at]) = ToSet(ready[at]) \ {Head(ready[at])}
  BY <1>1, <1>2, <1>3, TailSet
<1>5. ASSUME NEW p \in Frames, NEW i \in DOMAIN ready'[p], NEW j \in DOMAIN ready'[p], i < j
      PROVE  \E k, l \in DOMAIN ready[p] :
               k < l /\ ready'[p][i] = ready[p][k] /\ ready'[p][j] = ready[p][l]
  <2>1. CASE p # at
    BY <1>3, <1>5, <2>1
  <2>2. CASE p = at
    <3>1. /\ i \in Nat /\ j \in Nat
          /\ i + 1 \in DOMAIN ready[p] /\ j + 1 \in DOMAIN ready[p]
          /\ ready'[p][i] = ready[p][i + 1] /\ ready'[p][j] = ready[p][j + 1]
      BY <1>1, <1>3, <2>2
    <3>. QED BY <1>5, <3>1
  <2>. QED BY <2>1, <2>2
<1>. QED BY <1>3, <1>4, <1>5

\* recursiveExecute: a field is executed and nothing is executed below it.
LEMMA ExecutedKeepsOrder ==
  ASSUME WalkInv, OrderInv, WriteField \/ FailField
  PROVE  OrderInv'
<1>. USE DEF WalkInv
<1>. DEFINE n == Head(ready[at])
<1>1. /\ ready[at] # <<>>
      /\ ready' = [ready EXCEPT ![at] = Tail(@)]
      /\ UNCHANGED <<at, element, cursor>>
      /\ data' = Append(data, n) \/ data' = SubSeq(data, 1, Len(data))
  BY DEF WriteField, FailField, Executing, CutOut
<1>2. /\ at \in Live
      /\ n \in Nodes /\ Parent[n] = at /\ element[n] = 0
      /\ \A m \in ToSet(data) : m < n
      /\ \A p \in Live : \A x \in (Ahead(p) \cup ToSet(ready[p])) \ {n} : n < x
  BY <1>1, HeadInOrder
<1>3. /\ \A p \in Frames : p # at => ready'[p] = ready[p]
      /\ ToSet(ready'[at]) = ToSet(ready[at]) \ {n}
      /\ \A p \in Frames : \A i, j \in DOMAIN ready'[p] : i < j =>
           \E k, l \in DOMAIN ready[p] :
             k < l /\ ready'[p][i] = ready[p][k] /\ ready'[p][j] = ready[p][l]
  BY <1>1, PopSets
<1>4. /\ DataInDocumentOrder'
      /\ ToSet(data') = ToSet(data) \/ ToSet(data') = ToSet(data) \cup {n}
  <2>1. CASE data' = Append(data, n)
    BY <1>2, <2>1, AppendKeepsOrder DEF OrderInv
  <2>2. CASE data' = SubSeq(data, 1, Len(data))
    <3>1. data \in Seq(Nodes)
      BY DEF TypeOK
    <3>2. data' = data
      BY <2>2, <3>1
    <3>. QED BY <3>2 DEF OrderInv, DataInDocumentOrder
  <2>. QED BY <1>1, <2>1, <2>2
<1>5. \A p \in Frames : Ahead(p)' = Ahead(p)
  BY <1>1 DEF Ahead
<1>6. Live' = Live
  BY <1>1, <1>2, <1>4 DEF Live
<1>7. ASSUME NEW p \in Live, NEW x \in Ahead(p) \cup ToSet(ready'[p])
      PROVE  p <= at /\ \A m \in ToSet(data') : m < x
  <2>1. p \in Frames
    BY DEF Live
  <2>2. x \in (Ahead(p) \cup ToSet(ready[p])) \ {n}
    <3>1. ToSet(ready'[p]) \subseteq ToSet(ready[p])
      BY <1>3, <2>1
    <3>2. n \notin Ahead(p)
      BY <1>1, <2>1, HeadNotAhead
    <3>3. n \notin ToSet(ready'[p])
      <4>1. p # at => n \notin ToSet(ready[p])
        BY <1>2, <2>1, PlacesTyped
      <4>. QED BY <1>3, <2>1, <4>1
    <3>. QED BY <1>7, <3>1, <3>2, <3>3
  <2>3. p <= at /\ \A m \in ToSet(data) : m < x
    BY <2>2 DEF OrderInv
  <2>4. n < x
    BY <1>2, <2>2
  <2>. QED BY <1>4, <2>3, <2>4
<1>8. ASSUME NEW p \in Frames, NEW i \in DOMAIN ready'[p], NEW j \in DOMAIN ready'[p], i < j
      PROVE  ready'[p][i] < ready'[p][j]
  BY <1>3, <1>8 DEF OrderInv
<1>9. ASSUME NEW m \in ToSet(data'), at' < m PROVE at' <= Parent[m]
  <2>1. CASE m \in ToSet(data)
    BY <1>1, <1>9, <2>1 DEF OrderInv
  <2>2. CASE m = n
    BY <1>1, <1>2, <2>2, NodeNumbers DEF Live
  <2>. QED BY <1>4, <2>1, <2>2
<1>10. \A p \in Frames : element'[p] = 0 => cursor'[p] = 1
  BY <1>1 DEF OrderInv
<1>11. \A p \in Live' : \A x \in Ahead(p)' \cup ToSet(ready'[p]) :
         p <= at' /\ \A m \in ToSet(data') : m < x
  <2>. SUFFICES ASSUME NEW p \in Live, NEW x \in Ahead(p)' \cup ToSet(ready'[p])
                PROVE  p <= at /\ \A m \in ToSet(data') : m < x
    BY <1>1, <1>6
  <2>1. p \in Frames
    BY DEF Live
  <2>. QED BY <1>5, <1>7, <2>1
<1>. QED BY <1>4, <1>8, <1>9, <1>10, <1>11 DEF OrderInv

\* executeSelected: a field is executed and main enters its selection set.
LEMMA EnterFieldKeepsOrder ==
  ASSUME WalkInv, OrderInv, EnterField
  PROVE  /\ OrderInv'
         /\ \A p \in Frames : Ahead(p)' = Ahead(p)
         /\ Live' = Live \cup {Head(ready[at])}
<1>. USE DEF WalkInv
<1>. DEFINE n == Head(ready[at])
<1>1. /\ ready[at] # <<>>
      /\ ready' = [ready EXCEPT ![at] = Tail(@)]
      /\ element' = [element EXCEPT ![n] = 1]
      /\ data' = Append(data, n)
      /\ at' = n
      /\ UNCHANGED cursor
  BY DEF EnterField, Executing
<1>2. /\ at \in Live
      /\ n \in Nodes /\ Parent[n] = at /\ element[n] = 0
      /\ \A m \in ToSet(data) : m < n
      /\ \A p \in Live : \A x \in (Ahead(p) \cup ToSet(ready[p])) \ {n} : n < x
  BY <1>1, HeadInOrder
<1>3. /\ \A p \in Frames : p # at => ready'[p] = ready[p]
      /\ ToSet(ready'[at]) = ToSet(ready[at]) \ {n}
      /\ \A p \in Frames : \A i, j \in DOMAIN ready'[p] : i < j =>
           \E k, l \in DOMAIN ready[p] :
             k < l /\ ready'[p][i] = ready[p][k] /\ ready'[p][j] = ready[p][l]
  BY <1>1, PopSets
<1>4. DataInDocumentOrder' /\ ToSet(data') = ToSet(data) \cup {n}
  BY <1>1, <1>2, AppendKeepsOrder DEF OrderInv
<1>5. /\ n \in Frames /\ at \in Frames /\ at < n
      /\ n \in Int /\ at \in Int
      /\ \A p \in Frames : p \in Int
      /\ \A m \in Nodes : m \in Int
  BY <1>2, NodeNumbers
<1>6. /\ \A p \in Frames \ {n} : element'[p] = element[p]
      /\ element'[n] = 1
      /\ element' = [element EXCEPT ![n] = element[n] + 1]
  BY <1>1, <1>2, <1>5 DEF TypeOK
<1>7. \A p \in Frames : Ahead(p)' = Ahead(p)
  <2>1. cursor'[n] = 1 /\ \A p \in Frames \ {n} : cursor'[p] = cursor[p]
    BY <1>1, <1>2, <1>5 DEF OrderInv
  <2>. HIDE DEF n
  <2>. QED BY <1>2, <1>5, <1>6, <2>1, GrowthAhead
<1>8. Live' = Live \cup {n}
  BY <1>2, <1>4, <1>5, <1>6 DEF Live
<1>9. ASSUME NEW p \in Live, NEW x \in Ahead(p) \cup ToSet(ready'[p])
      PROVE  p <= n /\ \A m \in ToSet(data') : m < x
  <2>1. p \in Frames
    BY DEF Live
  <2>2. x \in (Ahead(p) \cup ToSet(ready[p])) \ {n}
    <3>1. ToSet(ready'[p]) \subseteq ToSet(ready[p])
      BY <1>3, <2>1
    <3>2. n \notin Ahead(p)
      BY <1>1, <2>1, HeadNotAhead
    <3>3. n \notin ToSet(ready'[p])
      <4>1. p # at => n \notin ToSet(ready[p])
        BY <1>2, <2>1, PlacesTyped
      <4>. QED BY <1>3, <2>1, <4>1
    <3>. QED BY <1>9, <3>1, <3>2, <3>3
  <2>3. p <= at /\ \A m \in ToSet(data) : m < x
    BY <2>2 DEF OrderInv
  <2>4. n < x
    BY <1>2, <2>2
  <2>. QED BY <1>4, <1>5, <2>1, <2>3, <2>4
<1>10. ASSUME NEW x \in Ahead(n) \cup ToSet(ready'[n])
       PROVE  \A m \in ToSet(data') : m < x
  <2>1. ready'[n] = <<>> /\ x \in Ahead(n)
    <3>1. ready[n] = <<>> /\ ToSet(ready[n]) = {}
      BY <1>2, <1>5, PlacesTyped
    <3>. QED BY <1>3, <1>5, <1>10, <3>1
  <2>2. x \in Nodes /\ Parent[x] = n /\ n < x
    BY <1>5, <2>1, PlacesTyped, NodeNumbers
  <2>3. ToSet(data) \subseteq Nodes
    BY PlacesTyped
  <2>. QED BY <1>2, <1>4, <1>5, <2>2, <2>3
<1>11. ASSUME NEW p \in Frames, NEW i \in DOMAIN ready'[p], NEW j \in DOMAIN ready'[p], i < j
       PROVE  ready'[p][i] < ready'[p][j]
  BY <1>3, <1>11 DEF OrderInv
<1>12. \A m \in ToSet(data') : ~(at' < m)
  <2>1. ToSet(data) \subseteq Nodes
    BY PlacesTyped
  <2>. QED BY <1>1, <1>2, <1>4, <1>5, <2>1
<1>13. \A p \in Frames : element'[p] = 0 => cursor'[p] = 1
  BY <1>1, <1>6 DEF OrderInv
<1>14. \A p \in Live' : \A x \in Ahead(p)' \cup ToSet(ready'[p]) :
         p <= at' /\ \A m \in ToSet(data') : m < x
  <2>. SUFFICES ASSUME NEW p \in Live \cup {n}, NEW x \in Ahead(p)' \cup ToSet(ready'[p])
                PROVE  p <= n /\ \A m \in ToSet(data') : m < x
    BY <1>1, <1>8
  <2>1. p \in Frames
    BY <1>5 DEF Live
  <2>2. CASE p = n
    BY <1>5, <1>7, <1>10, <2>2
  <2>3. CASE p \in Live
    BY <1>7, <1>9, <2>1, <2>3
  <2>. QED BY <2>2, <2>3
<1>15. OrderInv'
  BY <1>4, <1>11, <1>12, <1>13, <1>14 DEF OrderInv
<1>. QED BY <1>7, <1>8, <1>15

\* Execute: main enters the selection set of the operation.
LEMMA StartKeepsOrder ==
  ASSUME WalkInv, OrderInv, MainInv, Start
  PROVE  OrderInv'
<1>. USE DEF WalkInv
<1>1. /\ main = "start" /\ data = <<>>
      /\ element' = [element EXCEPT ![Root] = 1]
      /\ UNCHANGED <<at, cursor, ready, data>>
  BY DEF Start, MainInv, output
<1>2. at = Root /\ element[Root] = 0 /\ Root \in Frames /\ Root <= Root
  BY <1>1, NodeNumbers DEF Entered, TypeOK
<1>3. ToSet(data) = {}
  BY <1>1 DEF ToSet
<1>4. \A p \in Frames : element'[p] = 0 => cursor'[p] = 1
  <2>. TAKE p \in Frames
  <2>1. CASE p = Root
    BY <1>1, <1>2, <2>1 DEF TypeOK
  <2>2. CASE p # Root
    BY <1>1, <2>2 DEF TypeOK, OrderInv
  <2>. QED BY <2>1, <2>2
<1>5. Live' = {Root}
  BY <1>1, <1>2, <1>3 DEF Live, TypeOK
<1>6. /\ DataInDocumentOrder'
      /\ \A p \in Frames : \A i, j \in DOMAIN ready'[p] : i < j => ready'[p][i] < ready'[p][j]
  BY <1>1 DEF OrderInv, DataInDocumentOrder
<1>. QED BY <1>1, <1>2, <1>3, <1>4, <1>5, <1>6 DEF OrderInv

\* writeList: main goes on to the selection set of the next element.
LEMMA NextElementKeepsOrder ==
  ASSUME WalkInv, OrderInv, NextElement
  PROVE  OrderInv' /\ \A p \in Frames : Ahead(p)' = Ahead(p)
<1>. USE DEF WalkInv
<1>1. /\ cursor[at] > Len(SelectionSet)
      /\ element' = [element EXCEPT ![at] = element[at] + 1]
      /\ cursor' = [cursor EXCEPT ![at] = 1]
      /\ main = "walk"
      /\ UNCHANGED <<at, ready, data>>
  BY DEF NextElement, SelectionSetDone, Resolved, output
<1>2. at \in Frames /\ element[at] \in Nat \ {0}
  BY <1>1 DEF TypeOK, Entered
<1>3. \A p \in Frames : Ahead(p)' = Ahead(p)
  <2>1. cursor'[at] = 1 /\ \A p \in Frames \ {at} : cursor'[p] = cursor[p]
    BY <1>1, <1>2 DEF TypeOK
  <2>2. cursor[at] > Len(Elements[at][element[at]])
    BY <1>1 DEF SelectionSet
  <2>. QED BY <1>1, <1>2, <2>1, <2>2, GrowthAhead
<1>4. \A p \in Frames : element'[p] > 0 <=> element[p] > 0
  BY <1>1, <1>2 DEF TypeOK
<1>5. Live' = Live
  BY <1>1, <1>4 DEF Live
<1>6. \A p \in Frames : element'[p] = 0 => cursor'[p] = 1
  BY <1>1, <1>2 DEF TypeOK, OrderInv
<1>7. /\ DataInDocumentOrder'
      /\ \A p \in Frames : \A i, j \in DOMAIN ready'[p] : i < j => ready'[p][i] < ready'[p][j]
      /\ \A m \in ToSet(data') : at' < m => at' <= Parent[m]
  BY <1>1 DEF OrderInv, DataInDocumentOrder
<1>8. \A p \in Live' : \A x \in Ahead(p)' \cup ToSet(ready'[p]) :
        p <= at' /\ \A m \in ToSet(data') : m < x
  <2>1. Live \subseteq Frames
    BY DEF Live
  <2>. QED BY <1>1, <1>3, <1>5, <2>1 DEF OrderInv
<1>9. OrderInv'
  BY <1>6, <1>7, <1>8 DEF OrderInv
<1>. QED BY <1>3, <1>9

\* When main goes back to the selection set above at, what is still to be executed of the
\* response belongs to it or to one further up, and what stands after it is nested below it.
LEMMA ParentInOrder ==
  ASSUME TypeOK, Entered, ReadyVisited, Trail, OrderInv, at # Root
  PROVE  /\ \A p \in Live : \A x \in Ahead(p) \cup ToSet(ready[p]) : p # at => p <= Parent[at]
         /\ \A m \in ToSet(data) : Parent[at] < m => Parent[at] <= Parent[m]
<1>1. at \in Nodes /\ at \in ToSet(data) /\ Parent[at] < at
  <2>1. at \in Nodes
    BY DEF TypeOK, Frames, Nodes, Root
  <2>. QED BY <2>1, AtWritten, NodeNumbers
<1>2. ASSUME NEW p \in Live, NEW x \in Ahead(p) \cup ToSet(ready[p]), p # at
      PROVE  p <= Parent[at]
  <2>1. p \in Frames /\ x \in Nodes /\ Parent[x] = p
    BY PlacesTyped DEF Live
  <2>2. p <= at /\ at < x
    BY <1>1 DEF OrderInv
  <2>3. Parent[x] < at
    BY <1>1, <1>2, <2>1, <2>2, NodeNumbers
  <2>. QED BY <1>1, <2>1, <2>2, <2>3, NumberingAssumption
<1>3. ASSUME NEW m \in ToSet(data), Parent[at] < m PROVE Parent[at] <= Parent[m]
  <2>1. m \in Nodes
    BY PlacesTyped
  <2>2. CASE at < m
    <3>1. at <= Parent[m]
      BY <2>2 DEF OrderInv
    <3>. QED BY <1>1, <2>1, <3>1, NodeNumbers
  <2>3. CASE m = at
    BY <1>1, <2>3, NodeNumbers
  <2>4. CASE m < at
    BY <1>1, <1>3, <2>1, <2>4, NumberingAssumption
  <2>. QED BY <1>1, <2>1, <2>2, <2>3, <2>4, NodeNumbers
<1>. QED BY <1>2, <1>3

\* Nothing is ahead in a field when the loop of resolveFields is through its last selection
\* set.
LEMMA NothingAhead ==
  ASSUME TypeOK, Entered, main # "start",
         element[at] = Len(Elements[at]), cursor[at] > Len(SelectionSet)
  PROVE  Ahead(at) = {}
<1>1. at \in Frames
  BY DEF TypeOK
<1>2. ASSUME NEW e \in DOMAIN Elements[at], NEW i \in DOMAIN Elements[at][e]
      PROVE  ~(e > element[at] \/ (e = element[at] /\ i >= cursor[at]))
  <2>1. /\ e \in Nat /\ i \in Nat /\ e <= Len(Elements[at]) /\ i <= Len(Elements[at][e])
        /\ element[at] \in Nat /\ cursor[at] \in Nat
    BY <1>1, ListedLemma DEF TypeOK
  <2>2. e = element[at] => i <= Len(SelectionSet) /\ Len(SelectionSet) \in Nat
    BY <2>1, PlaceLemma DEF SelectionSet
  <2>. QED BY <2>1, <2>2
<1>. QED BY <1>2 DEF Ahead

\* executeSelected returns: main goes on in the selection set above.
LEMMA LeaveFieldKeepsOrder ==
  ASSUME WalkInv, OrderInv, LeaveField
  PROVE  OrderInv'
<1>. USE DEF WalkInv
<1>1. /\ main = "walk" /\ at # Root /\ at' = Parent[at]
      /\ ready[at] = <<>>
      /\ cursor[at] > Len(SelectionSet)
      /\ element[at] = Len(Elements[at])
      /\ UNCHANGED <<element, cursor, ready, data>>
  BY DEF LeaveField, SelectionSetDone, Resolved, output
<1>2. at \in Frames
  BY DEF TypeOK
<1>3. Ahead(at) = {} /\ ToSet(ready[at]) = {}
  BY <1>1, <1>2, NothingAhead, PlacesTyped
<1>4. /\ \A p \in Live : \A x \in Ahead(p) \cup ToSet(ready[p]) : p # at => p <= Parent[at]
      /\ \A m \in ToSet(data) : Parent[at] < m => Parent[at] <= Parent[m]
  BY <1>1, ParentInOrder
<1>5. Live' = Live /\ \A p \in Frames : Ahead(p)' = Ahead(p)
  BY <1>1 DEF Live, Ahead
<1>6. \A p \in Live : \A x \in Ahead(p) \cup ToSet(ready[p]) :
        p <= at' /\ \A m \in ToSet(data) : m < x
  BY <1>1, <1>3, <1>4 DEF OrderInv
<1>7. \A p \in Live' : \A x \in Ahead(p)' \cup ToSet(ready'[p]) :
        p <= at' /\ \A m \in ToSet(data') : m < x
  <2>1. Live \subseteq Frames
    BY DEF Live
  <2>. QED BY <1>1, <1>5, <1>6, <2>1
<1>8. /\ DataInDocumentOrder'
      /\ \A p \in Frames : element'[p] = 0 => cursor'[p] = 1
      /\ \A p \in Frames : \A i, j \in DOMAIN ready'[p] : i < j => ready'[p][i] < ready'[p][j]
      /\ \A m \in ToSet(data') : at' < m => at' <= Parent[m]
  BY <1>1, <1>4 DEF OrderInv, DataInDocumentOrder
<1>. QED BY <1>7, <1>8 DEF OrderInv

\* The recover of executeSelected takes out of the buffer the field that main is in and
\* what stands after it.
LEMMA RecoverCuts ==
  ASSUME TypeOK, Trail, DataInDocumentOrder, at # Root,
         data' = SubSeq(data, 1, mark[at])
  PROVE  /\ at \in Nodes
         /\ at \in ToSet(data)
         /\ ToSet(data') = {m \in ToSet(data) : m < at}
         /\ DataInDocumentOrder'
<1>1. /\ at \in ToSet(data)
      /\ mark[at] \in 0..Len(data)
      /\ mark[at] < Len(data)
      /\ data[mark[at] + 1] = at
  BY AtWritten
<1>2. at \in Nodes
  BY DEF TypeOK, Frames, Nodes, Root
<1>3. data \in Seq(Nodes)
  BY DEF TypeOK
<1>4. ToSet(data') = {m \in ToSet(data) : m < at}
  BY <1>1, <1>3, CutSet DEF DataInDocumentOrder
<1>5. DOMAIN data' = 1..mark[at] /\ \A i \in 1..mark[at] : data'[i] = data[i]
  BY <1>1, <1>3, PrefixLemma
<1>6. 1..mark[at] \subseteq DOMAIN data
  BY <1>1, <1>3
<1>7. DataInDocumentOrder'
  BY <1>5, <1>6 DEF DataInDocumentOrder
<1>. QED BY <1>1, <1>2, <1>4, <1>7

\* The recover of executeSelected: the field main is in is cut out.
LEMMA RecoverKeepsOrder ==
  ASSUME WalkInv, OrderInv, ResolvePanics, at # Root
  PROVE  OrderInv'
<1>. USE DEF WalkInv
<1>1. /\ at' = Parent[at]
      /\ data' = SubSeq(data, 1, mark[at])
      /\ UNCHANGED <<element, cursor, ready>>
  BY DEF ResolvePanics, CutOut
<1>2. /\ at \in Nodes /\ at \in ToSet(data)
      /\ ToSet(data') = {m \in ToSet(data) : m < at}
      /\ DataInDocumentOrder'
  BY <1>1, RecoverCuts DEF OrderInv
<1>3. /\ \A p \in Live : \A x \in Ahead(p) \cup ToSet(ready[p]) : p # at => p <= Parent[at]
      /\ \A m \in ToSet(data) : Parent[at] < m => Parent[at] <= Parent[m]
  BY ParentInOrder
<1>4. Live' \subseteq Live \ {at} /\ \A p \in Frames : Ahead(p)' = Ahead(p)
  <2>1. at \notin ToSet(data')
    BY <1>2, NodeNumbers
  <2>. QED BY <1>1, <1>2, <2>1 DEF Live, Ahead
<1>5. \A p \in Live' : \A x \in Ahead(p)' \cup ToSet(ready'[p]) :
        p <= at' /\ \A m \in ToSet(data') : m < x
  <2>. SUFFICES ASSUME NEW p \in Live', NEW x \in Ahead(p) \cup ToSet(ready[p])
                PROVE  p <= Parent[at] /\ \A m \in ToSet(data') : m < x
    <3>1. Live' \subseteq Frames
      BY <1>4 DEF Live
    <3>. QED BY <1>1, <1>4, <3>1
  <2>1. p \in Live /\ p # at
    BY <1>4
  <2>. QED BY <1>2, <1>3, <2>1 DEF OrderInv
<1>6. \A m \in ToSet(data') : at' < m => at' <= Parent[m]
  BY <1>1, <1>2, <1>3
<1>7. /\ \A p \in Frames : element'[p] = 0 => cursor'[p] = 1
      /\ \A p \in Frames : \A i, j \in DOMAIN ready'[p] : i < j => ready'[p][i] < ready'[p][j]
  BY <1>1 DEF OrderInv
<1>. QED BY <1>2, <1>5, <1>6, <1>7 DEF OrderInv

\* Every step keeps the order of the response.
LEMMA OrderStep ==
  WalkInv /\ OrderInv /\ MainInv /\ [Next]_vars => OrderInv'
<1>. SUFFICES ASSUME WalkInv, OrderInv, MainInv, [Next]_vars PROVE OrderInv'
  OBVIOUS
<1>. USE DEF walk, output
<1>1. CASE Start
  BY <1>1, StartKeepsOrder
<1>2. CASE SkipField \/ MergeField \/ NoResolver \/ ResolveDirect
  BY <1>2, AdvanceKeepsOrder DEF SkipField, MergeField, NoResolver, ResolveDirect, AddToReady, Resolving
<1>3. CASE StartGoroutine
  <2>1. cursor[at] <= Len(SelectionSet)
    BY <1>3 DEF StartGoroutine, WalkInv, Entered
  <2>. QED BY <1>3, <2>1, AdvanceKeepsOrder DEF StartGoroutine, AddToReady
<1>4. CASE WriteField \/ FailField
  BY <1>4, ExecutedKeepsOrder
<1>5. CASE EnterField
  BY <1>5, EnterFieldKeepsOrder
<1>6. CASE NextElement
  BY <1>6, NextElementKeepsOrder
<1>7. CASE LeaveField
  BY <1>7, LeaveFieldKeepsOrder
<1>8. CASE ResolvePanics
  <2>1. CASE at = Root
    BY <1>8, <2>1, OrderStands DEF ResolvePanics
  <2>2. CASE at # Root
    BY <1>8, <2>2, RecoverKeepsOrder
  <2>. QED BY <2>1, <2>2
<1>9. CASE ResolveAsync \/ Answer \/ CloseStream \/ ReleaseMain \/ UNCHANGED vars
  BY <1>9, OrderStands DEF ResolveAsync, Answer, CloseStream, ReleaseMain, vars
<1>10. ASSUME NEW n \in Nodes, Goroutine(n) PROVE OrderInv'
  BY <1>10, OrderStands
     DEF Goroutine, GoroutineReturns, GoroutineReleases, GoroutineSends, GoroutineDies
<1>. QED BY <1>1, <1>2, <1>3, <1>4, <1>5, <1>6, <1>7, <1>8, <1>9, <1>10
         DEF Next, Main, Terminated

-----------------------------------------------------------------------------
(* The account of the response.                                            *)

LEMMA AccountInit == Init => AccountInv
<1>. SUFFICES ASSUME Init PROVE AccountInv
  OBVIOUS
<1>1. Live = {} /\ DOMAIN errs = {} /\ ToSet(data) = {} /\ ToSet(errs) = {}
  BY DEF Init, Live, ToSet
<1>2. \A p \in Frames : ToSet(ready[p]) = {}
  BY DEF Init, ToSet
<1>3. \A p \in Frames : \A n \in Ahead(p) : resolver[n] = "none"
  BY DEF Init, Ahead
<1>4. IsInjective(errs)
  BY <1>1 DEF IsInjective
<1>. QED BY <1>1, <1>2, <1>3, <1>4 DEF AccountInv

\* Steps that do not concern the account.
LEMMA AccountStands ==
  ASSUME AccountInv, UNCHANGED <<element, cursor, ready, resolver, data, errs>>
  PROVE  AccountInv'
BY DEF AccountInv, Live, Ahead

\* Adding what is new to a sequence of distinct elements.
LEMMA AddedInjective ==
  ASSUME NEW s \in Seq(Nodes), IsInjective(s), NEW x, x \notin ToSet(s)
  PROVE  IsInjective(Append(s, x))
<1>1. /\ DOMAIN s = 1..Len(s) /\ Len(s) \in Nat
      /\ DOMAIN Append(s, x) = 1..(Len(s) + 1)
      /\ \A i \in DOMAIN s : Append(s, x)[i] = s[i] /\ s[i] \in ToSet(s)
      /\ Append(s, x)[Len(s) + 1] = x
  BY DEF ToSet
<1>2. ASSUME NEW i \in DOMAIN Append(s, x), NEW j \in DOMAIN Append(s, x),
             Append(s, x)[i] = Append(s, x)[j]
      PROVE  i = j
  <2>1. \A k \in DOMAIN Append(s, x) : k \in DOMAIN s \/ k = Len(s) + 1
    BY <1>1
  <2>2. CASE i \in DOMAIN s /\ j \in DOMAIN s
    BY <1>1, <1>2, <2>2 DEF IsInjective
  <2>3. CASE i = Len(s) + 1 \/ j = Len(s) + 1
    BY <1>1, <1>2, <2>1, <2>3
  <2>. QED BY <2>1, <2>2, <2>3
<1>3. \A i, j \in DOMAIN Append(s, x) : Append(s, x)[i] = Append(s, x)[j] => i = j
  BY <1>2
<1>. QED BY <1>3 DEF IsInjective

\* All the fields of a selection set that was not entered are ahead.
LEMMA UnenteredAhead ==
  ASSUME TypeOK, OrderInv, NEW q \in Frames, element[q] = 0
  PROVE  \A n \in Nodes : Parent[n] = q => n \in Ahead(q)
<1>. SUFFICES ASSUME NEW n \in Nodes, Parent[n] = q PROVE n \in Ahead(q)
  OBVIOUS
<1>1. PICK e \in DOMAIN Elements[q] : \E i \in DOMAIN Elements[q][e] : Elements[q][e][i] = n
  BY NumberingAssumption
<1>2. e > element[q]
  <2>1. PICK i \in DOMAIN Elements[q][e] : Elements[q][e][i] = n
    BY <1>1
  <2>2. e \in Nat \ {0}
    BY ListedLemma
  <2>. QED BY <2>2
<1>. QED BY <1>1, <1>2 DEF Ahead

\* One step of the loop of resolveFields: the field is skipped, has no resolver, or goes into
\* the linked map.
LEMMA AdvanceKeepsAccount ==
  ASSUME WalkInv, AccountInv, main # "start", cursor[at] <= Len(SelectionSet), Advance,
         UNCHANGED <<element, data>>,
         NEW r, resolver' = [resolver EXCEPT ![Current] = r],
         \/ r \in {"skipped", "merged"} /\ UNCHANGED <<ready, errs>>
         \/ r = "missing" /\ errs' = Append(errs, Current) /\ UNCHANGED ready
         \/ /\ r \in {"direct", "async"}
            /\ ready' = [ready EXCEPT ![at] = Append(@, Current)]
            /\ UNCHANGED errs
  PROVE  AccountInv'
<1>. USE DEF WalkInv
<1>1. /\ Current \in Ahead(at)
      /\ \A p \in Frames : Ahead(p)' = Ahead(p) \ {Current}
  BY AdvanceAhead
<1>2. /\ at \in Frames
      /\ Current \in Nodes /\ Parent[Current] = at
      /\ resolver \in [Nodes -> Resolvers]
      /\ ready \in [Frames -> Seq(Nodes)]
  BY <1>1, PlacesTyped DEF TypeOK
<1>3. /\ resolver[Current] = "none"
      /\ Current \notin ToSet(data)
      /\ Current \notin ToSet(errs)
      /\ \A p \in Frames : Current \notin ToSet(ready[p])
  BY <1>1, <1>2 DEF AccountInv
<1>4. /\ resolver'[Current] = r
      /\ \A n \in Nodes : n # Current => resolver'[n] = resolver[n]
  BY <1>2
<1>5. /\ IsInjective(errs')
      /\ \/ ToSet(errs') = ToSet(errs)
         \/ r = "missing" /\ ToSet(errs') = ToSet(errs) \cup {Current}
      /\ r = "missing" => Current \in ToSet(errs')
  <2>1. CASE r # "missing" /\ errs' = errs
    BY <2>1, <1>3 DEF AccountInv
  <2>2. CASE r = "missing" /\ errs' = Append(errs, Current)
    <3>1. errs \in Seq(Nodes) /\ IsInjective(errs)
      BY DEF TypeOK, AccountInv
    <3>2. IsInjective(Append(errs, Current))
      BY <1>3, <3>1, AddedInjective
    <3>3. ToSet(Append(errs, Current)) = ToSet(errs) \cup {Current}
      BY <3>1, AppendSet
    <3>. QED BY <2>2, <3>2, <3>3
  <2>3. \/ r # "missing" /\ errs' = errs
        \/ r = "missing" /\ errs' = Append(errs, Current)
    OBVIOUS
  <2>. QED BY <2>1, <2>2, <2>3
<1>6. /\ \A p \in Frames : \/ ToSet(ready'[p]) = ToSet(ready[p])
                           \/ /\ r \in {"direct", "async"}
                              /\ ToSet(ready'[p]) = ToSet(ready[p]) \cup {Current}
      /\ r \in {"direct", "async"} => Current \in ToSet(ready'[at])
  <2>1. CASE r \in {"direct", "async"} /\ ready' = [ready EXCEPT ![at] = Append(@, Current)]
    <3>1. ready[at] \in Seq(Nodes)
      BY <1>2
    <3>2. ready'[at] = Append(ready[at], Current) /\ \A p \in Frames : p # at => ready'[p] = ready[p]
      BY <1>2, <2>1
    <3>3. ToSet(ready'[at]) = ToSet(ready[at]) \cup {Current}
      BY <3>1, <3>2, AppendSet
    <3>. QED BY <2>1, <3>2, <3>3
  <2>2. CASE r \notin {"direct", "async"} /\ ready' = ready
    BY <2>2
  <2>. QED BY <2>1, <2>2
<1>7. ToSet(data) \subseteq Nodes /\ ToSet(errs) \subseteq Nodes
      /\ \A p \in Frames : \A n \in Ahead(p) \cup ToSet(ready[p]) : n \in Nodes
  BY PlacesTyped
<1>8. \A p \in Frames : \A n \in Ahead(p)' :
        resolver'[n] = "none" /\ n \notin ToSet(data') \cup ToSet(errs')
  BY <1>1, <1>4, <1>5, <1>7 DEF AccountInv
<1>9. \A p \in Frames : \A n \in ToSet(ready'[p]) :
        resolver'[n] \in {"direct", "async"} /\ n \notin ToSet(data') \cup ToSet(errs')
  <2>. SUFFICES ASSUME NEW p \in Frames, NEW n \in ToSet(ready'[p])
                PROVE  resolver'[n] \in {"direct", "async"}
                       /\ n \notin ToSet(data') \cup ToSet(errs')
    OBVIOUS
  <2>1. CASE n = Current
    BY <1>3, <1>4, <1>5, <1>6, <2>1
  <2>2. CASE n # Current
    BY <1>4, <1>5, <1>6, <1>7, <2>2 DEF AccountInv
  <2>. QED BY <2>1, <2>2
<1>10. \A n \in ToSet(data') : resolver'[n] \in {"direct", "async"} /\ n \notin ToSet(errs')
  BY <1>3, <1>4, <1>5, <1>7 DEF AccountInv
<1>11. \A n \in ToSet(errs') : resolver'[n] \notin {"skipped", "merged"}
  BY <1>3, <1>4, <1>5, <1>7 DEF AccountInv
<1>12. Live' = Live
  BY DEF Live
<1>13. ASSUME NEW n \in Nodes, Parent[n] \in Live'
       PROVE  \/ n \in Ahead(Parent[n])' \cup ToSet(ready'[Parent[n]]) \cup ToSet(data') \cup ToSet(errs')
              \/ resolver'[n] \in {"skipped", "merged"}
  <2>1. Parent[n] \in Frames /\ Parent[n] \in Live
    BY <1>12, <1>13 DEF Live
  <2>2. CASE n = Current
    BY <1>2, <1>4, <1>5, <1>6, <2>2
  <2>3. CASE n # Current
    <3>1. \/ n \in Ahead(Parent[n]) \cup ToSet(ready[Parent[n]]) \cup ToSet(data) \cup ToSet(errs)
          \/ resolver[n] \in {"skipped", "merged"}
      BY <2>1 DEF AccountInv
    <3>. QED BY <1>1, <1>4, <1>5, <1>6, <2>1, <2>3, <3>1
  <2>. QED BY <2>2, <2>3
<1>. QED BY <1>5, <1>8, <1>9, <1>10, <1>11, <1>13 DEF AccountInv

\* recursiveExecute: the first field n of the linked map goes into the buffer or the error
\* list.  If its selection set is entered, all of that is ahead.
LEMMA PopKeepsAccount ==
  ASSUME WalkInv, AccountInv, ready[at] # <<>>,
         NEW n, n = Head(ready[at]),
         ready' = [ready EXCEPT ![at] = Tail(@)],
         UNCHANGED resolver,
         \/ ToSet(data') = ToSet(data) \cup {n} /\ UNCHANGED errs
         \/ UNCHANGED data /\ errs' = Append(errs, n),
         \A p \in Frames : Ahead(p)' = Ahead(p),
         Live' \subseteq Live \cup {n},
         n \in Live' => \A m \in Nodes : Parent[m] = n => m \in Ahead(n)
  PROVE  AccountInv'
<1>. USE DEF WalkInv
<1>1. /\ at \in Frames
      /\ n \in Nodes /\ Parent[n] = at
      /\ n = ready[at][1] /\ 1 \in DOMAIN ready[at]
  BY ReadyLemma DEF TypeOK
<1>2. n \in ToSet(ready[at])
  BY <1>1 DEF ToSet
<1>3. /\ resolver[n] \in {"direct", "async"}
      /\ n \notin ToSet(data) \cup ToSet(errs)
      /\ \A p \in Frames : n \notin Ahead(p)
  BY <1>1, <1>2, HeadNotAhead DEF AccountInv
<1>4. /\ \A p \in Frames : p # at => ready'[p] = ready[p]
      /\ ToSet(ready'[at]) = ToSet(ready[at]) \ {n}
  BY PopSets
<1>5. /\ ToSet(data) \subseteq Nodes /\ ToSet(errs) \subseteq Nodes
      /\ \A p \in Frames : \A x \in Ahead(p) \cup ToSet(ready[p]) : x \in Nodes /\ Parent[x] = p
  BY PlacesTyped
<1>6. \A p \in Frames : ToSet(ready'[p]) = ToSet(ready[p]) \ {n}
  <2>. SUFFICES ASSUME NEW p \in Frames PROVE ToSet(ready'[p]) = ToSet(ready[p]) \ {n}
    OBVIOUS
  <2>1. p # at => n \notin ToSet(ready[p])
    BY <1>1, <1>5
  <2>. QED BY <1>4, <2>1
<1>7. /\ IsInjective(errs')
      /\ \/ ToSet(data') = ToSet(data) \cup {n} /\ ToSet(errs') = ToSet(errs)
         \/ ToSet(data') = ToSet(data) /\ ToSet(errs') = ToSet(errs) \cup {n}
  <2>1. errs \in Seq(Nodes) /\ IsInjective(errs)
    BY DEF TypeOK, AccountInv
  <2>2. IsInjective(Append(errs, n)) /\ ToSet(Append(errs, n)) = ToSet(errs) \cup {n}
    <3>1. IsInjective(Append(errs, n))
      BY <1>3, <2>1, AddedInjective
    <3>2. ToSet(Append(errs, n)) = ToSet(errs) \cup {n}
      BY <2>1, AppendSet
    <3>. QED BY <3>1, <3>2
  <2>. QED BY <2>1, <2>2
<1>8. \A p \in Frames : \A x \in Ahead(p)' :
        resolver'[x] = "none" /\ x \notin ToSet(data') \cup ToSet(errs')
  BY <1>3, <1>7 DEF AccountInv
<1>9. \A p \in Frames : \A x \in ToSet(ready'[p]) :
        resolver'[x] \in {"direct", "async"} /\ x \notin ToSet(data') \cup ToSet(errs')
  BY <1>6, <1>7 DEF AccountInv
<1>10. \A x \in ToSet(data') : resolver'[x] \in {"direct", "async"} /\ x \notin ToSet(errs')
  BY <1>3, <1>7 DEF AccountInv
<1>11. \A x \in ToSet(errs') : resolver'[x] \notin {"skipped", "merged"}
  BY <1>3, <1>7 DEF AccountInv
<1>12. ASSUME NEW x \in Nodes, Parent[x] \in Live'
       PROVE  \/ x \in Ahead(Parent[x])' \cup ToSet(ready'[Parent[x]]) \cup ToSet(data') \cup ToSet(errs')
              \/ resolver'[x] \in {"skipped", "merged"}
  <2>1. Parent[x] \in Frames
    BY TreeAssumption
  <2>2. CASE Parent[x] = n
    BY <1>12, <2>1, <2>2
  <2>3. CASE Parent[x] \in Live
    <3>1. \/ x \in Ahead(Parent[x]) \cup ToSet(ready[Parent[x]]) \cup ToSet(data) \cup ToSet(errs)
          \/ resolver[x] \in {"skipped", "merged"}
      BY <2>3 DEF AccountInv
    <3>. QED BY <1>6, <1>7, <2>1, <3>1
  <2>. QED BY <1>12, <2>2, <2>3
<1>. QED BY <1>7, <1>8, <1>9, <1>10, <1>11, <1>12 DEF AccountInv

\* main enters selection sets, or goes back: what is ahead stays ahead.
LEMMA GrowthKeepsAccount ==
  ASSUME AccountInv, NEW q \in Frames,
         UNCHANGED <<ready, resolver, data, errs>>,
         \A p \in Frames : Ahead(p)' = Ahead(p),
         Live' \subseteq Live \cup {q},
         q \in Live' \ Live => \A m \in Nodes : Parent[m] = q => m \in Ahead(q)
  PROVE  AccountInv'
<1>1. ASSUME NEW x \in Nodes, Parent[x] \in Live'
      PROVE  \/ x \in Ahead(Parent[x])' \cup ToSet(ready'[Parent[x]]) \cup ToSet(data') \cup ToSet(errs')
             \/ resolver'[x] \in {"skipped", "merged"}
  <2>1. Parent[x] \in Frames
    BY TreeAssumption
  <2>2. CASE Parent[x] \in Live
    BY <2>1, <2>2 DEF AccountInv
  <2>3. CASE Parent[x] \notin Live
    BY <1>1, <2>1, <2>3
  <2>. QED BY <2>2, <2>3
<1>2. /\ \A p \in Frames : \A n \in Ahead(p)' :
           resolver'[n] = "none" /\ n \notin ToSet(data') \cup ToSet(errs')
      /\ \A p \in Frames : \A n \in ToSet(ready'[p]) :
           resolver'[n] \in {"direct", "async"} /\ n \notin ToSet(data') \cup ToSet(errs')
      /\ \A n \in ToSet(data') : resolver'[n] \in {"direct", "async"} /\ n \notin ToSet(errs')
      /\ \A n \in ToSet(errs') : resolver'[n] \notin {"skipped", "merged"}
      /\ IsInjective(errs')
  BY DEF AccountInv
<1>. QED BY <1>1, <1>2 DEF AccountInv

\* The recover of executeSelected: the field main is in is reported, and nothing else that
\* was in the buffer and is cut out is selected below a live field.
LEMMA RecoverKeepsAccount ==
  ASSUME WalkInv, OrderInv, AccountInv, ResolvePanics, at # Root
  PROVE  AccountInv'
<1>. USE DEF WalkInv
<1>1. /\ data' = SubSeq(data, 1, mark[at])
      /\ errs' = Append(errs, at)
      /\ UNCHANGED <<element, cursor, ready, resolver>>
  BY DEF ResolvePanics, CutOut
<1>2. /\ at \in Nodes /\ at \in ToSet(data)
      /\ ToSet(data') = {m \in ToSet(data) : m < at}
  BY <1>1, RecoverCuts DEF OrderInv
<1>3. /\ at \notin ToSet(errs)
      /\ resolver[at] \in {"direct", "async"}
      /\ \A p \in Frames : at \notin Ahead(p) \cup ToSet(ready[p])
  BY <1>2 DEF AccountInv
<1>4. /\ IsInjective(errs')
      /\ ToSet(errs') = ToSet(errs) \cup {at}
  <2>1. errs \in Seq(Nodes) /\ IsInjective(errs)
    BY DEF TypeOK, AccountInv
  <2>2. IsInjective(Append(errs, at))
    BY <1>3, <2>1, AddedInjective
  <2>3. ToSet(Append(errs, at)) = ToSet(errs) \cup {at}
    BY <2>1, AppendSet
  <2>. QED BY <1>1, <2>2, <2>3
<1>5. \A p \in Frames : Ahead(p)' = Ahead(p)
  BY <1>1 DEF Ahead
<1>6. ASSUME NEW x \in Nodes, Parent[x] \in Live'
      PROVE  \/ x \in Ahead(Parent[x])' \cup ToSet(ready'[Parent[x]]) \cup ToSet(data') \cup ToSet(errs')
             \/ resolver'[x] \in {"skipped", "merged"}
  <2>1. /\ Parent[x] \in Frames
        /\ Parent[x] = Root \/ Parent[x] \in ToSet(data')
        /\ Parent[x] \in Live
    BY <1>1, <1>2, <1>6 DEF Live
  <2>2. \/ x \in Ahead(Parent[x]) \cup ToSet(ready[Parent[x]]) \cup ToSet(data) \cup ToSet(errs)
        \/ resolver[x] \in {"skipped", "merged"}
    BY <2>1 DEF AccountInv
  <2>3. x \in ToSet(data) => x \in ToSet(data') \cup ToSet(errs')
    <3>1. Parent[x] < at
      BY <1>2, <2>1, NodeNumbers
    <3>2. x \in ToSet(data) => ~(at < x)
      BY <1>2, <2>1, <3>1, NodeNumbers DEF OrderInv
    <3>. QED BY <1>2, <1>4, <3>2, NodeNumbers
  <2>. QED BY <1>1, <1>4, <1>5, <2>1, <2>2, <2>3
<1>7. /\ \A p \in Frames : \A n \in Ahead(p)' :
           resolver'[n] = "none" /\ n \notin ToSet(data') \cup ToSet(errs')
      /\ \A p \in Frames : \A n \in ToSet(ready'[p]) :
           resolver'[n] \in {"direct", "async"} /\ n \notin ToSet(data') \cup ToSet(errs')
  BY <1>1, <1>2, <1>3, <1>4, <1>5 DEF AccountInv
<1>8. \A n \in ToSet(data') : resolver'[n] \in {"direct", "async"} /\ n \notin ToSet(errs')
  BY <1>1, <1>2, <1>4, NodeNumbers DEF AccountInv
<1>9. \A n \in ToSet(errs') : resolver'[n] \notin {"skipped", "merged"}
  BY <1>1, <1>3, <1>4 DEF AccountInv
<1>. QED BY <1>4, <1>6, <1>7, <1>8, <1>9 DEF AccountInv

\* Every step keeps the account.
LEMMA AccountStep ==
  WalkInv /\ OrderInv /\ AccountInv /\ MainInv /\ [Next]_vars => AccountInv'
<1>. SUFFICES ASSUME WalkInv, OrderInv, AccountInv, MainInv, [Next]_vars PROVE AccountInv'
  OBVIOUS
<1>. USE DEF walk, output
<1>1. CASE Start
  <2>1. /\ at = Root /\ element[Root] = 0 /\ Root \in Frames /\ data = <<>> /\ TypeOK
        /\ cursor[Root] = 1
    BY <1>1, NodeNumbers DEF Start, WalkInv, Entered, MainInv, OrderInv, TypeOK
  <2>2. /\ element' = [element EXCEPT ![Root] = element[Root] + 1]
        /\ UNCHANGED <<cursor, ready, resolver, data, errs>>
    BY <1>1, <2>1 DEF Start
  <2>3. \A p \in Frames : Ahead(p)' = Ahead(p)
    BY <2>1, <2>2, GrowthAhead
  <2>4. Live' \subseteq Live \cup {Root}
    BY <2>1, <2>2 DEF Live, TypeOK
  <2>5. \A m \in Nodes : Parent[m] = Root => m \in Ahead(Root)
    BY <2>1, UnenteredAhead
  <2>. QED BY <2>1, <2>2, <2>3, <2>4, <2>5, GrowthKeepsAccount
<1>2. CASE SkipField \/ MergeField \/ NoResolver \/ ResolveDirect
  <2>1. main # "start" /\ cursor[at] <= Len(SelectionSet) /\ UNCHANGED <<element, data>>
    BY <1>2 DEF SkipField, MergeField, NoResolver, ResolveDirect, Resolving
  <2>2. CASE SkipField \/ MergeField
    BY <2>1, <2>2, AdvanceKeepsAccount DEF SkipField, MergeField
  <2>3. CASE NoResolver
    BY <2>1, <2>3, AdvanceKeepsAccount DEF NoResolver
  <2>4. CASE ResolveDirect
    BY <2>1, <2>4, AdvanceKeepsAccount DEF ResolveDirect, AddToReady
  <2>. QED BY <1>2, <2>2, <2>3, <2>4
<1>3. CASE StartGoroutine
  <2>1. main # "start" /\ cursor[at] <= Len(SelectionSet) /\ UNCHANGED <<element, data>>
    BY <1>3 DEF StartGoroutine, WalkInv, Entered
  <2>. QED BY <1>3, <2>1, AdvanceKeepsAccount DEF StartGoroutine, AddToReady
<1>4. CASE WriteField \/ FailField
  <2>. DEFINE n == Head(ready[at])
  <2>1. /\ ready[at] # <<>>
        /\ ready' = [ready EXCEPT ![at] = Tail(@)]
        /\ UNCHANGED <<element, cursor, resolver>>
        /\ \/ data' = Append(data, n) /\ UNCHANGED errs
           \/ data' = SubSeq(data, 1, Len(data)) /\ errs' = Append(errs, n)
    BY <1>4 DEF WriteField, FailField, Executing, CutOut
  <2>2. data \in Seq(Nodes) /\ element[n] = 0
    BY <2>1, ReadyLemma DEF WalkInv, TypeOK
  <2>3. \/ ToSet(data') = ToSet(data) \cup {n} /\ UNCHANGED errs
        \/ data' = data /\ errs' = Append(errs, n)
    <3>1. ToSet(Append(data, n)) = ToSet(data) \cup {n}
      BY <2>2, AppendSet
    <3>2. SubSeq(data, 1, Len(data)) = data
      BY <2>2
    <3>. QED BY <2>1, <3>1, <3>2
  <2>4. \A p \in Frames : Ahead(p)' = Ahead(p)
    BY <2>1 DEF Ahead
  <2>5. n \notin Live'
    BY <2>1, <2>2 DEF Live
  <2>6. Live' \subseteq Live \cup {n}
    BY <2>1, <2>3 DEF Live
  <2>. HIDE DEF n
  <2>. QED BY <2>1, <2>3, <2>4, <2>5, <2>6, PopKeepsAccount DEF n
<1>5. CASE EnterField
  <2>. DEFINE n == Head(ready[at])
  <2>1. /\ ready[at] # <<>>
        /\ ready' = [ready EXCEPT ![at] = Tail(@)]
        /\ data' = Append(data, n)
        /\ UNCHANGED <<resolver, errs>>
    BY <1>5 DEF EnterField, Executing
  <2>2. data \in Seq(Nodes) /\ n \in Nodes /\ n \in Frames /\ element[n] = 0
    BY <2>1, ReadyLemma, NodeNumbers DEF WalkInv, TypeOK
  <2>3. ToSet(data') = ToSet(data) \cup {n}
    BY <2>1, <2>2, AppendSet
  <2>4. (\A p \in Frames : Ahead(p)' = Ahead(p)) /\ Live' = Live \cup {n}
    BY <1>5, EnterFieldKeepsOrder
  <2>5. \A m \in Nodes : Parent[m] = n => m \in Ahead(n)
    BY <2>2, UnenteredAhead DEF WalkInv
  <2>. HIDE DEF n
  <2>. QED BY <2>1, <2>3, <2>4, <2>5, PopKeepsAccount DEF n
<1>6. CASE NextElement
  <2>1. at \in Frames /\ UNCHANGED <<at, ready, resolver, data, errs>>
    BY <1>6 DEF NextElement, WalkInv, TypeOK
  <2>2. \A p \in Frames : Ahead(p)' = Ahead(p)
    BY <1>6, NextElementKeepsOrder
  <2>3. element[at] > 0 /\ element' = [element EXCEPT ![at] = element[at] + 1]
    BY <1>6 DEF NextElement, SelectionSetDone, Resolved, WalkInv, Entered
  <2>4. Live' \subseteq Live
    BY <2>1, <2>3 DEF Live, WalkInv, TypeOK
  <2>. QED BY <2>1, <2>2, <2>4, GrowthKeepsAccount
<1>7. CASE ResolvePanics
  <2>1. CASE at = Root
    BY <1>7, <2>1, AccountStands DEF ResolvePanics
  <2>2. CASE at # Root
    BY <1>7, <2>2, RecoverKeepsAccount
  <2>. QED BY <2>1, <2>2
<1>8. CASE LeaveField \/ ResolveAsync \/ Answer \/ CloseStream \/ ReleaseMain \/ UNCHANGED vars
  BY <1>8, AccountStands DEF LeaveField, ResolveAsync, Answer, CloseStream, ReleaseMain, vars
<1>9. ASSUME NEW n \in Nodes, Goroutine(n) PROVE AccountInv'
  BY <1>9, AccountStands
     DEF Goroutine, GoroutineReturns, GoroutineReleases, GoroutineSends, GoroutineDies
<1>. QED BY <1>1, <1>2, <1>3, <1>4, <1>5, <1>6, <1>7, <1>8, <1>9 DEF Next, Main, Terminated

-----------------------------------------------------------------------------
(* The selections of one alias.                                            *)

LEMMA KeyInit == Init => KeyInv
BY DEF Init, KeyInv

\* Steps that resolve nothing.
LEMMA KeyStands ==
  ASSUME KeyInv, UNCHANGED resolver,
         main' = "acquire" => ~AliasResolved(Current)'
  PROVE  KeyInv'
BY DEF KeyInv, AliasResolved

\* One step of the loop of resolveFields: what is resolved is the first of its alias, what
\* is merged is not.
LEMMA AdvanceKeepsKeys ==
  ASSUME KeyInv, NEW c \in Nodes, resolver[c] = "none", main' # "acquire",
         resolver \in [Nodes -> Resolvers],
         NEW r, resolver' = [resolver EXCEPT ![c] = r],
         r \in {"direct", "async"} => ~AliasResolved(c),
         r = "merged" => AliasResolved(c)
  PROVE  KeyInv'
<1>1. resolver'[c] = r /\ \A n \in Nodes : n # c => resolver'[n] = resolver[n]
  OBVIOUS
<1>2. ASSUME NEW m \in Nodes, NEW n \in Nodes, Key[m] = Key[n],
             resolver'[m] \in {"direct", "async"}, resolver'[n] \in {"direct", "async"}
      PROVE  m = n
  <2>1. CASE m # c /\ n # c
    BY <1>1, <1>2, <2>1 DEF KeyInv
  <2>2. CASE m = c /\ n # c
    BY <1>1, <1>2, <2>2 DEF AliasResolved
  <2>3. CASE m # c /\ n = c
    BY <1>1, <1>2, <2>3 DEF AliasResolved
  <2>. QED BY <2>1, <2>2, <2>3
<1>3. ASSUME NEW n \in Nodes, resolver'[n] = "merged" PROVE AliasResolved(n)'
  <2>1. AliasResolved(n)
    BY <1>1, <1>3 DEF KeyInv
  <2>2. PICK m \in Nodes : Key[m] = Key[n] /\ resolver[m] \in {"direct", "async"}
    BY <2>1 DEF AliasResolved
  <2>3. resolver'[m] \in {"direct", "async"}
    BY <1>1, <2>2
  <2>. QED BY <2>2, <2>3 DEF AliasResolved
<1>. QED BY <1>2, <1>3 DEF KeyInv

\* Every step keeps one resolved selection for an alias at most.
LEMMA KeyStep ==
  WalkInv /\ AccountInv /\ KeyInv /\ [Next]_vars => KeyInv'
<1>. SUFFICES ASSUME WalkInv, AccountInv, KeyInv, [Next]_vars PROVE KeyInv'
  OBVIOUS
<1>. USE DEF walk, output
<1>1. ASSUME main # "start", cursor[at] <= Len(SelectionSet), Advance, UNCHANGED <<at, element>>
      PROVE  Current \in Nodes /\ resolver[Current] = "none"
  <2>1. Current \in Ahead(at) /\ at \in Frames
    BY <1>1, AdvanceAhead DEF WalkInv, TypeOK
  <2>. QED BY <2>1, PlacesTyped DEF AccountInv, WalkInv
<1>2. resolver \in [Nodes -> Resolvers]
  BY DEF WalkInv, TypeOK
<1>3. CASE SkipField \/ MergeField \/ NoResolver \/ ResolveDirect
  <2>1. Current \in Nodes /\ resolver[Current] = "none" /\ main' # "acquire"
    BY <1>1, <1>3 DEF SkipField, MergeField, NoResolver, ResolveDirect, AddToReady, Resolving
  <2>2. \E r \in {"skipped", "merged", "missing", "direct"} :
          /\ resolver' = [resolver EXCEPT ![Current] = r]
          /\ r = "direct" => ~AliasResolved(Current)
          /\ r = "merged" => AliasResolved(Current)
    BY <1>3 DEF SkipField, MergeField, NoResolver, ResolveDirect
  <2>. QED BY <1>2, <2>1, <2>2, AdvanceKeepsKeys
<1>4. CASE StartGoroutine
  <2>1. Current \in Nodes /\ resolver[Current] = "none" /\ main' # "acquire"
    BY <1>1, <1>4 DEF StartGoroutine, AddToReady, WalkInv, Entered
  <2>2. ~AliasResolved(Current) /\ resolver' = [resolver EXCEPT ![Current] = "async"]
    BY <1>4 DEF StartGoroutine, KeyInv
  <2>. QED BY <1>2, <2>1, <2>2, AdvanceKeepsKeys
<1>5. CASE ResolveAsync
  <2>1. UNCHANGED <<resolver, Current>> /\ ~AliasResolved(Current)
    BY <1>5 DEF ResolveAsync, Current, SelectionSet
  <2>. QED BY <2>1, KeyStands DEF AliasResolved
<1>6. CASE \/ Start \/ ResolvePanics \/ WriteField \/ FailField \/ EnterField
           \/ NextElement \/ LeaveField \/ Answer \/ CloseStream \/ ReleaseMain
  <2>1. UNCHANGED resolver /\ main' # "acquire"
    BY <1>6
       DEF Start, ResolvePanics, WriteField, FailField, EnterField, NextElement, LeaveField,
           Answer, CloseStream, ReleaseMain, Resolving, Executing, SelectionSetDone, Resolved
  <2>. QED BY <2>1, KeyStands
<1>7. CASE UNCHANGED vars
  BY <1>7 DEF vars, KeyInv, AliasResolved, Current, SelectionSet
<1>8. ASSUME NEW n \in Nodes, Goroutine(n) PROVE KeyInv'
  <2>1. UNCHANGED <<main, walk, resolver>>
    BY <1>8
       DEF Goroutine, GoroutineReturns, GoroutineReleases, GoroutineSends, GoroutineDies
  <2>. QED BY <2>1 DEF KeyInv, AliasResolved, Current, SelectionSet
<1>. QED BY <1>3, <1>4, <1>5, <1>6, <1>7, <1>8 DEF Next, Main, Terminated

-----------------------------------------------------------------------------
(* Goroutines that nobody waits for.                                       *)

LEMMA AbandonInit == Init => AbandonInv
BY DEF Init, AbandonInv, Frames, Nodes

\* Steps that take no key out of the buffer: a field that leaves its linked map has no
\* goroutine whose result is still to be taken.
LEMMA AbandonGrows ==
  ASSUME AbandonInv,
         ToSet(data) \subseteq ToSet(data'), ToSet(errs) \subseteq ToSet(errs'),
         \A p \in Nodes : element'[p] > 0 => element[p] > 0 \/ p \in ToSet(data'),
         \A n \in Nodes : goroutine'[n] # "none" =>
           \/ resolver'[n] = "async" /\ n \in ToSet(ready'[Parent[n]])
           \/ resolver'[n] = "async" /\ goroutine'[n] = "taken"
           \/ /\ goroutine[n] # "none" /\ resolver'[n] = resolver[n]
              /\ \/ goroutine[n] = "taken" /\ goroutine'[n] = "taken"
                 \/ goroutine[n] \in {"running", "returned", "sending", "sent"}
              /\ n \in ToSet(ready[Parent[n]]) => n \in ToSet(ready'[Parent[n]])
  PROVE  AbandonInv'
<1>1. \A p \in Nodes : element'[p] > 0 =>
        p \in ToSet(data') \/ \E a \in ToSet(errs') : p \in Below(a)
  BY DEF AbandonInv
<1>2. \A n \in Nodes : goroutine'[n] # "none" => resolver'[n] = "async"
  BY DEF AbandonInv
<1>3. \A n \in Nodes : goroutine'[n] \in {"running", "returned", "sending", "sent"} =>
        n \in ToSet(ready'[Parent[n]])
  BY DEF AbandonInv
<1>4. \A a : Below(a)' = Below(a)
  BY DEF Below
<1>. QED BY <1>1, <1>2, <1>3, <1>4 DEF AbandonInv

\* Steps that leave the linked maps and the response alone.
LEMMA AbandonStands ==
  ASSUME TypeOK, AbandonInv, UNCHANGED <<ready, resolver, data, errs>>,
         goroutine' = goroutine \/ \E n \in Nodes, g \in Goroutines :
           /\ goroutine[n] \in {"running", "returned", "sending"}
           /\ goroutine' = [goroutine EXCEPT ![n] = g],
         \A p \in Nodes : element'[p] > 0 => element[p] > 0
  PROVE  AbandonInv'
<1>1. \A n \in Nodes : goroutine'[n] # "none" =>
        /\ goroutine[n] # "none"
        /\ \/ goroutine[n] = "taken" /\ goroutine'[n] = "taken"
           \/ goroutine[n] \in {"running", "returned", "sending", "sent"}
  BY DEF TypeOK, Goroutines
<1>. QED BY <1>1, AbandonGrows

\* The recover of executeSelected: what is cut out of the buffer is nested below the field
\* that is reported.
LEMMA RecoverKeepsAbandon ==
  ASSUME WalkInv, OrderInv, AbandonInv, ResolvePanics, at # Root
  PROVE  AbandonInv'
<1>. USE DEF WalkInv
<1>1. /\ data' = SubSeq(data, 1, mark[at])
      /\ errs' = Append(errs, at)
      /\ UNCHANGED <<element, ready, resolver, goroutine>>
  BY DEF ResolvePanics, CutOut, async
<1>2. /\ at \in Nodes /\ at \in ToSet(data)
      /\ ToSet(data') = {m \in ToSet(data) : m < at}
      /\ ToSet(data) \subseteq Nodes
  BY <1>1, RecoverCuts, PlacesTyped DEF OrderInv
<1>3. ToSet(errs') = ToSet(errs) \cup {at}
  <2>1. errs \in Seq(Nodes)
    BY DEF TypeOK
  <2>. QED BY <1>1, <2>1, AppendSet
<1>4. ASSUME NEW p \in ToSet(data), ~(p < at) PROVE p \in Below(at)
  <2>. DEFINE S == {y \in ToSet(data) : ~(y < at)}
  <2>1. S \in SUBSET Nodes /\ p \in S /\ p \in Nodes
    BY <1>2, <1>4
  <2>2. ASSUME NEW m \in S PROVE m = at \/ Parent[m] \in S
    <3>1. m \in Nodes /\ m \in ToSet(data)
      BY <2>1
    <3>2. CASE at < m
      <4>1. at <= Parent[m]
        BY <3>1, <3>2 DEF OrderInv
      <4>2. Parent[m] # Root
        BY <1>2, <4>1, NodeNumbers
      <4>3. PICK j \in DOMAIN data : data[j] = m
        BY <3>1 DEF ToSet
      <4>4. PICK i \in 1..(j - 1) : data[i] = Parent[m]
        BY <4>2, <4>3 DEF DataKeepsParents
      <4>5. i \in DOMAIN data
        <5>1. data \in Seq(Nodes)
          BY DEF TypeOK
        <5>. QED BY <4>3, <4>4, <5>1
      <4>6. Parent[m] \in ToSet(data)
        BY <4>4, <4>5 DEF ToSet
      <4>. QED BY <1>2, <3>1, <4>1, <4>6, NodeNumbers
    <3>3. CASE m = at
      BY <3>3
    <3>. QED BY <1>2, <3>1, <3>2, <3>3, NodeNumbers
  <2>. QED BY <2>1, <2>2 DEF Below
<1>5. \A p \in Nodes : element'[p] > 0 =>
        p \in ToSet(data') \/ \E a \in ToSet(errs') : p \in Below(a)
  <2>. SUFFICES ASSUME NEW p \in Nodes, element[p] > 0
                PROVE  p \in ToSet(data') \/ \E a \in ToSet(errs') : p \in Below(a)
    BY <1>1
  <2>1. p \in ToSet(data) \/ \E a \in ToSet(errs) : p \in Below(a)
    BY DEF AbandonInv
  <2>. QED BY <1>2, <1>3, <1>4, <2>1
<1>6. \A a : Below(a)' = Below(a)
  BY DEF Below
<1>. QED BY <1>1, <1>5, <1>6 DEF AbandonInv

\* One step of the loop of resolveFields: a goroutine starts for no other field than the one
\* that goes into the linked map.
LEMMA AdvanceKeepsAbandon ==
  ASSUME WalkInv, AbandonInv, main # "start", cursor[at] <= Len(SelectionSet),
         UNCHANGED <<element, data>>,
         NEW r, resolver' = [resolver EXCEPT ![Current] = r],
         ready' = ready \/ ready' = [ready EXCEPT ![at] = Append(@, Current)],
         errs' = errs \/ errs' = Append(errs, Current),
         \/ UNCHANGED goroutine
         \/ /\ r = "async"
            /\ goroutine' = [goroutine EXCEPT ![Current] = "running"]
            /\ ready' = [ready EXCEPT ![at] = Append(@, Current)]
  PROVE  AbandonInv'
<1>. USE DEF WalkInv
<1>1. /\ at \in Frames
      /\ element[at] \in DOMAIN Elements[at]
      /\ cursor[at] \in DOMAIN SelectionSet /\ cursor[at] \in Nat
      /\ Current \in Nodes
      /\ Parent[Current] = at
  BY PlaceLemma DEF TypeOK
<1>2. goroutine[Current] = "none"
  BY <1>1 DEF Fresh, Current, SelectionSet
<1>3. /\ \A n \in Nodes : n # Current => resolver'[n] = resolver[n]
      /\ resolver'[Current] = r
      /\ \A n \in Nodes : n # Current => goroutine'[n] = goroutine[n]
      /\ \/ goroutine'[Current] = "none"
         \/ r = "async" /\ ready' = [ready EXCEPT ![at] = Append(@, Current)]
  BY <1>1, <1>2 DEF TypeOK
<1>4. /\ \A p \in Frames : ToSet(ready[p]) \subseteq ToSet(ready'[p])
      /\ ready' = [ready EXCEPT ![at] = Append(@, Current)] => Current \in ToSet(ready'[at])
  <2>1. CASE ready' = [ready EXCEPT ![at] = Append(@, Current)]
    <3>1. ready[at] \in Seq(Nodes)
      BY <1>1 DEF TypeOK
    <3>2. ready'[at] = Append(ready[at], Current) /\ \A p \in Frames : p # at => ready'[p] = ready[p]
      BY <1>1, <2>1 DEF TypeOK
    <3>3. ToSet(ready'[at]) = ToSet(ready[at]) \cup {Current}
      BY <3>1, <3>2, AppendSet
    <3>. QED BY <3>2, <3>3
  <2>2. CASE ready' # [ready EXCEPT ![at] = Append(@, Current)]
    BY <2>2
  <2>. QED BY <2>1, <2>2
<1>5. ToSet(errs) \subseteq ToSet(errs')
  <2>1. errs \in Seq(Nodes)
    BY DEF TypeOK
  <2>2. ToSet(Append(errs, Current)) = ToSet(errs) \cup {Current}
    BY <2>1, AppendSet
  <2>. QED BY <2>2
<1>6. ASSUME NEW n \in Nodes, goroutine'[n] # "none"
      PROVE  \/ resolver'[n] = "async" /\ n \in ToSet(ready'[Parent[n]])
             \/ resolver'[n] = "async" /\ goroutine'[n] = "taken"
             \/ /\ goroutine[n] # "none" /\ resolver'[n] = resolver[n]
                /\ \/ goroutine[n] = "taken" /\ goroutine'[n] = "taken"
                   \/ goroutine[n] \in {"running", "returned", "sending", "sent"}
                /\ n \in ToSet(ready[Parent[n]]) => n \in ToSet(ready'[Parent[n]])
  <2>1. CASE n = Current
    BY <1>1, <1>3, <1>4, <1>6, <2>1
  <2>2. CASE n # Current
    <3>1. goroutine[n] \in Goroutines /\ Parent[n] \in Frames
      BY TreeAssumption DEF TypeOK
    <3>. QED BY <1>3, <1>4, <1>6, <2>2, <3>1 DEF Goroutines
  <2>. QED BY <2>1, <2>2
<1>. QED BY <1>5, <1>6, AbandonGrows

\* recursiveExecute: the field that leaves the linked map has no goroutine, or its result is
\* taken.
LEMMA PopKeepsAbandon ==
  ASSUME WalkInv, AbandonInv, ready[at] # <<>>,
         NEW n, n = Head(ready[at]), TakeResult(n),
         ready' = [ready EXCEPT ![at] = Tail(@)],
         UNCHANGED resolver,
         data' = data \/ data' = Append(data, n),
         errs' = errs \/ errs' = Append(errs, n),
         \/ UNCHANGED element
         \/ element' = [element EXCEPT ![n] = 1] /\ data' = Append(data, n)
  PROVE  AbandonInv'
<1>. USE DEF WalkInv
<1>1. n \in Nodes /\ Parent[n] = at /\ at \in Frames
  BY ReadyLemma DEF TypeOK
<1>2. /\ \A p \in Frames : p # at => ready'[p] = ready[p]
      /\ ToSet(ready'[at]) = ToSet(ready[at]) \ {n}
  BY PopSets
<1>3. data \in Seq(Nodes) /\ errs \in Seq(Nodes)
  BY DEF TypeOK
<1>4. ToSet(Append(data, n)) = ToSet(data) \cup {n}
  BY <1>3, AppendSet
<1>5. ToSet(Append(errs, n)) = ToSet(errs) \cup {n}
  BY <1>3, AppendSet
<1>6. ASSUME NEW p \in Nodes, element'[p] > 0 PROVE element[p] > 0 \/ p \in ToSet(data')
  <2>1. CASE UNCHANGED element
    BY <1>6, <2>1
  <2>2. CASE element' = [element EXCEPT ![n] = 1] /\ data' = Append(data, n)
    <3>1. p # n => element'[p] = element[p]
      BY <2>2, NodeNumbers DEF TypeOK
    <3>. QED BY <1>4, <1>6, <2>2, <3>1
  <2>. QED BY <2>1, <2>2
<1>7. ASSUME NEW m \in Nodes, goroutine'[m] # "none"
      PROVE  \/ resolver'[m] = "async" /\ m \in ToSet(ready'[Parent[m]])
             \/ resolver'[m] = "async" /\ goroutine'[m] = "taken"
             \/ /\ goroutine[m] # "none" /\ resolver'[m] = resolver[m]
                /\ \/ goroutine[m] = "taken" /\ goroutine'[m] = "taken"
                   \/ goroutine[m] \in {"running", "returned", "sending", "sent"}
                /\ m \in ToSet(ready[Parent[m]]) => m \in ToSet(ready'[Parent[m]])
  <2>1. CASE m = n
    BY <1>1, <1>7, <2>1 DEF TakeResult, AbandonInv, TypeOK
  <2>2. CASE m # n
    <3>1. /\ goroutine[m] \in Goroutines /\ Parent[m] \in Frames
          /\ goroutine'[m] = goroutine[m]
      BY <1>1, <2>2, TreeAssumption DEF TypeOK, TakeResult
    <3>2. m \in ToSet(ready[Parent[m]]) => m \in ToSet(ready'[Parent[m]])
      BY <1>2, <2>2, <3>1
    <3>. QED BY <1>7, <3>1, <3>2 DEF Goroutines
  <2>. QED BY <2>1, <2>2
<1>. QED BY <1>4, <1>5, <1>6, <1>7, AbandonGrows

\* Every step keeps track of the goroutines that nobody waits for.
LEMMA AbandonStep ==
  WalkInv /\ OrderInv /\ AbandonInv /\ [Next]_vars => AbandonInv'
<1>. SUFFICES ASSUME WalkInv, OrderInv, AbandonInv, [Next]_vars PROVE AbandonInv'
  OBVIOUS
<1>. USE DEF walk, async, output
<1>0. TypeOK
  BY DEF WalkInv
<1>1. CASE Start
  <2>1. \A p \in Nodes : element'[p] = element[p]
    BY <1>0, <1>1, NodeNumbers DEF Start, TypeOK, Nodes, Root
  <2>. QED BY <1>0, <1>1, <2>1, AbandonStands DEF Start
<1>2. CASE SkipField \/ MergeField \/ NoResolver \/ ResolveDirect
  <2>1. main # "start" /\ cursor[at] <= Len(SelectionSet)
        /\ UNCHANGED <<element, data, goroutine>>
    BY <1>2 DEF SkipField, MergeField, NoResolver, ResolveDirect, Resolving
  <2>2. CASE SkipField \/ MergeField
    BY <2>1, <2>2, AdvanceKeepsAbandon DEF SkipField, MergeField
  <2>3. CASE NoResolver
    BY <2>1, <2>3, AdvanceKeepsAbandon DEF NoResolver
  <2>4. CASE ResolveDirect
    BY <2>1, <2>4, AdvanceKeepsAbandon DEF ResolveDirect, AddToReady
  <2>. QED BY <1>2, <2>2, <2>3, <2>4
<1>3. CASE StartGoroutine
  <2>1. main # "start" /\ cursor[at] <= Len(SelectionSet) /\ UNCHANGED <<element, data>>
    BY <1>3 DEF StartGoroutine, WalkInv, Entered
  <2>. QED BY <1>3, <2>1, AdvanceKeepsAbandon DEF StartGoroutine, AddToReady
<1>4. CASE WriteField \/ FailField \/ EnterField
  <2>1. data \in Seq(Nodes) /\ SubSeq(data, 1, Len(data)) = data
    BY <1>0 DEF TypeOK
  <2>2. CASE WriteField
    BY <2>2, PopKeepsAbandon DEF WriteField, Executing
  <2>3. CASE FailField
    BY <2>1, <2>3, PopKeepsAbandon DEF FailField, Executing, CutOut
  <2>4. CASE EnterField
    BY <2>4, PopKeepsAbandon DEF EnterField, Executing
  <2>. QED BY <1>4, <2>2, <2>3, <2>4
<1>5. CASE NextElement
  <2>1. \A p \in Nodes : element'[p] > 0 => element[p] > 0
    <3>1. at \in Frames /\ element[at] > 0
      BY <1>5 DEF NextElement, SelectionSetDone, Resolved, WalkInv, Entered, TypeOK
    <3>. QED BY <1>0, <1>5, <3>1 DEF NextElement, TypeOK
  <2>. QED BY <1>0, <1>5, <2>1, AbandonStands DEF NextElement
<1>6. CASE ResolvePanics
  <2>1. CASE at = Root
    BY <1>0, <1>6, <2>1, AbandonStands DEF ResolvePanics
  <2>2. CASE at # Root
    BY <1>6, <2>2, RecoverKeepsAbandon
  <2>. QED BY <2>1, <2>2
<1>7. CASE LeaveField \/ ResolveAsync \/ Answer \/ CloseStream \/ ReleaseMain \/ UNCHANGED vars
  BY <1>0, <1>7, AbandonStands
     DEF LeaveField, ResolveAsync, Answer, CloseStream, ReleaseMain, vars
<1>8. ASSUME NEW n \in Nodes, Goroutine(n) PROVE AbandonInv'
  <2>1. UNCHANGED <<element, ready, resolver, data, errs>>
    BY <1>8
       DEF Goroutine, GoroutineReturns, GoroutineReleases, GoroutineSends, GoroutineDies
  <2>2. goroutine' = goroutine \/ \E m \in Nodes, g \in Goroutines :
          /\ goroutine[m] \in {"running", "returned", "sending"}
          /\ goroutine' = [goroutine EXCEPT ![m] = g]
    BY <1>8
       DEF Goroutine, GoroutineReturns, GoroutineReleases, GoroutineSends, GoroutineDies,
           Goroutines
  <2>. QED BY <1>0, <2>1, <2>2, AbandonStands
<1>. QED BY <1>1, <1>2, <1>3, <1>4, <1>5, <1>6, <1>7, <1>8 DEF Next, Main, Terminated

-----------------------------------------------------------------------------
(* Results that are still to be taken.                                     *)

LEMMA SettleInit == Init => SettleInv
BY DEF Init, SettleInv

\* Steps that take no result and put no field into a linked map.
LEMMA SettleStands ==
  ASSUME SettleInv, UNCHANGED <<ready, resolver>>,
         \A n \in Nodes : /\ goroutine[n] # "none" => goroutine'[n] # "none"
                          /\ goroutine'[n] = "taken" => goroutine[n] = "taken"
  PROVE  SettleInv'
BY DEF SettleInv

\* One step of the loop of resolveFields: the field that goes into the linked map has no
\* goroutine yet, or one that has just started.
LEMMA AdvanceKeepsSettled ==
  ASSUME WalkInv, SettleInv, main # "start", cursor[at] <= Len(SelectionSet),
         NEW r, resolver' = [resolver EXCEPT ![Current] = r],
         ready' = ready \/ ready' = [ready EXCEPT ![at] = Append(@, Current)],
         \/ UNCHANGED goroutine /\ r # "async"
         \/ goroutine' = [goroutine EXCEPT ![Current] = "running"]
  PROVE  SettleInv'
<1>. USE DEF WalkInv
<1>1. /\ at \in Frames
      /\ element[at] \in DOMAIN Elements[at]
      /\ cursor[at] \in DOMAIN SelectionSet /\ cursor[at] \in Nat
      /\ Current \in Nodes
  BY PlaceLemma DEF TypeOK
<1>2. goroutine[Current] = "none"
  BY <1>1 DEF Fresh, Current, SelectionSet
<1>3. /\ \A n \in Nodes : n # Current =>
           resolver'[n] = resolver[n] /\ goroutine'[n] = goroutine[n]
      /\ resolver'[Current] = r
      /\ \/ goroutine'[Current] = "none" /\ r # "async"
         \/ goroutine'[Current] = "running"
  BY <1>1, <1>2 DEF TypeOK
<1>4. \A p \in Frames : ToSet(ready'[p]) \subseteq ToSet(ready[p]) \cup {Current}
  <2>1. CASE ready' = [ready EXCEPT ![at] = Append(@, Current)]
    <3>1. ready[at] \in Seq(Nodes)
      BY <1>1 DEF TypeOK
    <3>2. /\ ready'[at] = Append(ready[at], Current)
          /\ \A p \in Frames : p # at => ready'[p] = ready[p]
      BY <1>1, <2>1 DEF TypeOK
    <3>3. ToSet(ready'[at]) = ToSet(ready[at]) \cup {Current}
      BY <3>1, <3>2, AppendSet
    <3>. QED BY <3>2, <3>3
  <2>2. CASE ready' # [ready EXCEPT ![at] = Append(@, Current)]
    BY <2>2
  <2>. QED BY <2>1, <2>2
<1>5. \A n \in Nodes : Parent[n] \in Frames
  BY TreeAssumption
<1>. QED BY <1>3, <1>4, <1>5 DEF SettleInv

\* recursiveExecute: the field whose result is taken leaves its linked map.
LEMMA PopKeepsSettled ==
  ASSUME WalkInv, SettleInv, ready[at] # <<>>, TakeResult(Head(ready[at])),
         ready' = [ready EXCEPT ![at] = Tail(@)],
         UNCHANGED resolver
  PROVE  SettleInv'
<1>. DEFINE n == Head(ready[at])
<1>. USE DEF WalkInv
<1>1. n \in Nodes /\ Parent[n] = at /\ at \in Frames
  BY ReadyLemma DEF TypeOK
<1>2. /\ \A p \in Frames : p # at => ready'[p] = ready[p]
      /\ ToSet(ready'[at]) = ToSet(ready[at]) \ {n}
  BY PopSets
<1>3. \A m \in Nodes : Parent[m] \in Frames
  BY TreeAssumption
<1>4. /\ \A m \in Nodes : m # n => goroutine'[m] = goroutine[m]
      /\ goroutine'[n] \in {goroutine[n], "taken"}
  BY <1>1 DEF TakeResult, TypeOK
<1>. HIDE DEF n
<1>. QED BY <1>1, <1>2, <1>3, <1>4 DEF SettleInv

LEMMA SettleStep ==
  WalkInv /\ SettleInv /\ [Next]_vars => SettleInv'
<1>. SUFFICES ASSUME WalkInv, SettleInv, [Next]_vars PROVE SettleInv'
  OBVIOUS
<1>. USE DEF walk, async, output
<1>1. CASE SkipField \/ MergeField \/ NoResolver \/ ResolveDirect
  <2>1. main # "start" /\ cursor[at] <= Len(SelectionSet) /\ UNCHANGED goroutine
    BY <1>1 DEF SkipField, MergeField, NoResolver, ResolveDirect, Resolving
  <2>2. CASE SkipField \/ MergeField
    BY <2>1, <2>2, AdvanceKeepsSettled DEF SkipField, MergeField
  <2>3. CASE NoResolver
    BY <2>1, <2>3, AdvanceKeepsSettled DEF NoResolver
  <2>4. CASE ResolveDirect
    BY <2>1, <2>4, AdvanceKeepsSettled DEF ResolveDirect, AddToReady
  <2>. QED BY <1>1, <2>2, <2>3, <2>4
<1>2. CASE StartGoroutine
  <2>1. main # "start" /\ cursor[at] <= Len(SelectionSet)
    BY <1>2 DEF StartGoroutine, WalkInv, Entered
  <2>. QED BY <1>2, <2>1, AdvanceKeepsSettled DEF StartGoroutine, AddToReady
<1>3. CASE WriteField \/ FailField \/ EnterField
  BY <1>3, PopKeepsSettled DEF WriteField, FailField, EnterField, Executing
<1>4. CASE \/ Start \/ ResolveAsync \/ ResolvePanics \/ NextElement \/ LeaveField
           \/ Answer \/ CloseStream \/ ReleaseMain \/ UNCHANGED vars
  BY <1>4, SettleStands
     DEF Start, ResolveAsync, ResolvePanics, NextElement, LeaveField, Answer, CloseStream,
         ReleaseMain, vars
<1>5. ASSUME NEW n \in Nodes, Goroutine(n) PROVE SettleInv'
  <2>1. UNCHANGED <<ready, resolver>>
    BY <1>5
       DEF Goroutine, GoroutineReturns, GoroutineReleases, GoroutineSends, GoroutineDies
  <2>2. goroutine' = goroutine \/ \E g \in {"returned", "sending", "sent"} :
          goroutine' = [goroutine EXCEPT ![n] = g]
    BY <1>5
       DEF Goroutine, GoroutineReturns, GoroutineReleases, GoroutineSends, GoroutineDies
  <2>. QED BY <2>1, <2>2, SettleStands DEF WalkInv, TypeOK
<1>. QED BY <1>1, <1>2, <1>3, <1>4, <1>5 DEF Next, Main, Terminated

-----------------------------------------------------------------------------
(* How far main is.                                                        *)

LEMMA MainInit == Init => MainInv
BY DEF Init, MainInv

LEMMA MainStep ==
  WalkInv /\ MainInv /\ [Next]_vars => MainInv'
<1>. SUFFICES ASSUME WalkInv, MainInv, [Next]_vars PROVE MainInv'
  OBVIOUS
<1>. USE DEF walk, async, output, stream
<1>1. CASE \/ Start \/ SkipField \/ MergeField \/ NoResolver \/ ResolveDirect \/ ResolveAsync
           \/ StartGoroutine \/ ResolvePanics \/ WriteField \/ FailField \/ EnterField
           \/ NextElement \/ LeaveField
  <2>1. /\ main \notin {"close", "release", "done"}
        /\ main' \notin {"start", "close", "release", "done"}
        /\ UNCHANGED docOpen
    BY <1>1
       DEF Start, SkipField, MergeField, NoResolver, ResolveDirect, ResolveAsync, StartGoroutine,
           ResolvePanics, WriteField, FailField, EnterField, NextElement, LeaveField,
           Resolving, Executing, SelectionSetDone, Resolved
  <2>. QED BY <2>1 DEF MainInv
<1>2. CASE Answer
  BY <1>2 DEF Answer, SelectionSetDone, Resolved, MainInv, SelectionSet
<1>3. CASE CloseStream
  BY <1>3 DEF CloseStream, MainInv, SelectionSet
<1>4. CASE ReleaseMain
  BY <1>4 DEF ReleaseMain, MainInv, SelectionSet
<1>5. CASE UNCHANGED vars
  BY <1>5 DEF vars, MainInv, SelectionSet
<1>6. ASSUME NEW n \in Nodes, Goroutine(n) PROVE MainInv'
  <2>1. UNCHANGED <<main, walk, output, stream>>
    BY <1>6
       DEF Goroutine, GoroutineReturns, GoroutineReleases, GoroutineSends, GoroutineDies
  <2>2. main # "start"
    BY <1>6
       DEF Goroutine, GoroutineReturns, GoroutineReleases, GoroutineSends, GoroutineDies,
           MainInv
  <2>. QED BY <2>1, <2>2 DEF MainInv, SelectionSet
<1>. QED BY <1>1, <1>2, <1>3, <1>4, <1>5, <1>6 DEF Next, Main, Terminated

-----------------------------------------------------------------------------
(* The limiter.                                                            *)

\* The tokens of the goroutines, when one more goroutine holds one or one gives it back.
LEMMA HoldersFinite ==
  /\ IsFiniteSet(Holders)
  /\ Cardinality(Holders) \in Nat
<1>1. IsFiniteSet(Nodes)
  BY FS_Interval, TreeAssumption DEF Nodes
<1>2. IsFiniteSet(Holders)
  BY <1>1, FS_Subset DEF Holders
<1>. QED BY <1>2, FS_CardinalityType

LEMMA HolderAdded ==
  ASSUME NEW n \in Nodes, n \notin Holders, Holders' = Holders \cup {n}
  PROVE  Cardinality(Holders') = Cardinality(Holders) + 1
BY HoldersFinite, FS_AddElement

LEMMA HolderRemoved ==
  ASSUME NEW n \in Nodes, n \in Holders, Holders' = Holders \ {n}
  PROVE  Cardinality(Holders') = Cardinality(Holders) - 1
BY HoldersFinite, FS_RemoveElement

LEMMA LimiterInit == Init => LimiterInv
<1>. SUFFICES ASSUME Init PROVE LimiterInv
  OBVIOUS
<1>1. Holders = {}
  BY DEF Init, Holders
<1>2. Cardinality(Holders) = 0
  BY <1>1, FS_EmptySet
<1>3. tokens = 0 /\ MainHolds = 0
  BY DEF Init, MainHolds
<1>. QED BY <1>2, <1>3, TreeAssumption DEF LimiterInv, TokenAccounting

LEMMA LimiterStep == WalkInv /\ LimiterInv /\ [Next]_vars => LimiterInv'
<1>. SUFFICES ASSUME WalkInv, LimiterInv, [Next]_vars PROVE LimiterInv'
  OBVIOUS
<1>. USE DEF walk, async, output, stream
<1>1. /\ tokens \in Nat /\ MaxParallelism \in Nat
      /\ tokens = MainHolds + Cardinality(Holders)
      /\ tokens <= MaxParallelism
      /\ goroutine \in [Nodes -> Goroutines]
      /\ Cardinality(Holders) \in Nat
  BY HoldersFinite, TreeAssumption
     DEF WalkInv, TypeOK, LimiterInv, TokenAccounting
<1>2. CASE Start
  <2>1. tokens' = tokens + 1 /\ tokens < MaxParallelism /\ Holders' = Holders
    BY <1>2 DEF Start, Holders
  <2>2. MainHolds = 0 /\ MainHolds' = 1
    BY <1>2 DEF Start, MainHolds
  <2>. QED BY <1>1, <2>1, <2>2 DEF LimiterInv, TokenAccounting
<1>3. CASE StartGoroutine
  <2>1. /\ Current \in Nodes
        /\ goroutine[Current] = "none"
    <3>1. main # "start" /\ cursor[at] <= Len(SelectionSet)
      BY <1>3 DEF StartGoroutine, WalkInv, Entered
    <3>2. /\ at \in Frames
          /\ element[at] \in DOMAIN Elements[at]
          /\ cursor[at] \in DOMAIN Elements[at][element[at]]
          /\ Current \in Nodes
          /\ cursor[at] \in Nat
      BY <3>1, PlaceLemma DEF WalkInv, SelectionSet
    <3>. QED BY <3>2 DEF WalkInv, Fresh, Current, SelectionSet
  <2>2. /\ tokens' = tokens + 1 /\ tokens < MaxParallelism
        /\ goroutine' = [goroutine EXCEPT ![Current] = "running"]
    BY <1>3 DEF StartGoroutine
  <2>3. Current \notin Holders /\ Holders' = Holders \cup {Current}
    BY <1>1, <2>1, <2>2 DEF Holders
  <2>4. MainHolds' = MainHolds
    BY <1>3 DEF StartGoroutine, MainHolds
  <2>5. Cardinality(Holders') = Cardinality(Holders) + 1
    BY <2>1, <2>3, HolderAdded
  <2>6. MainHolds \in Nat
    BY DEF MainHolds
  <2>. QED BY <1>1, <2>2, <2>4, <2>5, <2>6 DEF LimiterInv, TokenAccounting
<1>4. CASE ReleaseMain
  <2>1. tokens' = tokens - 1 /\ Holders' = Holders
    BY <1>4 DEF ReleaseMain, Holders
  <2>2. MainHolds = 1 /\ MainHolds' = 0
    BY <1>4 DEF ReleaseMain, MainHolds
  <2>. QED BY <1>1, <2>1, <2>2 DEF LimiterInv, TokenAccounting
<1>5. ASSUME NEW n \in Nodes, GoroutineReleases(n)
      PROVE  LimiterInv'
  <2>1. /\ tokens' = tokens - 1
        /\ goroutine[n] = "returned"
        /\ goroutine' = [goroutine EXCEPT ![n] = "sending"]
        /\ MainHolds' = MainHolds
    BY <1>5 DEF GoroutineReleases, MainHolds
  <2>2. n \in Holders /\ Holders' = Holders \ {n}
    BY <1>1, <2>1 DEF Holders
  <2>3. Cardinality(Holders') = Cardinality(Holders) - 1
    BY <2>2, HolderRemoved
  <2>4. MainHolds \in Nat
    BY DEF MainHolds
  <2>. QED BY <1>1, <2>1, <2>3, <2>4 DEF LimiterInv, TokenAccounting
<1>6. ASSUME UNCHANGED tokens, Holders' = Holders, MainHolds' = MainHolds
      PROVE  LimiterInv'
  BY <1>1, <1>6 DEF LimiterInv, TokenAccounting
<1>7. CASE UNCHANGED vars
  BY <1>6, <1>7 DEF vars, Holders, MainHolds
<1>8. CASE SkipField \/ MergeField \/ NoResolver \/ ResolveDirect \/ ResolveAsync
  BY <1>6, <1>8 DEF SkipField, MergeField, NoResolver, ResolveDirect, ResolveAsync, Resolving,
                    Holders, MainHolds
<1>9. CASE ResolvePanics
  BY <1>6, <1>9 DEF ResolvePanics, Resolving, Holders, MainHolds
<1>10. ASSUME NEW n \in Nodes, TakeResult(n) PROVE Holders' = Holders
  BY <1>1, <1>10 DEF TakeResult, Settled, Holders
<1>11. CASE WriteField \/ FailField \/ EnterField
  <2>1. Head(ready[at]) \in Nodes /\ TakeResult(Head(ready[at]))
    BY <1>11, ReadyLemma
       DEF WriteField, FailField, EnterField, Executing, WalkInv, TypeOK
  <2>2. UNCHANGED <<tokens, main>>
    BY <1>11 DEF WriteField, FailField, EnterField
  <2>. QED BY <1>6, <1>10, <2>1, <2>2 DEF MainHolds
<1>12. CASE NextElement \/ LeaveField
  BY <1>6, <1>12 DEF NextElement, LeaveField, Holders, MainHolds
<1>13. CASE Answer \/ CloseStream
  BY <1>6, <1>13 DEF Answer, CloseStream, SelectionSetDone, Resolved, Holders, MainHolds
<1>14. ASSUME NEW n \in Nodes,
              GoroutineReturns(n) \/ GoroutineSends(n) \/ GoroutineDies(n)
       PROVE  LimiterInv'
  <2>1. UNCHANGED <<tokens, main>>
    BY <1>14 DEF GoroutineReturns, GoroutineSends, GoroutineDies
  <2>2. Holders' = Holders
    BY <1>1, <1>14 DEF GoroutineReturns, GoroutineSends, GoroutineDies, Holders
  <2>. QED BY <1>6, <2>1, <2>2 DEF MainHolds
<1>. QED
  BY <1>2, <1>3, <1>4, <1>5, <1>7, <1>8, <1>9, <1>11, <1>12, <1>13, <1>14
     DEF Next, Main, Goroutine, Terminated

\* The limiter holds one token for main and one for each goroutine that has still
\* to give one back, in every execution.
THEOREM TokensAccountedFor == Spec => []TokenAccounting
<1>1. Init => WalkInv /\ LimiterInv
  BY WalkInit, LimiterInit
<1>2. WalkInv /\ LimiterInv /\ [Next]_vars => WalkInv' /\ LimiterInv'
  BY WalkStep, LimiterStep
<1>3. LimiterInv => TokenAccounting
  BY DEF LimiterInv
<1>. QED BY <1>1, <1>2, <1>3, PTL DEF Spec

\* No more than MaxParallelism resolvers run at a time, main's included.
THEOREM ParallelismBounded == Spec => []ParallelismBound
<1>1. Init => WalkInv /\ LimiterInv
  BY WalkInit, LimiterInit
<1>2. WalkInv /\ LimiterInv /\ [Next]_vars => WalkInv' /\ LimiterInv'
  BY WalkStep, LimiterStep
<1>3. WalkInv /\ LimiterInv => ParallelismBound
  <2>. SUFFICES ASSUME WalkInv, LimiterInv PROVE ParallelismBound
    OBVIOUS
  <2>. DEFINE Running == {n \in Nodes : goroutine[n] = "running"}
  <2>1. Running \subseteq Holders
    BY DEF Holders
  <2>2. Cardinality(Running) <= Cardinality(Holders) /\ Cardinality(Running) \in Nat
    BY <2>1, HoldersFinite, FS_Subset, FS_CardinalityType
  <2>3. tokens = MainHolds + Cardinality(Holders) /\ tokens <= MaxParallelism
    BY DEF LimiterInv, TokenAccounting
  <2>4. MainHolds \in Nat /\ MaxParallelism \in Nat /\ Cardinality(Holders) \in Nat
    BY HoldersFinite, TreeAssumption DEF MainHolds
  <2>. HIDE DEF Running
  <2>5. MainHolds + Cardinality(Running) <= MaxParallelism
    BY <2>2, <2>3, <2>4
  <2>. QED BY <2>5 DEF ParallelismBound, Running
<1>. QED BY <1>1, <1>2, <1>3, PTL DEF Spec

-----------------------------------------------------------------------------
(* The response stream.                                                    *)

LEMMA StreamInit == Init => StreamInv /\ Stream!Init
BY DEF Init, StreamInv, Stream!Init

\* A step sends the one response, closes the stream after it, or does neither.
LEMMA StreamStep ==
  TypeOK /\ StreamInv /\ [Next]_vars =>
    StreamInv' /\ [Stream!Next]_<<Len(responses), closed>>
<1>. SUFFICES ASSUME TypeOK, StreamInv, [Next]_vars
              PROVE  StreamInv' /\ [Stream!Next]_<<Len(responses), closed>>
  OBVIOUS
<1>. USE DEF walk, async, output, stream
<1>1. responses \in Seq(Response) /\ Len(responses) \in Nat
  BY DEF TypeOK
<1>2. CASE Answer
  <2>1. Len(responses) = 0 /\ ~closed /\ main' = "close" /\ UNCHANGED closed
    BY <1>2 DEF Answer, SelectionSetDone, Resolved, StreamInv
  <2>2. Len(responses') = Len(responses) + 1
    BY <1>1, <1>2 DEF Answer
  <2>3. StreamInv'
    BY <2>1, <2>2 DEF StreamInv
  <2>4. Stream!Send
    BY <2>1, <2>2 DEF Stream!Send
  <2>. QED BY <2>3, <2>4 DEF Stream!Next
<1>3. CASE CloseStream
  <2>1. /\ main = "close" /\ main' = "release"
        /\ closed' = TRUE
        /\ UNCHANGED responses
    BY <1>3 DEF CloseStream
  <2>2. ~closed /\ Len(responses) = 1
    BY <2>1 DEF StreamInv
  <2>3. StreamInv'
    BY <2>1, <2>2 DEF StreamInv
  <2>4. Stream!Close
    BY <2>1, <2>2 DEF Stream!Close
  <2>. QED BY <2>3, <2>4 DEF Stream!Next
<1>4. ASSUME UNCHANGED <<responses, closed>>,
             main \in {"close", "release", "done"} <=> main' \in {"close", "release", "done"},
             main \in {"release", "done"} <=> main' \in {"release", "done"}
      PROVE  StreamInv' /\ [Stream!Next]_<<Len(responses), closed>>
  BY <1>4 DEF StreamInv
<1>5. CASE UNCHANGED vars
  BY <1>4, <1>5 DEF vars
<1>6. CASE Start
  BY <1>4, <1>6 DEF Start
<1>7. CASE SkipField \/ MergeField \/ NoResolver \/ ResolveDirect \/ ResolveAsync
  BY <1>4, <1>7 DEF SkipField, MergeField, NoResolver, ResolveDirect, ResolveAsync, Resolving
<1>8. CASE StartGoroutine
  BY <1>4, <1>8 DEF StartGoroutine
<1>9. CASE ResolvePanics
  BY <1>4, <1>9 DEF ResolvePanics, Resolving
<1>10. CASE WriteField \/ FailField \/ EnterField
  BY <1>4, <1>10 DEF WriteField, FailField, EnterField
<1>11. CASE NextElement \/ LeaveField
  BY <1>4, <1>11 DEF NextElement, LeaveField
<1>12. CASE ReleaseMain
  BY <1>4, <1>12 DEF ReleaseMain
<1>13. ASSUME NEW n \in Nodes, Goroutine(n)
       PROVE  UNCHANGED <<responses, closed, main>>
  BY <1>13 DEF Goroutine, GoroutineReturns, GoroutineReleases, GoroutineSends,
               GoroutineDies
<1>. QED
  BY <1>2, <1>3, <1>4, <1>5, <1>6, <1>7, <1>8, <1>9, <1>10, <1>11, <1>12, <1>13
     DEF Next, Main, Terminated

\* The execution of a query implements the response stream: one response, then the
\* close, whatever its resolvers do.
THEOREM ImplementsStream == Spec => StreamContract
<1>1. Init => WalkInv /\ StreamInv /\ Stream!Init
  BY WalkInit, StreamInit
<1>2. WalkInv /\ StreamInv /\ [Next]_vars =>
        WalkInv' /\ StreamInv' /\ [Stream!Next]_<<Len(responses), closed>>
  BY WalkStep, StreamStep DEF WalkInv
<1>. QED BY <1>1, <1>2, PTL DEF Spec, StreamContract, Stream!Spec

-----------------------------------------------------------------------------
(* What the response says when it is sent.                                 *)

\* At the end of Execute nothing is left to be executed.
LEMMA NothingPending ==
  ASSUME QueryInv, main \in {"close", "release", "done"}
  PROVE  /\ at = Root /\ main # "start" /\ element[Root] > 0 /\ ready[Root] = <<>>
         /\ \A p \in Live : Ahead(p) \cup ToSet(ready[p]) = {}
<1>. USE DEF QueryInv, WalkInv
<1>1. /\ at = Root /\ main # "start"
      /\ cursor[Root] > Len(SelectionSet) /\ ready[Root] = <<>>
  BY DEF MainInv
<1>2. element[Root] > 0 /\ element[Root] = Len(Elements[Root])
  <2>1. Root \in Frames /\ element[Root] > 0 /\ element[Root] <= Len(Elements[Root])
    BY <1>1, NodeNumbers DEF Entered, TypeOK
  <2>. QED BY <2>1, TreeAssumption DEF TypeOK
<1>3. Ahead(Root) = {} /\ ToSet(ready[Root]) = {}
  <2>1. Ahead(Root) = {}
    BY <1>1, <1>2, NothingAhead
  <2>. QED BY <1>1, <2>1 DEF ToSet
<1>4. ASSUME NEW p \in Live, NEW x \in Ahead(p) \cup ToSet(ready[p]) PROVE FALSE
  <2>1. p <= Root /\ p \in Frames
    BY <1>1, <1>4 DEF OrderInv, Live
  <2>2. p = Root
    BY <2>1, NodeNumbers
  <2>. QED BY <1>3, <1>4, <2>2
<1>. QED BY <1>1, <1>2, <1>4

\* The response accounts for every selection.
LEMMA QueryAccounts == QueryInv => ResponseAccountsForEveryField
<1>. DEFINE Ways(n) == { w \in {"data", "errs", "skipped", "merged"} :
               \/ w = "data" /\ n \in ToSet(data)
               \/ w = "errs" /\ n \in ToSet(errs)
               \/ w \in {"skipped", "merged"} /\ resolver[n] = w }
<1>. SUFFICES ASSUME QueryInv, responses # <<>>
              PROVE  /\ IsInjective(errs)
                     /\ \A n \in Nodes : Selected(n) => Cardinality(Ways(n)) = 1
                     /\ \A n \in Nodes : Selected(n) /\ resolver[n] = "merged" =>
                          \E m \in ToSet(data) \cup ToSet(errs) :
                            Key[m] = Key[n] /\ resolver[m] # "missing"
                     /\ \A m, n \in ToSet(data) : Key[m] = Key[n] => m = n
  BY DEF ResponseAccountsForEveryField
<1>. HIDE DEF Ways
<1>. USE DEF QueryInv, WalkInv
<1>1. main \in {"close", "release", "done"}
  <2>1. responses \in Seq(Response)
    BY DEF TypeOK
  <2>2. Len(responses) # 0
    BY <2>1
  <2>. QED BY <2>2 DEF StreamInv
<1>2. /\ element[Root] > 0
      /\ \A p \in Live : Ahead(p) \cup ToSet(ready[p]) = {}
  BY <1>1, NothingPending
<1>3. ASSUME NEW n \in Nodes, Parent[n] \in Live
      PROVE  n \in ToSet(data) \cup ToSet(errs) \/ resolver[n] \in {"skipped", "merged"}
  BY <1>2, <1>3 DEF AccountInv
<1>4. \A n \in Nodes : Selected(n) => Parent[n] \in Live
  BY <1>2, TreeAssumption DEF Selected, Live
<1>5. ASSUME NEW n \in Nodes, Selected(n)
      PROVE  Cardinality(Ways(n)) = 1
  <2>1. n \in ToSet(data) \cup ToSet(errs) \/ resolver[n] \in {"skipped", "merged"}
    BY <1>3, <1>4, <1>5
  <2>2. /\ n \in ToSet(data) => n \notin ToSet(errs) /\ resolver[n] \notin {"skipped", "merged"}
        /\ n \in ToSet(errs) => resolver[n] \notin {"skipped", "merged"}
    BY DEF AccountInv
  <2>3. Ways(n) \in {{"data"}, {"errs"}, {"skipped"}, {"merged"}}
    BY <2>1, <2>2 DEF Ways
  <2>. QED BY <2>3, FS_Singleton
<1>6. ASSUME NEW n \in Nodes, Selected(n), resolver[n] = "merged"
      PROVE  \E m \in ToSet(data) \cup ToSet(errs) : Key[m] = Key[n] /\ resolver[m] # "missing"
  <2>1. PICK m \in Nodes : Key[m] = Key[n] /\ resolver[m] \in {"direct", "async"}
    BY <1>6 DEF KeyInv, AliasResolved
  <2>2. Parent[m] = Parent[n]
    BY <2>1, TreeAssumption
  <2>3. m \in ToSet(data) \cup ToSet(errs)
    BY <1>3, <1>4, <1>6, <2>1, <2>2
  <2>. QED BY <2>1, <2>3
<1>7. ASSUME NEW m \in ToSet(data), NEW n \in ToSet(data), Key[m] = Key[n]
      PROVE  m = n
  <2>1. m \in Nodes /\ n \in Nodes
    BY PlacesTyped
  <2>2. resolver[m] \in {"direct", "async"} /\ resolver[n] \in {"direct", "async"}
    BY DEF AccountInv
  <2>. QED BY <1>7, <2>1, <2>2 DEF KeyInv
<1>. QED BY <1>5, <1>6, <1>7 DEF AccountInv

\* The goroutines that the closed document has left are nobody's.
LEMMA QueryAbandons == QueryInv => ClosedDocReadOnlyByAbandoned
<1>. SUFFICES ASSUME QueryInv, NEW n \in Holders, ~docOpen PROVE Abandoned(n)
  BY DEF ClosedDocReadOnlyByAbandoned
<1>. USE DEF QueryInv, WalkInv
<1>1. main \in {"close", "release", "done"}
  BY DEF MainInv
<1>2. /\ at = Root /\ ready[Root] = <<>>
      /\ \A p \in Live : Ahead(p) \cup ToSet(ready[p]) = {}
  BY <1>1, NothingPending
<1>3. /\ n \in Nodes
      /\ n \in ToSet(ready[Parent[n]])
      /\ Parent[n] \in Frames
  BY TreeAssumption DEF Holders, AbandonInv
<1>4. Parent[n] # Root /\ Parent[n] \in Nodes /\ element[Parent[n]] > 0
  <2>1. ready[Parent[n]] # <<>>
    BY <1>3 DEF ToSet
  <2>2. Parent[n] # Root
    BY <1>2, <2>1
  <2>. QED BY <1>3, <2>1, <2>2 DEF ReadyVisited, Frames, Nodes, Root
<1>5. Parent[n] \notin ToSet(data)
  BY <1>2, <1>3, <1>4 DEF Live
<1>6. PICK a \in ToSet(errs) : Parent[n] \in Below(a)
  BY <1>4, <1>5 DEF AbandonInv
<1>7. n \in Below(a)
  <2>1. PICK S \in SUBSET Nodes : Parent[n] \in S /\ \A m \in S : m = a \/ Parent[m] \in S
    BY <1>6 DEF Below
  <2>2. S \cup {n} \in SUBSET Nodes
    BY <1>3
  <2>3. \A m \in S \cup {n} : m = a \/ Parent[m] \in S \cup {n}
    BY <2>1
  <2>. QED BY <1>3, <2>2, <2>3 DEF Below
<1>8. n # a
  BY <1>3, <1>6 DEF AccountInv
<1>. QED BY <1>6, <1>7, <1>8 DEF Abandoned

LEMMA QueryStep == QueryInv /\ [Next]_vars => QueryInv'
BY WalkStep, OrderStep, AccountStep, KeyStep, AbandonStep, SettleStep, MainStep, StreamStep
   DEF QueryInv, WalkInv

\* The inductive invariant of the response: whatever the tree of fields, the bound and the
\* interleaving, the walk, the buffer, the error list and the goroutines stay in step
\* (resolveFields, recursiveExecute, executeSelected, RunAsync).
THEOREM QueryInvariant == Spec => []QueryInv
<1>1. Init => QueryInv
  BY WalkInit, OrderInit, AccountInit, KeyInit, AbandonInit, SettleInit, MainInit, StreamInit
     DEF QueryInv
<1>. QED BY <1>1, QueryStep, PTL DEF Spec

\* The keys stand in the document order of the selections that were resolved and none is
\* written twice, whatever order the goroutines of the resolvers finish in (resolveFields,
\* recursiveExecute).
THEOREM KeysInDocumentOrder == Spec => []DataInDocumentOrder
<1>1. QueryInv => DataInDocumentOrder
  BY DEF QueryInv, OrderInv
<1>. QED BY <1>1, QueryInvariant, PTL

\* Every selection below a field of the response has its key, one error, was excluded, or
\* was merged into another that was resolved and has a key or an error, and is in one of these
\* alone; no object has a key twice (resolveFields, recursiveExecute, executeSelected).  This
\* counts selections, as the code does that reports an alias again for each selection of it
\* that finds no resolver.
THEOREM EveryFieldAccountedFor == Spec => []ResponseAccountsForEveryField
BY QueryInvariant, QueryAccounts, PTL

\* After the document's selections are back in the pool only goroutines of fields below a
\* field that failed still read them (RunAsync, FireSubscriptionClose).
THEOREM ReadersOfClosedDocAbandoned == Spec => []ClosedDocReadOnlyByAbandoned
BY QueryInvariant, QueryAbandons, PTL

\* Nobody waits for ever: whoever waits for the limiter or for a result waits for a goroutine
\* that is on its way and does not wait itself (Execute, RunAsync, recursiveExecute).
THEOREM EveryWaitEnds == Spec => []WaitsEnd
<1>1. Init => LimiterInv
  BY WalkInit, LimiterInit
<1>2. QueryInv /\ LimiterInv /\ [Next]_vars => LimiterInv'
  BY LimiterStep DEF QueryInv
<1>3. QueryInv /\ LimiterInv => WaitsEnd
  <2>. SUFFICES ASSUME QueryInv, LimiterInv PROVE WaitsEnd
    OBVIOUS
  <2>. USE DEF QueryInv, WalkInv
  <2>1. /\ tokens = MainHolds + Cardinality(Holders)
        /\ MainHolds \in {0, 1}
        /\ Cardinality(Holders) \in Nat
        /\ MaxParallelism \in Nat
    BY HoldersFinite, TreeAssumption DEF LimiterInv, TokenAccounting, MainHolds
  <2>2. Holders # {} => Cardinality(Holders) > 0
    BY <2>1, HoldersFinite, FS_EmptySet
  <2>3. Holders = {} => Cardinality(Holders) = 0
    BY FS_EmptySet
  <2>4. ASSUME NEW n \in Nodes, goroutine[n] = "returned" PROVE tokens > 0
    BY <2>1, <2>2, <2>4 DEF Holders
  <2>5. main = "release" => tokens > 0
    BY <2>1 DEF MainHolds
  <2>6. main = "start" => Holders = {}
    BY DEF MainInv, Holders
  <2>7. main = "start" /\ MaxParallelism > 0 => tokens < MaxParallelism
    BY <2>1, <2>3, <2>6 DEF MainHolds
  <2>8. main = "acquire" /\ MaxParallelism > 1 => tokens < MaxParallelism \/ Holders # {}
    BY <2>1, <2>3 DEF MainHolds
  <2>9. ASSUME Executing, NEW n, n = Head(ready[at])
        PROVE  Settled(n) \/ goroutine[n] \in {"running", "returned", "sending"}
    <3>1. n \in Nodes /\ Parent[n] = at /\ at \in Frames /\ n = ready[at][1]
          /\ 1 \in DOMAIN ready[at]
      BY <2>9, ReadyLemma DEF Executing, TypeOK
    <3>2. n \in ToSet(ready[Parent[n]])
      BY <3>1 DEF ToSet
    <3>3. goroutine[n] \in Goroutines
      BY <3>1 DEF TypeOK
    <3>. QED BY <3>1, <3>2, <3>3 DEF SettleInv, Settled, Goroutines
  <2>. QED BY <2>4, <2>5, <2>7, <2>8, <2>9 DEF WaitsEnd
<1>. QED BY <1>1, <1>2, <1>3, QueryInvariant, PTL DEF Spec

-----------------------------------------------------------------------------
(* What an execution has still to do.                                      *)

LEMMA SetsFinite ==
  /\ IsFiniteSet(Nodes)
  /\ \A S \in SUBSET Nodes : IsFiniteSet(S) /\ Cardinality(S) \in Nat
<1>1. IsFiniteSet(Nodes)
  BY FS_Interval, TreeAssumption DEF Nodes
<1>2. \A S \in SUBSET Nodes : IsFiniteSet(S)
  BY <1>1, FS_Subset
<1>. QED BY <1>1, <1>2, FS_CardinalityType

\* What is left is counted by natural numbers.
LEMMA LeftTyped ==
  ASSUME TypeOK, Entered
  PROVE  \A i \in DOMAIN Left : Left[i] \in Nat
<1>1. /\ Cardinality(Unresolved) \in Nat
      /\ Cardinality(Waiting) \in Nat
      /\ \A g : Cardinality(Stage(g)) \in Nat
  BY SetsFinite DEF Unresolved, Waiting, Stage
<1>2. at \in Nat
  BY NodeNumbers, TreeAssumption DEF TypeOK, Frames, Root
<1>3. Len(Elements[at]) - element[at] \in Nat
  <2>1. at \in Frames /\ element[at] \in Nat /\ element[at] <= Len(Elements[at])
    BY DEF TypeOK, Entered
  <2>2. Elements[at] \in Seq(Seq(Nodes))
    BY <2>1, TreeAssumption
  <2>3. Len(Elements[at]) \in Nat
    BY <2>2
  <2>. QED BY <2>1, <2>3
<1>4. MainLeft \in Nat
  BY DEF MainLeft, TypeOK, Mains
<1>5. DOMAIN Left = 1..9
  BY DEF Left
<1>6. /\ Left[1] = Cardinality(Unresolved) /\ Left[2] = Cardinality(Waiting)
      /\ Left[3] = at /\ Left[4] = Len(Elements[at]) - element[at] /\ Left[5] = MainLeft
      /\ Left[6] = Cardinality(Stage("running")) /\ Left[7] = Cardinality(Stage("returned"))
      /\ Left[8] = Cardinality(Stage("sending")) /\ Left[9] = IF crashed THEN 0 ELSE 1
  BY DEF Left
<1>7. /\ Left[1] \in Nat /\ Left[2] \in Nat /\ Left[3] \in Nat
      /\ Left[4] \in Nat /\ Left[5] \in Nat /\ Left[6] \in Nat
      /\ Left[7] \in Nat /\ Left[8] \in Nat /\ Left[9] \in Nat
  BY <1>1, <1>2, <1>3, <1>4, <1>6
<1>. QED BY <1>5, <1>7

\* One field less in a set of fields.
LEMMA OneFewer ==
  ASSUME NEW S \in SUBSET Nodes, NEW n \in S
  PROVE  Cardinality(S \ {n}) < Cardinality(S)
<1>1. IsFiniteSet(S) /\ Cardinality(S) \in Nat
  BY SetsFinite
<1>2. Cardinality(S \ {n}) = Cardinality(S) - 1
  BY <1>1, FS_RemoveElement
<1>. QED BY <1>1, <1>2

\* The loop of resolveFields passes a field that was not resolved before.
LEMMA PassedIsResolved ==
  ASSUME WalkInv, AccountInv, main # "start", cursor[at] <= Len(SelectionSet),
         NEW r \in Resolvers \ {"none"}, resolver' = [resolver EXCEPT ![Current] = r]
  PROVE  Cardinality(Unresolved') < Cardinality(Unresolved)
<1>. USE DEF WalkInv
<1>1. /\ at \in Frames
      /\ element[at] \in DOMAIN Elements[at]
      /\ cursor[at] \in DOMAIN SelectionSet /\ cursor[at] \in Nat
      /\ Current \in Nodes /\ Parent[Current] = at
  BY PlaceLemma DEF TypeOK
<1>2. Current \in Ahead(at)
  BY <1>1 DEF Ahead, Current, SelectionSet
<1>3. resolver[Current] = "none"
  BY <1>1, <1>2 DEF AccountInv
<1>4. Current \in Unresolved /\ Unresolved' = Unresolved \ {Current}
  BY <1>1, <1>3 DEF Unresolved, TypeOK
<1>. QED BY <1>4, OneFewer DEF Unresolved

\* recursiveExecute takes a field out of its linked map.
LEMMA ExecutedIsGone ==
  ASSUME WalkInv, ready[at] # <<>>, ready' = [ready EXCEPT ![at] = Tail(@)]
  PROVE  Cardinality(Waiting') < Cardinality(Waiting)
<1>. DEFINE n == Head(ready[at])
<1>. USE DEF WalkInv
<1>1. n \in Nodes /\ Parent[n] = at /\ at \in Frames /\ n = ready[at][1] /\ 1 \in DOMAIN ready[at]
  BY ReadyLemma DEF TypeOK
<1>2. /\ \A p \in Frames : p # at => ready'[p] = ready[p]
      /\ ToSet(ready'[at]) = ToSet(ready[at]) \ {n}
  BY PopSets
<1>3. n \in ToSet(ready[at])
  BY <1>1 DEF ToSet
<1>4. \A m \in Nodes : Parent[m] \in Frames
  BY TreeAssumption
<1>. HIDE DEF n
<1>5. n \in Waiting /\ Waiting' = Waiting \ {n}
  BY <1>1, <1>2, <1>3, <1>4 DEF Waiting
<1>. QED BY <1>5, OneFewer DEF Waiting

\* A goroutine leaves a stage.
LEMMA StageLeft ==
  ASSUME TypeOK, NEW n \in Nodes, NEW g \in Goroutines, NEW h \in Goroutines, h # g,
         goroutine[n] = g, goroutine' = [goroutine EXCEPT ![n] = h]
  PROVE  /\ Cardinality(Stage(g)') < Cardinality(Stage(g))
         /\ \A f : f # g /\ f # h => Stage(f)' = Stage(f)
<1>1. n \in Stage(g) /\ Stage(g)' = Stage(g) \ {n}
  BY DEF Stage, TypeOK
<1>2. \A f : f # g /\ f # h => Stage(f)' = Stage(f)
  BY DEF Stage, TypeOK
<1>. QED BY <1>1, <1>2, OneFewer DEF Stage

\* What it takes to have less to do.
LEMMA LessLeft ==
  /\ DOMAIN Left = 1..9
  /\ \A k \in 1..9 :
       Left'[k] < Left[k] /\ (\A j \in 1..(k - 1) : Left'[j] = Left[j]) => Less(Left', Left)
  /\ Cardinality(Unresolved') < Cardinality(Unresolved) => Left'[1] < Left[1]
  /\ UNCHANGED resolver => Left'[1] = Left[1]
  /\ Cardinality(Waiting') < Cardinality(Waiting) => Left'[2] < Left[2]
  /\ UNCHANGED ready => Left'[2] = Left[2]
  /\ Left[3] = at /\ Left'[3] = at'
  /\ Left[4] = Len(Elements[at]) - element[at] /\ Left'[4] = Len(Elements[at']) - element'[at']
  /\ Left[5] = MainLeft /\ Left'[5] = MainLeft'
  /\ UNCHANGED main => Left'[5] = Left[5]
  /\ Left[6] = Cardinality(Stage("running")) /\ Left'[6] = Cardinality(Stage("running")')
  /\ Left[7] = Cardinality(Stage("returned")) /\ Left'[7] = Cardinality(Stage("returned")')
  /\ Left[8] = Cardinality(Stage("sending")) /\ Left'[8] = Cardinality(Stage("sending")')
  /\ UNCHANGED goroutine => Left'[6] = Left[6] /\ Left'[7] = Left[7] /\ Left'[8] = Left[8]
  /\ ~crashed /\ crashed' => Left'[9] < Left[9]
<1>1. DOMAIN Left = 1..9
  BY DEF Left
<1>2. \A k \in 1..9 :
        Left'[k] < Left[k] /\ (\A j \in 1..(k - 1) : Left'[j] = Left[j]) => Less(Left', Left)
  BY <1>1 DEF Less
<1>3. /\ UNCHANGED resolver => Unresolved' = Unresolved
      /\ UNCHANGED ready => Waiting' = Waiting
      /\ UNCHANGED main => MainLeft' = MainLeft
      /\ UNCHANGED goroutine => \A g : Stage(g)' = Stage(g)
  BY DEF Unresolved, Waiting, MainLeft, Stage
<1>4. /\ Left[1] = Cardinality(Unresolved) /\ Left'[1] = Cardinality(Unresolved')
      /\ Left[2] = Cardinality(Waiting) /\ Left'[2] = Cardinality(Waiting')
      /\ Left[3] = at /\ Left'[3] = at'
      /\ Left[4] = Len(Elements[at]) - element[at]
      /\ Left'[4] = Len(Elements[at']) - element'[at']
      /\ Left[5] = MainLeft /\ Left'[5] = MainLeft'
      /\ Left[6] = Cardinality(Stage("running")) /\ Left'[6] = Cardinality(Stage("running")')
      /\ Left[7] = Cardinality(Stage("returned")) /\ Left'[7] = Cardinality(Stage("returned")')
      /\ Left[8] = Cardinality(Stage("sending")) /\ Left'[8] = Cardinality(Stage("sending")')
      /\ Left[9] = (IF crashed THEN 0 ELSE 1) /\ Left'[9] = (IF crashed' THEN 0 ELSE 1)
  BY DEF Left
<1>. QED BY <1>1, <1>2, <1>3, <1>4

\* A step of the walk, by what it changes first.
LEMMA CloserStep ==
  ASSUME WalkInv, AccountInv, Next, ~UNCHANGED vars
  PROVE  Less(Left', Left)
<1>. USE DEF WalkInv, walk, async, output, stream
<1>0. at \in Frames /\ at \in Int
  BY NodeNumbers DEF TypeOK
<1>1. CASE SkipField \/ MergeField \/ NoResolver \/ ResolveDirect \/ StartGoroutine
  <2>1. main # "start" /\ cursor[at] <= Len(SelectionSet)
    BY <1>1
       DEF SkipField, MergeField, NoResolver, ResolveDirect, StartGoroutine, Resolving, Entered
  <2>2. \E r \in Resolvers \ {"none"} : resolver' = [resolver EXCEPT ![Current] = r]
    BY <1>1 DEF SkipField, MergeField, NoResolver, ResolveDirect, StartGoroutine, Resolvers
  <2>3. Left'[1] < Left[1]
    BY <2>1, <2>2, PassedIsResolved, LessLeft
  <2>. QED BY <2>3, LessLeft
<1>2. CASE WriteField \/ FailField \/ EnterField
  <2>1. ready[at] # <<>> /\ ready' = [ready EXCEPT ![at] = Tail(@)] /\ UNCHANGED resolver
    BY <1>2 DEF WriteField, FailField, EnterField, Executing
  <2>2. Left'[2] < Left[2] /\ Left'[1] = Left[1]
    BY <2>1, ExecutedIsGone, LessLeft
  <2>. QED BY <2>2, LessLeft
<1>3. CASE LeaveField \/ (ResolvePanics /\ at # Root)
  <2>1. at # Root /\ at' = Parent[at] /\ UNCHANGED <<resolver, ready>>
    BY <1>3 DEF LeaveField, ResolvePanics
  <2>2. at' < at
    BY <1>0, <2>1, NodeNumbers DEF Frames, Nodes, Root
  <2>3. Left'[3] < Left[3] /\ Left'[1] = Left[1] /\ Left'[2] = Left[2]
    BY <2>1, <2>2, LessLeft
  <2>. QED BY <2>3, LessLeft
<1>4. CASE Start \/ NextElement
  <2>1. /\ UNCHANGED <<at, resolver, ready>>
        /\ element' = [element EXCEPT ![at] = element[at] + 1]
    BY <1>4 DEF Start, NextElement, Entered
  <2>2. element'[at] = element[at] + 1 /\ element[at] \in Nat
    BY <1>0, <2>1 DEF TypeOK
  <2>3. Len(Elements[at]) \in Nat
    BY <1>0, TreeAssumption
  <2>4. Len(Elements[at']) - element'[at'] < Len(Elements[at]) - element[at]
    BY <2>1, <2>2, <2>3
  <2>5. /\ Left'[4] < Left[4]
        /\ Left'[1] = Left[1] /\ Left'[2] = Left[2] /\ Left'[3] = Left[3]
    BY <2>1, <2>4, LessLeft
  <2>. QED BY <2>5, LessLeft
<1>5. CASE \/ ResolveAsync \/ Answer \/ CloseStream \/ ReleaseMain
           \/ (ResolvePanics /\ at = Root)
  <2>1. UNCHANGED <<at, element, resolver, ready>>
    BY <1>5 DEF ResolveAsync, Answer, CloseStream, ReleaseMain, ResolvePanics
  <2>2. MainLeft' < MainLeft
    BY <1>5
       DEF ResolveAsync, Answer, CloseStream, ReleaseMain, ResolvePanics, Resolving,
           SelectionSetDone, Resolved, MainLeft
  <2>3. /\ Left'[5] < Left[5]
        /\ Left'[1] = Left[1] /\ Left'[2] = Left[2] /\ Left'[3] = Left[3] /\ Left'[4] = Left[4]
    BY <2>1, <2>2, LessLeft
  <2>. QED BY <2>3, LessLeft
<1>6. ASSUME NEW n \in Nodes, ~crashed, Goroutine(n)
      PROVE  Less(Left', Left)
  <2>1. UNCHANGED <<main, at, element, resolver, ready>>
    BY <1>6
       DEF Goroutine, GoroutineReturns, GoroutineReleases, GoroutineSends, GoroutineDies
  <2>2. /\ Left'[1] = Left[1] /\ Left'[2] = Left[2] /\ Left'[3] = Left[3]
        /\ Left'[4] = Left[4] /\ Left'[5] = Left[5]
    BY <2>1, LessLeft
  <2>3. CASE GoroutineReturns(n)
    <3>1. Left'[6] < Left[6]
      BY <2>3, StageLeft, LessLeft DEF GoroutineReturns, Goroutines
    <3>. QED BY <2>2, <3>1, LessLeft
  <2>4. CASE GoroutineReleases(n)
    <3>1. /\ Cardinality(Stage("returned")') < Cardinality(Stage("returned"))
          /\ Stage("running")' = Stage("running")
      BY <2>4, StageLeft DEF GoroutineReleases, Goroutines
    <3>2. Left'[7] < Left[7] /\ Left'[6] = Left[6]
      BY <3>1, LessLeft
    <3>. QED BY <2>2, <3>2, LessLeft
  <2>5. CASE GoroutineSends(n)
    <3>1. /\ Cardinality(Stage("sending")') < Cardinality(Stage("sending"))
          /\ Stage("running")' = Stage("running")
          /\ Stage("returned")' = Stage("returned")
      BY <2>5, StageLeft DEF GoroutineSends, Goroutines
    <3>2. Left'[8] < Left[8] /\ Left'[6] = Left[6] /\ Left'[7] = Left[7]
      BY <3>1, LessLeft
    <3>. QED BY <2>2, <3>2, LessLeft
  <2>6. CASE GoroutineDies(n)
    <3>1. ~crashed /\ crashed' /\ UNCHANGED goroutine
      BY <1>6, <2>6 DEF GoroutineDies
    <3>2. Left'[9] < Left[9] /\ Left'[6] = Left[6] /\ Left'[7] = Left[7] /\ Left'[8] = Left[8]
      BY <3>1, LessLeft
    <3>. QED BY <2>2, <3>2, LessLeft
  <2>. QED BY <1>6, <2>3, <2>4, <2>5, <2>6 DEF Goroutine
<1>. QED BY <1>1, <1>2, <1>3, <1>4, <1>5, <1>6 DEF Next, Main, Goroutine, Terminated

\* Every step leaves less to do, in an order without infinite descent, so that an execution
\* takes finitely many steps for every tree, every bound and every interleaving
\* (resolveFields, recursiveExecute, writeList, RunAsync).
THEOREM EveryStepCloser == Spec => AlwaysCloser
<1>1. QueryInv /\ [Next]_vars => [Less(Left', Left)]_vars
  BY CloserStep DEF QueryInv
<1>. QED BY <1>1, QueryInvariant, PTL DEF Spec, AlwaysCloser

\* What is left is a tuple of natural numbers, on which the order of Less is well-founded.
THEOREM LeftIsCounted == Spec => [](\A i \in DOMAIN Left : Left[i] \in Nat)
<1>1. QueryInv => \A i \in DOMAIN Left : Left[i] \in Nat
  BY LeftTyped DEF QueryInv, WalkInv
<1>. QED BY <1>1, QueryInvariant, PTL
=============================================================================
