-------------------------- MODULE MCQueryExecution --------------------------
(***************************************************************************)
(* Instances of QueryExecution for TLC: small trees that have the shapes   *)
(* that matter.                                                            *)
(***************************************************************************)
EXTENDS QueryExecution

\* { a { l { x } y y } }: an object that holds a list of two elements, and after it an alias
\* that is selected twice.
TreeParent   == <<0, 1, 2, 2, 1, 1>>
TreeKey      == <<1, 2, 3, 4, 5, 5>>
TreeElements == 0 :> <<<<1>>>> @@ 1 :> <<<<2, 5, 6>>>> @@ 2 :> <<<<3>>, <<4>>>>
                @@ [n \in 3..6 |-> <<>>]

\* { a b }: two fields of the root.
FlatParent   == <<0, 0>>
FlatKey      == <<1, 2>>
FlatElements == 0 :> <<<<1, 2>>>> @@ 1 :> <<>> @@ 2 :> <<>>
=============================================================================
