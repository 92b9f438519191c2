------------------------------- MODULE GoValues -------------------------------
(***************************************************************************)
(* Go types and values, as far as the resolvers look at them.  A type is a *)
(* name, described by Declared the way package reflect describes it:       *)
(*   kind     "struct", "ptr", "interface", "map", "slice", a basic kind   *)
(*   elem     of a pointer or slice: the type it is of                     *)
(*   fields   of a struct: name, exported, anonymous, type and json tag,   *)
(*            which is "" when there is none                               *)
(*   methods  sorted by name: the name, the same in lower case, the types  *)
(*            it takes after its receiver and the types it returns         *)
(***************************************************************************)
EXTENDS Integers, Sequences, TLC

CONSTANT Declared \* [type names -> descriptions]: the types of the program

\* The types of every program.
BasicTypes ==
  [t \in {"string", "int", "int32", "float64", "bool"} |-> [kind |-> t, methods |-> <<>>]]
  @@ [t \in {"error", "context.Context", "ExecutionContext"} |->
        [kind |-> "interface", methods |-> <<>>]]

GoType == BasicTypes @@ Declared

Kind(t) == GoType[t].kind

\* An unnamed pointer is followed.
unwrapIfPtr(t) == IF Kind(t) = "ptr" THEN GoType[t].elem ELSE t

(***************************************************************************)
(* Values: the type, and what can be reached from them.  elem is empty for *)
(* a nil pointer; entries are those of a map; is names the casts that say  *)
(* yes.                                                                    *)
(***************************************************************************)
Invalid == [type |-> "invalid"]
IsValid(v) == v # Invalid
KindOf(v) == IF IsValid(v) THEN Kind(v.type) ELSE "invalid"

\* What is followed to the value it stands for.
Points(v) == KindOf(v) \in {"ptr", "interface"}

Elem(v) == IF v.elem = <<>> THEN Invalid ELSE v.elem[1]
=============================================================================
