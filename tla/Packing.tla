------------------------------- MODULE Packing -------------------------------
(***************************************************************************)
(* internal/exec/packer: the arguments of a field as the struct that the   *)
(* resolver's method takes.  A schema type is                              *)
(*   [k |-> "NonNull" | "List", of |-> type]                               *)
(*   [k |-> "Scalar" | "Enum" | "Object", name |-> name]                   *)
(*   [k |-> "InputObject", name |-> name, fields |-> input values]         *)
(* an input value has a name, a type and at most one default.  What is     *)
(* packed, and the Go value that comes of it, is a record whose k tells its*)
(* kind: "nil", "int32", "int", "float64", "string", "bool", "list" or     *)
(* "map"; a packed value may be a "ptr" and a "struct" as well.  A number  *)
(* is given as twice its value, so that a float can have a half.           *)
(***************************************************************************)
EXTENDS GoTypes

CONSTANTS
  MaxInt32,     \* the largest number of an int32
  MaxExact,     \* up to here a float64 has every integer: a power of two
  Unmarshalers, \* [names of Go types that unmarshal -> [type: the schema type they
                \* take, refuses: the values they return an error for]]
  SameField     \* SameField[a]: the Go field names that are a but for case and "_"

ASSUME MaxInt32Assumption == MaxInt32 \in Nat /\ MaxInt32 < MaxExact
ASSUME MaxExactAssumption == MaxExact \in Nat /\ MaxExact % 4 = 0

nil == [k |-> "nil"]
Fails == [k |-> "error"]
Panicked == [k |-> "panic"]
Failed(v) == v \in {Fails, Panicked}

\* Values that are packed one after the other: one of the first i failed; what comes of
\* them, which is the first that failed, or else F of them all.
FailedUpTo(s, i) == \E j \in 1 .. i : Failed(s[j])
InTurn(s, F(_)) ==
  IF ~FailedUpTo(s, Len(s)) THEN F(s)
  ELSE s[CHOOSE i \in DOMAIN s : Failed(s[i]) /\ ~FailedUpTo(s, i - 1)]

unwrapNonNull(t) == IF t.k = "NonNull" THEN t.of ELSE t

\* The field of a Go struct that takes an argument; 0 when there is none, or
\* more than one.  Structs of arguments embed no others here.
FieldByName(g, name) ==
  LET fields == GoType[g].fields
      fits == {i \in DOMAIN fields : fields[i].name \in SameField[name]}
  IN  IF Cardinality(fits) = 1 THEN CHOOSE i \in fits : TRUE ELSE 0

TypeOfField(g, value) == GoType[unwrapIfPtr(g)].fields[FieldByName(unwrapIfPtr(g), value.name)].type

\* An argument that has a default is never null.
TypeOfArgument(value) ==
  IF value.default = <<>> THEN value.type
  ELSE [k |-> "NonNull", of |-> unwrapNonNull(value.type)]

(***************************************************************************)
(* MakeStructPacker: whether arguments of these types fit a Go type.       *)
(***************************************************************************)
RECURSIVE Packs(_, _), PacksStruct(_, _)

PacksNonNull(t, g) ==
  IF g \in DOMAIN Unmarshalers THEN "name" \in DOMAIN t /\ Unmarshalers[g].type = t.name
  ELSE CASE t.k = "Scalar" -> TRUE
         [] t.k = "Enum" -> Kind(g) = "string"
         [] t.k = "InputObject" -> PacksStruct(t.fields, g)
         [] t.k = "List" -> Kind(g) = "slice" /\ Packs(t.of, GoType[g].elem)
         [] t.k = "Object" -> FALSE

\* What may be null needs a pointer; an input object is a pointer itself.
Packs(t, g) ==
  IF t.k = "NonNull" THEN PacksNonNull(t.of, g)
  ELSE /\ Kind(g) = "ptr"
       /\ PacksNonNull(t, IF t.k = "InputObject" THEN g ELSE GoType[g].elem)

PacksStruct(values, g) ==
  LET struct == unwrapIfPtr(g)
  IN  /\ Kind(struct) = "struct"
      /\ \A i \in DOMAIN values :
           LET f == FieldByName(struct, values[i].name)
           IN  /\ f # 0
               /\ GoType[struct].fields[f].exported
               /\ Packs(TypeOfArgument(values[i]), GoType[struct].fields[f].type)

(***************************************************************************)
(* Pack.                                                                   *)
(***************************************************************************)
\* What is left of a float that is converted to an integer.
Truncated(n) == IF n >= 0 THEN 2 * (n \div 2) ELSE -2 * (-n \div 2)

InRange(n) == n >= -2 * (MaxInt32 + 1) /\ n <= 2 * MaxInt32

\* Twice the number that is left of an integer in a float64: past MaxExact it has
\* the even ones (to 2 * MaxExact, the bound of the numbers here), and an odd one
\* becomes the one next to it that is even once more.
AsFloat64(n) == IF n \in -2 * MaxExact .. 2 * MaxExact \/ n % 4 = 0 THEN n ELSE 8 * ((n + 4) \div 8)

\* What is converted is of the basic type of the kind: it cannot be set where a
\* type of another name is wanted.
Converted(g, n) == IF g = Kind(g) THEN [k |-> g, n |-> n] ELSE Panicked

\* Mutated form: a float in range is converted, whatever is lost.
unmarshalInputTruncating(g, v) ==
  CASE v.k = g -> v
    [] v.k = "float64" -> IF InRange(v.n) THEN Converted(g, Truncated(v.n)) ELSE Fails
    [] Kind(g) # "string" /\ v.k \in {"int", "int32"} ->
         IF InRange(v.n) THEN Converted(g, v.n) ELSE Fails
    [] OTHER -> [k |-> "string", s |-> "a character"]

\* The kinds convert to each other; an integer that is converted to a string is
\* taken for a character.
unmarshalInput(g, v) ==
  CASE v.k = g -> v
    [] Kind(g) = "int" /\ v.k = "int32" -> Converted(g, v.n)
    [] Kind(g) \in {"int", "int32"} /\ v.k = "float64" ->
         IF InRange(v.n) /\ Truncated(v.n) = v.n THEN Converted(g, v.n) ELSE Fails
    [] Kind(g) = "int32" /\ v.k = "int" /\ InRange(v.n) -> Converted(g, v.n)
    [] Kind(g) = "float64" /\ v.k \in {"int32", "int"} -> Converted(g, AsFloat64(v.n))
    [] Kind(g) = "string" /\ v.k = "string" -> v
    [] Kind(g) = "string" /\ v.k \in {"int32", "int"} -> [k |-> "string", s |-> "a character"]
    [] OTHER -> Fails

\* What a Go variable of a type starts as.
Zero(g) ==
  CASE Kind(g) \in {"ptr", "slice", "map", "interface"} -> nil
    [] Kind(g) \in {"int", "int32", "float64"} -> [k |-> Kind(g), n |-> 0]
    [] Kind(g) = "string" -> [k |-> "string", s |-> ""]
    [] Kind(g) = "bool" -> [k |-> "bool", b |-> FALSE]
    [] Kind(g) = "struct" -> [k |-> "struct", fields |-> <<>>]

RECURSIVE PackAs(_, _, _), PackStruct(_, _, _)

PackNonNull(t, g, v) ==
  IF t.k # "List" /\ v = nil THEN Fails
  ELSE CASE g \in DOMAIN Unmarshalers -> IF v \in Unmarshalers[g].refuses THEN Fails ELSE v
         [] t.k \in {"Scalar", "Enum"} /\ g \notin DOMAIN Unmarshalers -> unmarshalInput(g, v)
         [] t.k = "InputObject" /\ g \notin DOMAIN Unmarshalers -> PackStruct(t.fields, g, v)
         [] t.k = "List" /\ g \notin DOMAIN Unmarshalers ->
              LET list == IF v.k = "list" THEN v.of ELSE <<v>>
              IN  InTurn([i \in DOMAIN list |-> PackAs(t.of, GoType[g].elem, list[i])],
                         LAMBDA packed : [k |-> "list", of |-> packed])

PointerTo(packed) == IF Failed(packed) THEN packed ELSE [k |-> "ptr", to |-> packed]

\* A nil is the zero value of the pointer, anything else is pointed to.
PackAs(t, g, v) ==
  IF t.k = "NonNull" THEN PackNonNull(t.of, g, v)
  ELSE IF v = nil THEN nil
  ELSE IF t.k = "InputObject" THEN PackNonNull(t, g, v)
  ELSE PointerTo(PackNonNull(t, GoType[g].elem, v))

\* Finish sets the defaults of a struct in order and leaves at the first that
\* does not pack: it is zero, as what follows it and what has no default.
Defaults(values, g) ==
  [i \in DOMAIN values |->
     LET to == TypeOfField(g, values[i])
     IN  IF values[i].default = <<>> THEN Zero(to)
         ELSE PackAs(TypeOfArgument(values[i]), to, values[i].default[1])]

SetUpTo(defaults, i, zero) == IF FailedUpTo(defaults, i) THEN zero ELSE defaults[i]

Default(values, g, i) == SetUpTo(Defaults(values, g), i, Zero(TypeOfField(g, values[i])))

\* v.of is a function on the names that are given.
PackStruct(values, g, v) ==
  LET Packed(i) ==
        IF values[i].name \in DOMAIN v.of
        THEN PackAs(TypeOfArgument(values[i]), TypeOfField(g, values[i]), v.of[values[i].name])
        ELSE Default(values, g, i)
      Struct(packed) ==
        [k |-> "struct", fields |-> [name \in {x.name : x \in Range(values)} |->
           packed[CHOOSE i \in DOMAIN values : values[i].name = name]]]
  IN  IF v.k # "map" THEN Panicked
      ELSE InTurn([i \in DOMAIN values |-> Packed(i)],
                  LAMBDA packed : IF Kind(g) = "ptr" THEN [k |-> "ptr", to |-> Struct(packed)]
                                  ELSE Struct(packed))

\* The structs in the arguments, in the order in which Finish comes to them: what
\* is in a struct before the struct.
RECURSIVE StructsWithin(_, _), StructsOf(_, _)
StructsWithin(t, g) ==
  LET of == unwrapNonNull(t)
      to == IF t.k \in {"NonNull", "InputObject"} THEN g ELSE GoType[g].elem
  IN  CASE to \in DOMAIN Unmarshalers -> <<>>
        [] of.k = "InputObject" /\ to \notin DOMAIN Unmarshalers -> StructsOf(of.fields, to)
        [] of.k = "List" /\ to \notin DOMAIN Unmarshalers -> StructsWithin(of.of, GoType[to].elem)
        [] OTHER -> <<>>

StructsOf(values, g) ==
  FlattenSeq([i \in DOMAIN values |-> StructsWithin(TypeOfArgument(values[i]), TypeOfField(g, values[i]))])
    \o <<[values |-> values, type |-> g]>>

\* What comes of setting the defaults of each.
Finish(values, g) ==
  LET structs == StructsOf(values, g)
  IN  [i \in DOMAIN structs |->
         InTurn(Defaults(structs[i].values, structs[i].type), LAMBDA defaults : nil)]

\* The arguments of a method.  When Finish left before it came to their struct,
\* there is nothing to start from: a panic.
PackArguments(values, g, v) ==
  LET finished == Finish(values, g)
  IN  IF FailedUpTo(finished, Len(finished) - 1) THEN Panicked ELSE PackStruct(values, g, v)
=============================================================================
