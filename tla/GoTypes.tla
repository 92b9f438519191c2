------------------------------- MODULE GoTypes -------------------------------
(***************************************************************************)
(* What the resolvers find in a Go type by reflection: the struct field, the*)
(* method and the cast that answer a name.                                 *)
(***************************************************************************)
EXTENDS GoValues, SequencesExt, FiniteSets, Functions

CONSTANTS
  BadTags,  \* the json names that isValidTag refuses
  Bare,     \* field names in lower case and without "_"
  CastName  \* "to" and the names of schema types in lower case

(***************************************************************************)
(* typeFields: a struct's fields and those that embedding promotes, level  *)
(* by level.  An entry is a field at an index path.                        *)
(***************************************************************************)
\* Unexported fields are skipped, unless they embed a struct.
Included(f) ==
  /\ f.exported \/ (f.anonymous /\ Kind(unwrapIfPtr(f.type)) = "struct")
  /\ f.json # "-"

Tagged(f) == f.json # "" /\ f.json \notin BadTags

\* An embedded struct without a name of its own is looked into.
Explored(f) == f.anonymous /\ ~Tagged(f) /\ Kind(unwrapIfPtr(f.type)) = "struct"

\* The entries of a struct that was reached by an index path.
EntriesOf(at) ==
  LET fields == GoType[at.type].fields
      Entry(i) ==
        LET f == fields[i]
        IN  [name |-> IF Tagged(f) THEN f.json ELSE f.name, tag |-> Tagged(f),
             index |-> Append(at.index, i), type |-> unwrapIfPtr(f.type),
             included |-> Included(f), explored |-> Explored(f)]
  IN  SelectSeq([i \in DOMAIN fields |-> Entry(i)], LAMBDA e : e.included)

\* One round per level: a type that was visited is not visited again, and the
\* fields of one that occurs twice on a level count twice.
RECURSIVE Levels(_, _, _, _)
Levels(current, count, visited, found) ==
  IF current = <<>> THEN found
  ELSE
    LET fresh == SelectSeq(current, LAMBDA at : at.type \notin visited)
        Leaves(at) ==
          LET leaves == SelectSeq(EntriesOf(at), LAMBDA e : ~e.explored)
          IN  IF count[at.type] > 1 THEN leaves \o leaves ELSE leaves
        embedded == FlattenSeq([i \in DOMAIN fresh |->
                      SelectSeq(EntriesOf(fresh[i]), LAMBDA e : e.explored)])
        Queue(next, e) ==
          IF \E q \in Range(next) : q.type = e.type THEN next ELSE Append(next, e)
    IN  Levels(FoldLeft(Queue, <<>>, embedded),
               [t \in {e.type : e \in Range(embedded)} |->
                  Len(SelectSeq(embedded, LAMBDA e : e.type = t))],
               visited \union {at.type : at \in Range(fresh)},
               found \o FlattenSeq([i \in DOMAIN fresh |-> Leaves(fresh[i])]))

\* Mutated form: a tag does not decide between two of the same depth.
dominantFieldUntagged(entries) ==
  LET least == CHOOSE d \in {Len(e.index) : e \in Range(entries)} :
                 \A e \in Range(entries) : d <= Len(e.index)
      shallow == SelectSeq(entries, LAMBDA e : Len(e.index) = least)
  IN  IF Len(shallow) = 1 THEN {shallow[1]} ELSE {}

\* Of the entries of one name the shallowest count: the one that is tagged, or
\* the only one; none when two compete.
dominantField(entries) ==
  LET least == CHOOSE d \in {Len(e.index) : e \in Range(entries)} :
                 \A e \in Range(entries) : d <= Len(e.index)
      shallow == SelectSeq(entries, LAMBDA e : Len(e.index) = least)
      tagged == SelectSeq(shallow, LAMBDA e : e.tag)
  IN  IF Len(entries) = 1 \/ Len(shallow) = 1 THEN {shallow[1]}
      ELSE IF Len(tagged) = 1 THEN {tagged[1]} ELSE {}

typeFields(t) ==
  LET found == Levels(<<[type |-> t, index |-> <<>>]>>, [s \in {t} |-> 0], {}, <<>>)
      Named(n) == SelectSeq(found, LAMBDA e : e.name = n)
  IN  UNION {dominantField(Named(n)) : n \in {e.name : e \in Range(found)}}

\* What getChildField caches for a type: its fields by name.
FieldMap(t) ==
  LET fields == typeFields(t)
  IN  [n \in {e.name : e \in fields} |-> (CHOOSE e \in fields : e.name = n).index]

(***************************************************************************)
(* typeMethods: the methods that can be called to resolve a field.         *)
(***************************************************************************)
Without(types, t) == IF types # <<>> /\ Head(types) = t THEN Tail(types) ELSE types

\* The parameters are a context, an execution context and a struct of
\* arguments, each optional, in this order.
Signature(i, m) ==
  LET afterContext == Without(m.in, "context.Context")
      rest == Without(afterContext, "ExecutionContext")
      takesArgs == rest # <<>> /\ Kind(unwrapIfPtr(Head(rest))) = "struct"
  IN  [index |-> i, hasContext |-> afterContext # m.in,
       hasExecutionContext |-> rest # afterContext,
       argumentsType |-> IF takesArgs THEN <<Head(rest)>> ELSE <<>>,
       hasError |-> Len(m.out) = 2,
       usable |-> /\ (IF takesArgs THEN Tail(rest) ELSE rest) = <<>>
                  /\ Len(m.out) <= 2
                  /\ Len(m.out) = 2 => m.out[2] = "error"]

\* What getChildMethod caches for a type and a field name: the last usable
\* method whose name is that of the field but for case and underscores.
MethodFor(t, name) ==
  LET methods == GoType[t].methods
      fitting == {i \in DOMAIN methods :
                    /\ methods[i].lower = Bare[name]
                    /\ Signature(i, methods[i]).usable}
  IN  IF fitting = {} THEN <<>>
      ELSE LET i == CHOOSE j \in fitting : \A n \in fitting : n <= j
           IN  <<Signature(i, methods[i])>>

\* What tryCastFunction caches for a type and the name of another: the first
\* method To<name> without parameters that returns a value and whether it is
\* one; 0 when there is none.  A method of an interface type has no receiver to
\* count.
CastMethod(t, toType) ==
  LET methods == GoType[t].methods
      casts == {i \in DOMAIN methods :
                  /\ methods[i].lower = CastName[toType]
                  /\ Len(methods[i].in) + (IF Kind(t) = "interface" THEN 0 ELSE 1) = 1
                  /\ Len(methods[i].out) = 2 /\ methods[i].out[2] = "bool"}
  IN  IF casts = {} THEN 0 ELSE CHOOSE i \in casts : \A n \in casts : i <= n

(***************************************************************************)
(* What values lead to.                                                    *)
(***************************************************************************)
RECURSIVE Dereference(_)
Dereference(v) ==
  IF Points(v) THEN Dereference(Elem(v)) ELSE v

\* Embedded pointers are followed; a nil one makes the field invalid.
RECURSIVE fieldByIndex(_, _)
fieldByIndex(v, index) ==
  IF index = <<>> THEN v
  ELSE LET struct == IF KindOf(v) = "ptr" THEN Elem(v) ELSE v
       IN  IF IsValid(struct) THEN fieldByIndex(struct.fields[Head(index)], Tail(index))
           ELSE Invalid
=============================================================================
