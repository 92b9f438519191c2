------------------------------ MODULE Resolvers ------------------------------
(***************************************************************************)
(* What the resolvers of the chain (ResolverChain) make of a request.  What*)
(* reflection finds for them is defined in GoTypes, and the arguments of a *)
(* method in Packing.                                                      *)
(***************************************************************************)
EXTENDS ResolverChain, Packing

CONSTANTS
  Parents,    \* the Go types of the values whose fields they ask for
  ListBefore, \* the resolvers of the list before the dynamic one
  ListAfter   \* those after it

NoType == [kind |-> "none"]

\* What is looked up, and what is cached under it.
AllKeys ==
  {MethodKey(t, n) : t \in Parents, n \in DOMAIN Bare}
  \union {CastKey(t, n) : t \in Parents, n \in DOMAIN CastName}
  \union {FieldKey(t) : t \in {p \in Parents : Kind(p) = "struct"}}

Found ==
  [k \in AllKeys |->
     IF k.cache = "field" THEN FieldMap(k.type)
     ELSE IF "to" \in DOMAIN k THEN CastMethod(k.type, k.to)
     ELSE MethodFor(k.type, k.field)]

(***************************************************************************)
(* The resolvers that need no cache.                                       *)
(***************************************************************************)
\* The arguments of a directive of the field, or else of the parent's type; a
\* directive without arguments has none and is not found to match.
matchingArgList(r, name) ==
  LET Named(directives) == SelectSeq(directives, LAMBDA d : d.name = name)
      OfType == IF r.parentType = NoType THEN <<>> ELSE Named(r.parentType.directives)
  IN  IF Named(r.field.directives) # <<>> THEN Named(r.field.directives)[1].args
      ELSE OfType # <<>> /\ OfType[1].args

Custom(id) == [by |-> "custom", id |-> id]

\* A panic in Resolve: the resolution has not been found, and nobody looks on.
Unwound == [by |-> "panic"]

\* Keys of another type than string, the kind of which is string, panic.
MapResolver(r, next) ==
  LET parent == Dereference(r.parent)
  IN  IF KindOf(parent) # "map" \/ Kind(GoType[parent.type].key) # "string" THEN next
      ELSE IF GoType[parent.type].key # "string" THEN Unwound
      ELSE [by |-> "map",
            value |-> IF r.field.name \in DOMAIN parent.entries
                      THEN parent.entries[r.field.name] ELSE Invalid]

RECURSIVE Resolve(_, _, _)
Resolve(resolver, r, next) ==
  CASE resolver.k = "func" -> Custom(resolver.id)
    [] resolver.k = "nil" -> Nil
    [] resolver.k = "sniff" -> next
    [] resolver.k = "mapValue" -> IF next = Nil THEN Nil ELSE [by |-> "mapped", of |-> next]
    [] resolver.k = "map" -> MapResolver(r, next)
    [] resolver.k = "directive" ->
         IF matchingArgList(r, resolver.name) THEN Custom(resolver.id) ELSE next
    [] resolver.k = "type" ->
         IF r.parentType = NoType \/ r.parentType.name \notin DOMAIN resolver.of THEN next
         ELSE Resolve(resolver.of[r.parentType.name], r, next)
    [] resolver.k = "typeAndField" ->
         IF r.parentType = NoType \/ <<r.parentType.name, r.field.name>> \notin DOMAIN resolver.of
         THEN next ELSE Custom(resolver.of[<<r.parentType.name, r.field.name>>])

\* ResolverList: each is given what those before it found.
ResolveList(list, r, next) ==
  FoldLeft(LAMBDA found, resolver : IF found = Unwound THEN Unwound ELSE Resolve(resolver, r, found),
           next, list)

ResolveBefore(r) == ResolveList(ListBefore, r, Nil)
ResolveAfter(r, found) == ResolveList(ListAfter, r, found)

(***************************************************************************)
(* The parts of the dynamic resolver, given what they looked up.  Each     *)
(* gives way to the next one with Nil.                                     *)
(***************************************************************************)
MetaFields == [n \in {"__typename", "__schema", "__type"} |-> [by |-> n]]

MetadataResolver(r, next) ==
  IF r.field.name \in DOMAIN MetaFields THEN MetaFields[r.field.name] ELSE next

\* A method whose arguments cannot be packed resolves nothing.  That a default
\* does not pack is not looked at, but setting one of another type panics.
MethodResolver(r, method, next) ==
  IF method = <<>> THEN next
  ELSE IF method[1].argumentsType = <<>> THEN [by |-> "method", method |-> method[1]]
  ELSE LET struct == method[1].argumentsType[1]
           Setting == InTurn(Finish(r.field.args, struct), LAMBDA s : nil)
       IN  IF ~PacksStruct(r.field.args, struct) THEN Nil
           ELSE IF Setting = Panicked THEN Unwound
           ELSE [by |-> "method", method |-> method[1]]

FieldResolver(r, fields, next) ==
  IF r.field.name \in DOMAIN fields
  THEN [by |-> "field", value |-> fieldByIndex(Dereference(r.parent), fields[r.field.name])]
  ELSE next

(***************************************************************************)
(* A Resolution that is run.                                               *)
(***************************************************************************)
RECURSIVE Innermost(_)
Innermost(resolution) ==
  IF resolution.by = "mapped" THEN Innermost(resolution.of) ELSE resolution

\* The method is called with the contexts it wants and its arguments, packed; a
\* panic in packing is the error of the field as well.
CallMethod(r, method) ==
  LET args == IF method.argumentsType = <<>> THEN nil
              ELSE PackArguments(r.field.args, method.argumentsType[1],
                                 [k |-> "map", of |-> r.args])
  IN  IF Failed(args) THEN [error |-> args.k]
      ELSE [called |-> method.index, hasContext |-> method.hasContext,
            hasExecutionContext |-> method.hasExecutionContext, args |-> args]

AsksTypeName(resolution) == Innermost(resolution).by = "__typename"

\* All but the name of an abstract type, which takes casts.
RunResolution(r, resolution) ==
  LET inner == Innermost(resolution)
  IN  CASE inner.by = "method" -> CallMethod(r, inner.method)
        [] inner.by \in {"field", "map"} -> [value |-> inner.value]
        [] inner.by = "__typename" -> [name |-> r.parentType.name]
        [] inner.by \in {"__schema", "__type", "custom", "nil", "panic"} -> [of |-> inner]

(***************************************************************************)
(* What a resolution should be, by the rules of Go.                        *)
(***************************************************************************)
Structs == {t \in DOMAIN GoType : Kind(t) = "struct"}

\* Everything in a struct, through every embedded struct, to a depth that no
\* acyclic embedding exceeds.
RECURSIVE Within(_, _)
Within(at, depth) ==
  LET entries == Range(EntriesOf(at))
  IN  entries \union IF depth = 0 THEN {}
                     ELSE UNION {Within(e, depth - 1) : e \in {x \in entries : x.explored}}

All(t) == Within([type |-> t, index |-> <<>>], Cardinality(Structs))

\* The Go rule: the shallowest field of a name, unless two compete, where a
\* tag decides between the two.
Promoted(t, name) ==
  LET named == {p \in All(t) : ~p.explored /\ p.name = name}
      shallow == {p \in named : \A q \in named : Len(p.index) <= Len(q.index)}
      tagged == {p \in shallow : p.tag}
  IN  {p \in shallow : shallow = {p} \/ tagged = {p}}

\* A struct that is reached twice at one depth and embeds another one: what the
\* inner one has is ambiguous by Go's rules, but Levels counts it once.
EmbedsTwice(t) ==
  \E p, q \in All(t) :
    /\ p # q /\ p.explored /\ q.explored
    /\ p.type = q.type /\ Len(p.index) = Len(q.index)
    /\ \E e \in Range(EntriesOf(p)) : e.explored

\* The answer of the dynamic resolver.
DynamicByGo(r, next) ==
  LET struct == Dereference(r.parent)
      promoted == IF KindOf(struct) = "struct" THEN Promoted(struct.type, r.field.name) ELSE {}
      method == IF IsValid(r.parent) THEN MethodFor(r.parent.type, r.field.name) ELSE <<>>
  IN  IF MetadataResolver(r, next) # Nil THEN MetadataResolver(r, next)
      ELSE IF MethodResolver(r, method, Nil) # Nil THEN MethodResolver(r, method, Nil)
      ELSE IF promoted # {}
      THEN [by |-> "field", value |-> fieldByIndex(struct, (CHOOSE p \in promoted : TRUE).index)]
      ELSE MapResolver(r, next)

\* The Resolution of each request.
ByGo ==
  [i \in DOMAIN Requests |->
     ResolveAfter(Requests[i], DynamicByGo(Requests[i], ResolveBefore(Requests[i])))]

\* Requests on which the code agrees with the rules of Go.
RulesAgree ==
  {i \in DOMAIN Requests :
     LET struct == Dereference(Requests[i].parent)
     IN  KindOf(struct) = "struct" => ~EmbedsTwice(struct.type)}

\* A value can be cast as it is, or else what it points to.
RECURSIVE CanCast(_, _)
CanCast(v, name) ==
  IsValid(v) /\ \/ CastMethod(v.type, name) # 0 /\ name \in v.is
                \/ Points(v) /\ CanCast(Elem(v), name)

\* A field is resolved with the method of its own name and type (getChildMethod),
\* or else the field that Go's rules promote (getChildField), or else the entry of
\* a map.  Which method that is, is the code's own rule, MethodFor: what is claimed
\* of methods is that no caller is given what is another type's or name's.  The
\* same for directives, which count when they have arguments (matchingArgList).
ResolvedAsInGo ==
  \A g \in Callers :
    At(g, "answered") /\ job[g].r \in RulesAgree => job[g].resolution = ByGo[job[g].r]

(***************************************************************************)
(* What a method receives.                                                 *)
(***************************************************************************)
Numbers == {"int32", "int", "float64"}

\* Twice a number that a float64 may not have.
Inexact(v) == v.k = "int" /\ v.n \notin -2 * MaxExact .. 2 * MaxExact

\* Finish comes to the default of a struct's field: none before it, nor it, is null.
DefaultIsSet(values, i) ==
  values[i].default # <<>> /\ \A j \in 1 .. i : values[j].default # <<nil>>

\* p is what was given for the type, v, in the form the Go type wants.
RECURSIVE Carries(_, _, _), CarriesStruct(_, _, _)
Carries(t, v, p) ==
  CASE p.k = "ptr" -> Carries(t, v, p.to)
    [] p.k = "list" ->
         LET list == IF v.k = "list" THEN v.of ELSE <<v>>
         IN  Len(p.of) = Len(list) /\ \A i \in DOMAIN list : Carries(unwrapNonNull(t).of, list[i], p.of[i])
    [] p.k = "struct" -> CarriesStruct(unwrapNonNull(t).fields, v.of, p.fields)
    [] p.k \in Numbers -> /\ v.k \in Numbers
                          /\ IF p.k = "float64" /\ Inexact(v) THEN p.n - v.n \in -2 .. 2 ELSE p.n = v.n
    [] p.k \in {"nil", "bool"} -> v = p
    [] p.k = "string" -> v.k = "string" => v = p

CarriesStruct(values, given, fields) ==
  \A i \in DOMAIN values :
    LET x == values[i]
    IN  IF x.name \in DOMAIN given THEN Carries(x.type, given[x.name], fields[x.name])
        ELSE DefaultIsSet(values, i) => Carries(x.type, x.default[1], fields[x.name])

\* A method that is called receives each argument it was given, and the default of
\* what was not given, in input objects too; a number that would change is refused
\* instead (packer.go lines 216 to 237 and 323 to 369).  Three things change, by
\* what the code does: an integer that a float64 does not have becomes one next to
\* it, an integer that is given for a string (an ID) becomes a character, and the
\* defaults that follow a default of null in a list of arguments are lost.
PackedAsGiven ==
  \A g \in Callers :
    At(g, "answered") /\ "args" \in DOMAIN job[g].result /\ job[g].result.args # nil =>
      LET r == Req(g)
          args == job[g].result.args
      IN  CarriesStruct(r.field.args, r.args, IF args.k = "ptr" THEN args.to.fields ELSE args.fields)
=============================================================================
