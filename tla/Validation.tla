----------------------------- MODULE Validation -----------------------------
(* The validation of a document against the schema (internal/validation).   *)
(*                                                                          *)
(* An error is its rule.  A rule that looks at one place of the document    *)
(* alone is an operator that returns the errors found there; the context    *)
(* c that is handed from place to place has the errors so far, what is      *)
(* known of each field (info, the fieldMap) and the pairs of selections     *)
(* that were compared (overlapValidated).  ops are the operations a place   *)
(* belongs to: several for a fragment.                                      *)
EXTENDS SchemaLoad, QueryText

CONSTANT W   \* the world of the schema the documents are for

Err(condition, rule) == IF condition THEN {rule} ELSE {}

Duplicates(s) == \E i, j \in DOMAIN s : i < j /\ s[i].name = s[j].name

-----------------------------------------------------------------------------
(* Types, by their address; 0 is the nil type. *)

Lookup(n) == IF n \in DOMAIN W.s.types THEN W.s.types[n] ELSE 0

Kind(a) == IF a = 0 THEN "nil" ELSE W.h[a].kind

resolveType(t) == [t EXCEPT !.to = Lookup(t.name)]

unwrapType(t) == t.to

Named(n) == [TypeName(n) EXCEPT !.to = Lookup(n)]

canBeFragment(a) == Kind(a) \in {"OBJECT", "INTERFACE", "UNION"}
hasSubfields(t)  == Kind(t.to) \in {"OBJECT", "INTERFACE", "UNION"}
canBeInput(t)    == Kind(t.to) \in {"INPUT_OBJECT", "SCALAR", "ENUM"}
isLeaf(t)        == t.wrap = <<>> /\ Kind(t.to) \in {"SCALAR", "ENUM"}

possibleTypes(a) ==
  CASE Kind(a) = "OBJECT"                 -> {a}
    [] Kind(a) \in {"INTERFACE", "UNION"} -> ToSet(W.h[a].possible)
    [] OTHER                              -> {}

compatible(a, b) == possibleTypes(a) \intersect possibleTypes(b) # {}

fields(a) == IF Kind(a) \in {"OBJECT", "INTERFACE"} THEN W.h[a].items ELSE <<>>

RECURSIVE typesCompatible(_, _), typeCanBeUsedAs(_, _)

typesCompatible(a, b) ==
  IF \E k \in {"LIST", "NON_NULL"} : IsWrapped(a, k) \/ IsWrapped(b, k)
  THEN /\ a.wrap # <<>> /\ b.wrap # <<>> /\ Head(a.wrap) = Head(b.wrap)
       /\ typesCompatible(OfType(a), OfType(b))
  ELSE (isLeaf(a) \/ isLeaf(b)) => a.to = b.to

Nullable(t) == IF IsWrapped(t, "NON_NULL") THEN OfType(t) ELSE t

typeCanBeUsedAs(t, as) ==
  LET n == Nullable(t)
      m == Nullable(as)
  IN /\ IsWrapped(as, "NON_NULL") => IsWrapped(t, "NON_NULL")
     /\ \/ n.wrap = <<>> /\ m.wrap = <<>> /\ n.to = m.to
        \/ IsWrapped(n, "LIST") /\ IsWrapped(m, "LIST") /\ typeCanBeUsedAs(OfType(n), OfType(m))

-----------------------------------------------------------------------------
(* Values. *)

RECURSIVE VariablesIn(_), LiteralErrors(_, _), ValueOk(_, _), PositionErrors(_, _, _)

VariablesIn(l) ==
  CASE l.lit = "Variable" -> {l.text[1]}
    [] l.lit = "List"     -> UNION {VariablesIn(e) : e \in ToSet(l.es)}
    [] l.lit = "Object"   -> UNION {VariablesIn(f.value) : f \in ToSet(l.es)}
    [] OTHER              -> {}

\* Mutated form: what is inside a value is not looked at.
LiteralErrorsOutside(ops, l) ==
  Err(l.lit = "Variable" /\ \E o \in ops : ~Has(o.vars, l.text[1]), "NoUndefinedVariables")

\* validateLiteral
LiteralErrors(ops, l) ==
  CASE l.lit = "Object" ->
         Err(Duplicates(l.es), "UniqueInputFieldNames")
           \union UNION {LiteralErrors(ops, f.value) : f \in ToSet(l.es)}
    [] l.lit = "List" -> UNION {LiteralErrors(ops, e) : e \in ToSet(l.es)}
    [] l.lit = "Variable" ->
         Err(\E op \in ops : ~Has(op.vars, l.text[1]), "NoUndefinedVariables")
    [] OTHER -> {}

validateBasicLit(l, a) ==
  LET n == W.h[a].name
      token == l.text[Len(l.text)]
  IN IF Kind(a) = "ENUM" THEN l.kind = "Ident" /\ Has(W.h[a].items, l.text[1])
     ELSE CASE n = "Int"     -> l.kind = "Int" /\ token \notin WideInts
            [] n = "Float"   -> l.kind \in {"Int", "Float"}
            [] n = "String"  -> l.kind \in {"String", "BlockString"}
            [] n = "Boolean" -> l.kind = "Ident" /\ l.text \in {<<"true">>, <<"false">>}
            [] n = "ID"      -> l.kind \in {"Int", "String", "BlockString"}
            [] OTHER         -> TRUE

(* Whether validateValueType accepts a literal; a variable it always does.  *)
ValueOk(v, t) ==
  LET n == Nullable(t)
      input == W.h[n.to].items
  IN CASE v.lit = "Variable" -> TRUE
       [] v = NullLit        -> ~IsWrapped(t, "NON_NULL")
       [] IsWrapped(n, "LIST") ->
            IF v.lit = "List" THEN \A e \in ToSet(v.es) : ValueOk(e, OfType(n)) ELSE ValueOk(v, OfType(n))
       [] Kind(n.to) \in {"SCALAR", "ENUM"} -> v.lit = "Basic" /\ validateBasicLit(v, n.to)
       [] Kind(n.to) = "INPUT_OBJECT" ->
            /\ v.lit = "Object"
            /\ \A f \in ToSet(v.es) : Has(input, f.name) /\ ValueOk(f.value, Get(input, f.name).type)
            /\ \A iv \in ToSet(input) :
                 (IsWrapped(iv.type, "NON_NULL") /\ iv.default = NoLit) => Has(v.es, iv.name)
       [] OTHER -> FALSE

(* The type a variable has where it is used: one with a default is not null.*)
UsedAs(var) ==
  LET t == resolveType(var.type)
  IN IF var.default # NoLit /\ ~IsWrapped(t, "NON_NULL") THEN Wrapped("NON_NULL", t) ELSE t

(* The variables of a value are looked at until something in it is refused. *)
PositionErrors(ops, v, t) ==
  LET n == Nullable(t)
      Misplaced(op) == /\ Has(op.vars, v.text[1])
                       /\ Lookup(Get(op.vars, v.text[1]).type.name) # 0
                       /\ ~typeCanBeUsedAs(UsedAs(Get(op.vars, v.text[1])), t)
      TypeOf(f)  == Get(W.h[n.to].items, f.name).type
      Known(f)   == Has(W.h[n.to].items, f.name)
      Entries    == {i \in DOMAIN v.es : \A j \in 1 .. i - 1 : ValueOk(v.es[j], OfType(n))}
      Members    == {i \in DOMAIN v.es : /\ Known(v.es[i])
                                         /\ \A j \in 1 .. i - 1 :
                                              Known(v.es[j]) /\ ValueOk(v.es[j].value, TypeOf(v.es[j]))}
  IN CASE v.lit = "Variable" -> Err(\E op \in ops : Misplaced(op), "VariablesInAllowedPosition")
       [] v.lit = "List" /\ IsWrapped(n, "LIST") ->
            UNION {PositionErrors(ops, v.es[i], OfType(n)) : i \in Entries}
       [] v.lit = "Object" /\ IsWrapped(n, "LIST") -> PositionErrors(ops, v, OfType(n))
       [] v.lit = "Object" /\ Kind(n.to) = "INPUT_OBJECT" ->
            UNION {PositionErrors(ops, v.es[i].value, TypeOf(v.es[i])) : i \in Members}
       [] OTHER -> {}

-----------------------------------------------------------------------------
(* Arguments and directives. *)

validateArgumentLiterals(ops, args) ==
  Err(Duplicates(args), "UniqueArgumentNames")
    \union UNION {LiteralErrors(ops, a.value) : a \in ToSet(args)}

validateArgumentTypes(ops, args, decls) ==
  Err(~(Names(args) \subseteq Names(decls)), "KnownArgumentNames")
    \union Err(\E a \in ToSet(args) : Has(decls, a.name) /\ ~ValueOk(a.value, Get(decls, a.name).type),
               "ArgumentsOfCorrectType")
    \union Err(\E d \in ToSet(decls) : IsWrapped(d.type, "NON_NULL") /\ ~Has(args, d.name),
               "ProvidedNonNullArguments")
    \union UNION {PositionErrors(ops, a.value, Get(decls, a.name).type) :
                    a \in {b \in ToSet(args) : Has(decls, b.name)}}

validateDirectives(ops, loc, ds) ==
  Err(Duplicates(ds), "UniqueDirectivesPerLocation")
    \union UNION {validateArgumentLiterals(ops, d.args)
                    \union (IF d.name \notin DOMAIN W.s.decls THEN {"KnownDirectives"}
                            ELSE Err(loc \notin ToSet(W.s.decls[d.name].locs), "KnownDirectives")
                                   \union validateArgumentTypes(ops, d.args, W.s.decls[d.name].args)) :
                    d \in ToSet(ds)}

VariablesOf(s) ==
  UNION {VariablesIn(a.value) :
           a \in ToSet(s.args) \union UNION {ToSet(d.args) : d \in ToSet(s.dirs)}}

-----------------------------------------------------------------------------
(* The walk over selections. *)

NoContext == [errs |-> {}, used |-> {}, info |-> <<>>, pairs |-> {}]

With(c, errs) == [c EXCEPT !.errs = @ \union errs]

Use(c, ops, names) ==
  [c EXCEPT !.used = @ \union UNION {{<<op.id, n>> : n \in names \intersect Names(op.vars)} : op \in ops}]

(* The fields that every type has, and the field a selection names: none is *)
(* known of a type that is not known.                                       *)
MetaFields == {"__typename", "__schema", "__type"}

MetaField(n) ==
  LET name == [name |-> "name", type |-> Wrapped("NON_NULL", Named("String")), default |-> NoLit]
  IN CASE n = "__typename" -> [name |-> n, args |-> <<>>, type |-> Named("String")]
       [] n = "__schema"   -> [name |-> n, args |-> <<>>, type |-> Named("__Schema")]
       [] n = "__type"     -> [name |-> n, args |-> <<name>>, type |-> Named("__Type")]

NoField == [name |-> "", args |-> <<>>, type |-> TypeName("")]

FieldOf(a, n) ==
  CASE n \in MetaFields     -> MetaField(n)
    [] Has(fields(a), n) ->
         LET f == Get(fields(a), n) IN [name |-> n, args |-> f.args, type |-> f.type]
    [] OTHER -> NoField

\* Mutated form: a field need not have selections exactly when its type has fields.
FieldErrorsLeafs(ops, s, f, a) ==
  validateDirectives(ops, "FIELD", s.dirs)
    \union validateArgumentLiterals(ops, s.args)
    \union Err(f = NoField /\ a # 0, "FieldsOnCorrectType")
    \union (IF f = NoField THEN {} ELSE validateArgumentTypes(ops, s.args, f.args))

FieldErrors(ops, s, f, a) ==
  validateDirectives(ops, "FIELD", s.dirs)
    \union validateArgumentLiterals(ops, s.args)
    \union Err(f = NoField /\ a # 0, "FieldsOnCorrectType")
    \union (IF f = NoField THEN {}
            ELSE validateArgumentTypes(ops, s.args, f.args)
                   \union Err(hasSubfields(f.type) # (s.sels # <<>>), "ScalarLeafs"))

(* Overlaps.  What is known of a field whose selection set has not been     *)
(* validated yet is nothing: fragments are validated after operations.      *)

Info(c, s) == IF s.id \in DOMAIN c.info THEN c.info[s.id] ELSE [field |-> NoField, parent |-> 0]

argumentsConflict(as, bs) ==
  \/ Len(as) # Len(bs)
  \/ \E a \in ToSet(as) :
       \/ ~Has(bs, a.name)
       \/ Evaluate(a.value, <<>>) # Evaluate(Get(bs, a.name).value, <<>>)

(* An integer literal that is too wide panics when it is evaluated.         *)
RECURSIVE Panics(_)
Panics(l) ==
  CASE l.lit = "List"   -> \E e \in ToSet(l.es) : Panics(e)
    [] l.lit = "Object" -> \E f \in ToSet(l.es) : Panics(f.value)
    [] OTHER            -> Evaluate(l, <<>>) = Panic

\* Mutated form: the arguments are not compared.
FieldsMeetByName(c, a, b) ==
  LET i == Info(c, a)
      j == Info(c, b)
      untyped == i.field = NoField \/ j.field = NoField
      together == i.parent = 0 \/ j.parent = 0 \/ i.parent = j.parent
  IN IF (~untyped /\ ~typesCompatible(i.field.type, j.field.type)) \/ (together /\ a.name # b.name)
     THEN "conflict" ELSE "merge"

(* Two fields of one alias: "conflict", "panic", or "merge" when it is left *)
(* to their selections.                                                     *)
FieldsMeet(c, a, b) ==
  LET i == Info(c, a)
      j == Info(c, b)
      untyped == i.field = NoField \/ j.field = NoField
      together == i.parent = 0 \/ j.parent = 0 \/ i.parent = j.parent
      same == a.name = b.name /\ Len(a.args) = Len(b.args)
      evaluated == {x \in ToSet(a.args) : Has(b.args, x.name)}
  IN CASE ~untyped /\ ~typesCompatible(i.field.type, j.field.type) -> "conflict"
       [] together /\ same /\ \E x \in evaluated : Panics(x.value) \/ Panics(Get(b.args, x.name).value) -> "panic"
       [] together /\ (~same \/ argumentsConflict(a.args, b.args)) -> "conflict"
       [] OTHER -> "merge"

FragmentSels(doc, n) == IF Has(doc.frags, n) THEN Get(doc.frags, n).sels ELSE <<>>

InnerSelections(doc, s) == IF s.sel = "inline" THEN s.sels ELSE FragmentSels(doc, s.name)

(* validateOverlap returns the context and whether it found a conflict: one *)
(* of nested selections is an error of the outermost fields they are in.    *)
RECURSIVE validateOverlap(_, _, _, _), OverlapAll(_, _, _)

\* Each pair of pairs in turn.
OverlapAll(doc, r, pairs) ==
  FoldLeft(LAMBDA x, p : LET y == validateOverlap(doc, x.c, p[1], p[2])
                         IN [c |-> y.c, conflict |-> x.conflict \/ y.conflict], r, pairs)

Product(as, bs) == FlattenSeq([i \in DOMAIN as |-> [j \in DOMAIN bs |-> <<as[i], bs[j]>>]])

validateFieldOverlap(doc, c, a, b) ==
  LET none == [c |-> c, conflict |-> FALSE]
  IN CASE a.alias # b.alias -> none
       [] a.alias = b.alias /\ FieldsMeet(c, a, b) = "conflict" -> [none EXCEPT !.conflict = TRUE]
       [] a.alias = b.alias /\ FieldsMeet(c, a, b) = "panic" -> [none EXCEPT !.c = With(c, {"panic"})]
       [] OTHER -> OverlapAll(doc, none, Product(a.sels, b.sels))

validateOverlap(doc, c, a, b) ==
  LET seen == [c EXCEPT !.pairs = @ \union {{a.id, b.id}}]
      none == [c |-> seen, conflict |-> FALSE]
  IN CASE a.id = b.id \/ {a.id, b.id} \in c.pairs -> [c |-> c, conflict |-> FALSE]
       [] a.sel # "field" -> OverlapAll(doc, none, Product(InnerSelections(doc, a), <<b>>))
       [] a.sel = "field" /\ b.sel # "field" ->
            OverlapAll(doc, none, Product(<<a>>, InnerSelections(doc, b)))
       [] OTHER -> validateFieldOverlap(doc, seen, a, b)

Later(ss) == FlattenSeq([i \in DOMAIN ss |-> [j \in 1 .. Len(ss) - i |-> <<ss[i], ss[i + j]>>]])

validateOverlaps(doc, c, ss) ==
  FoldLeft(LAMBDA x, p : LET y == validateOverlap(doc, x, p[1], p[2])
                         IN With(y.c, Err(y.conflict, "OverlappingFieldsCanBeMerged")), c, Later(ss))

RECURSIVE validateSelectionSet(_, _, _, _, _)

validateField(doc, c, ops, s, a) ==
  LET f == FieldOf(a, s.name)
      known == [With(Use(c, ops, VariablesOf(s)), FieldErrors(ops, s, f, a))
                  EXCEPT !.info = (s.id :> [field |-> f, parent |-> a]) @@ @]
  IN IF s.sels = <<>> THEN known ELSE validateSelectionSet(doc, known, ops, s.sels, unwrapType(f.type))

validateInline(doc, c, ops, s, a) ==
  LET on   == Lookup(s.on)
      b    == IF s.on = "" THEN a ELSE on
      seen == With(Use(c, ops, VariablesOf(s)),
                   validateDirectives(ops, "INLINE_FRAGMENT", s.dirs)
                     \union Err(s.on # "" /\ on = 0, "KnownTypeNames")
                     \union Err(s.on # "" /\ on # 0 /\ ~compatible(a, on), "PossibleFragmentSpreads")
                     \union Err(b # 0 /\ ~canBeFragment(b), "FragmentsOnCompositeTypes"))
  IN IF b # 0 /\ ~canBeFragment(b) THEN seen ELSE validateSelectionSet(doc, seen, ops, s.sels, b)

validateSpread(doc, c, ops, s, a) ==
  With(Use(c, ops, VariablesOf(s)),
       validateDirectives(ops, "FRAGMENT_SPREAD", s.dirs)
         \union (IF ~Has(doc.frags, s.name) THEN {"KnownFragmentNames"}
                 ELSE Err(~compatible(a, Lookup(Get(doc.frags, s.name).on)), "PossibleFragmentSpreads")))

validateSelection(doc, c, ops, s, a) ==
  CASE s.sel = "field"  -> validateField(doc, c, ops, s, a)
    [] s.sel = "inline" -> validateInline(doc, c, ops, s, a)
    [] s.sel = "spread" -> validateSpread(doc, c, ops, s, a)

validateSelectionSet(doc, c, ops, ss, a) ==
  validateOverlaps(doc, FoldLeft(LAMBDA x, s : validateSelection(doc, x, ops, s, a), c, ss), ss)

-----------------------------------------------------------------------------
(* Depth, use of fragments, cycles. *)

(* validateMaxDepth: whether the depth is exceeded, and whether the walk    *)
(* ends at all: it does not when a fragment comes back at the depth at which*)
(* it is being walked already.  What follows a selection that exceeds the   *)
(* depth is not walked, but for the fields right there.                     *)
RECURSIVE validateMaxDepth(_, _, _, _, _)
validateMaxDepth(doc, maxDepth, ss, depth, path) ==
  LET Below(x, sels, d, p) ==
        IF x.exceeded THEN x
        ELSE LET y == validateMaxDepth(doc, maxDepth, sels, d, p)
             IN [y EXCEPT !.errs = @ \union x.errs, !.endless = @ \/ x.endless]
      Step(x, s) ==
        CASE s.sel = "field" /\ depth > maxDepth ->
               [x EXCEPT !.exceeded = TRUE, !.errs = @ \union {"MaxDepthExceeded"}]
          [] s.sel = "field" /\ depth <= maxDepth -> Below(x, s.sels, depth + 1, path)
          [] s.sel = "inline" -> Below(x, s.sels, depth, path)
          [] s.sel = "spread" /\ ~Has(doc.frags, s.name) ->
               [x EXCEPT !.errs = @ \union {"MaxDepthEvaluationError"}]
          [] s.sel = "spread" /\ Has(doc.frags, s.name) ->
               IF <<s.name, depth>> \in path THEN [x EXCEPT !.endless = @ \/ ~x.exceeded]
               ELSE Below(x, FragmentSels(doc, s.name), depth, path \union {<<s.name, depth>>})
      start == [exceeded |-> FALSE, errs |-> {}, endless |-> FALSE]
  IN IF maxDepth = 0 THEN start ELSE FoldLeft(Step, start, ss)

(* markUsedFragments gives up on the rest of a selection set at a fragment  *)
(* that is unknown or that was marked before.                               *)
RECURSIVE markUsedFragments(_, _, _)
markUsedFragments(doc, ss, used) ==
  LET s    == Head(ss)
      rest == Tail(ss)
      frag == Get(doc.frags, s.name)
  IN CASE ss = <<>> -> used
       [] s.sel # "spread" ->
            markUsedFragments(doc, rest, markUsedFragments(doc, s.sels, used))
       [] s.sel = "spread" /\ (~Has(doc.frags, s.name) \/ frag.id \in used) -> used
       [] OTHER ->
            markUsedFragments(doc, rest, markUsedFragments(doc, frag.sels, used \union {frag.id}))

(* detectFragmentCycle: path has the names of the fragments being walked.   *)
RECURSIVE detectFragmentCycle(_, _, _, _)

\* Mutated form: the path stays what it was at the start.
detectSelfCycle(doc, ss, x, path) ==
  LET Step(y, s) ==
        LET frag == Get(doc.frags, s.name)
        IN CASE s.sel # "spread" -> detectFragmentCycle(doc, s.sels, y, path)
             [] s.sel = "spread" /\ ~Has(doc.frags, s.name) -> y
             [] s.sel = "spread" /\ s.name \in path -> [y EXCEPT !.cycle = TRUE]
             [] s.sel = "spread" /\ Has(doc.frags, s.name) /\ frag.id \in y.visited -> y
             [] OTHER -> detectFragmentCycle(doc, frag.sels, [y EXCEPT !.visited = @ \union {frag.id}], path)
  IN FoldLeft(Step, x, ss)

detectFragmentCycle(doc, ss, x, path) ==
  LET Step(y, s) ==
        LET frag == Get(doc.frags, s.name)
        IN CASE s.sel # "spread" -> detectFragmentCycle(doc, s.sels, y, path)
             [] s.sel = "spread" /\ ~Has(doc.frags, s.name) -> y
             [] s.sel = "spread" /\ s.name \in path -> [y EXCEPT !.cycle = TRUE]
             [] s.sel = "spread" /\ Has(doc.frags, s.name) /\ frag.id \in y.visited -> y
             [] OTHER -> detectFragmentCycle(doc, frag.sels, [y EXCEPT !.visited = @ \union {frag.id}],
                                             path \union {s.name})
  IN FoldLeft(Step, x, ss)

-----------------------------------------------------------------------------
(* Validate. *)

VariableErrors(op) ==
  UNION {LET t == resolveType(v.type)
         IN Err(t.to = 0, "KnownTypeNames")
              \union Err(~canBeInput(t), "VariablesAreInputTypes")
              \union (IF v.default = NoLit \/ t.to = 0 THEN {}
                      ELSE Err(IsWrapped(t, "NON_NULL") \/ ~ValueOk(v.default, t), "DefaultValuesOfCorrectType"))
              \union (IF v.default = NoLit THEN {} ELSE LiteralErrors({op}, v.default)) :
           v \in ToSet(op.vars)}

Locations == "query" :> "QUERY" @@ "mutation" :> "MUTATION" @@ "subscription" :> "SUBSCRIPTION"

validateOperation(doc, c, op) ==
  LET entry == IF op.type \in DOMAIN W.s.entries THEN W.s.entries[op.type] ELSE 0
      named == \E o \in ToSet(doc.ops) : o.id > op.id /\ o.name = op.name
      seen  == With(Use(c, {op}, VariablesOf([args |-> <<>>, dirs |-> op.dirs])),
                    Err(op.name = "" /\ Len(doc.ops) # 1, "LoneAnonymousOperation")
                      \union Err(op.name # "" /\ named, "UniqueOperationNames")
                      \union validateDirectives({op}, Locations[op.type], op.dirs)
                      \union Err(Duplicates(op.vars), "UniqueVariableNames")
                      \union VariableErrors(op))
  IN validateSelectionSet(doc, seen, {op}, op.sels, entry)

UsedFragments(doc, op) == markUsedFragments(doc, op.sels, {})

UsedBy(doc, frag) == {op \in ToSet(doc.ops) : frag.id \in UsedFragments(doc, op)}

(* x is [c, visited, cycle].                                                *)
validateFragment(doc, x, frag) ==
  LET ops  == UsedBy(doc, frag)
      on   == Lookup(frag.on)
      seen == With(Use(x.c, ops, VariablesOf([args |-> <<>>, dirs |-> frag.dirs])),
                   validateDirectives(ops, "FRAGMENT_DEFINITION", frag.dirs)
                     \union Err(on = 0, "KnownTypeNames"))
      done == [x EXCEPT !.c = validateSelectionSet(doc, seen, ops, frag.sels, on)]
  IN CASE on # 0 /\ ~canBeFragment(on) -> [x EXCEPT !.c = With(seen, {"FragmentsOnCompositeTypes"})]
       [] frag.id \in x.visited -> done
       [] OTHER -> detectFragmentCycle(doc, frag.sels, done, {frag.name})

UnusedVariable(c, op) == \E v \in ToSet(op.vars) : <<op.id, v.name>> \notin c.used

Depths(doc, maxDepth) == [i \in DOMAIN doc.ops |-> validateMaxDepth(doc, maxDepth, doc.ops[i].sels, 1, {})]

Ended(c) == IF "panic" \in c.errs THEN "panic" ELSE "ended"

(* How the walk ended ("ended", "panic", or "endless"), with which errors,  *)
(* and the Schema each field got.  An operation that is too deep ends it;   *)
(* the operations before it have been validated.                            *)
Validate(doc, maxDepth) ==
  LET depths == Depths(doc, maxDepth)
      deep   == {i \in DOMAIN depths : depths[i].exceeded \/ depths[i].endless}
      first  == CHOOSE i \in deep : \A j \in deep : i <= j
      upto   == IF deep = {} THEN Len(doc.ops) ELSE first - 1
      opsSeen == FoldLeft(LAMBDA c, op : validateOperation(doc, c, op), NoContext, SubSeq(doc.ops, 1, upto))
      depthErrs == UNION {depths[i].errs : i \in 1 .. IF deep = {} THEN upto ELSE first}
      frags  == FoldLeft(LAMBDA x, f : validateFragment(doc, x, f),
                         [c |-> opsSeen, visited |-> {}, cycle |-> FALSE], doc.frags)
  IN IF deep # {}
     THEN [end |-> IF depths[first].endless THEN "endless" ELSE Ended(opsSeen),
           errs |-> (opsSeen.errs \ {"NoUndefinedVariables"}) \union depthErrs, info |-> opsSeen.info]
     ELSE [end |-> Ended(frags.c), info |-> frags.c.info,
           errs |-> frags.c.errs \union depthErrs
                      \union Err(frags.cycle, "NoFragmentCycles")
                      \union Err(Duplicates(doc.frags), "UniqueFragmentNames")
                      \union Err(\E f \in ToSet(doc.frags) : UsedBy(doc, f) = {}, "NoUnusedFragments")
                      \union Err(\E op \in ToSet(doc.ops) : UnusedVariable(frags.c, op), "NoUnusedVariables")]
=============================================================================
