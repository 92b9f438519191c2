----------------------------- MODULE SchemaTypes -----------------------------
(* What New, Parse, ResolveTypes and RenameTypes make of a schema.          *)
(*                                                                          *)
(* Types are shared and updated in place, so they live on a heap and are    *)
(* referred to by address.  A world w is the heap, the schema at work and   *)
(* how the operation ended: "" while it runs, "ok", "error" (the error that *)
(* Parse returns) or "panic".                                               *)
EXTENDS SyntaxTree

CONSTANT Meta   \* the world of the built-in types and directives, which every schema shares

-----------------------------------------------------------------------------
(* New and the built-in schema that every schema shares. *)

NoTypes == [types |-> <<>>, decls |-> <<>>, dirs |-> <<>>, entryNames |-> <<>>, entries |-> <<>>]

World(h, s) == [h |-> h, s |-> s, end |-> ""]

NewSchema == [NoTypes EXCEPT !.types = Meta.s.types, !.decls = Meta.s.decls]

-----------------------------------------------------------------------------
(* parseSchema: what a declaration does. *)

Declare(w, t) ==
  [w EXCEPT !.h = Append(@, t), !.s.types = Put(@, t.name, Len(w.h) + 1)]

Joined(d, e) == CASE d.show = "No" -> e
                  [] e.show = "No" -> d
                  [] OTHER         -> [d EXCEPT !.text = @ \o "\n" \o e.text]

alterAdd(w, t) ==
  LET a == w.s.types[t.name]
      e == w.h[a]
  IN IF t.name \notin DOMAIN w.s.types THEN Declare(w, t)
     ELSE IF e.kind # "OBJECT" THEN [w EXCEPT !.end = "error"]
     ELSE [w EXCEPT !.h[a] = [e EXCEPT !.dirs  = @ \o t.dirs,
                                       !.items = @ \o t.items,
                                       !.names = @ \o t.names,
                                       !.desc  = Joined(@, t.desc)]]

(* The interfaces are asked for their names: one that a ResolveTypes which  *)
(* failed has left nil panics, before the names of interfaces are dropped.  *)
alterDrop(w, t) ==
  LET a == w.s.types[t.name]
      e == w.h[a]
      lesser == [e EXCEPT !.dirs  = SelectSeq(@, LAMBDA d : ~Has(t.dirs, d.name)),
                          !.items = Kept(@, {i \in DOMAIN @ : ~Has(t.items, @[i].name)})]
  IN IF t.name \notin DOMAIN w.s.types THEN w
     ELSE IF e.kind # "OBJECT" THEN [w EXCEPT !.end = "error"]
     ELSE IF 0 \in ToSet(e.interfaces) THEN [w EXCEPT !.h[a] = lesser, !.end = "panic"]
     ELSE [w EXCEPT !.h[a] =
             [lesser EXCEPT !.names = Kept(@, {i \in DOMAIN @ : @[i] \notin ToSet(t.names)})]]

(* The @graphql directive of a type declaration says how it meets a type of *)
(* the same name; the directive itself is not kept.                         *)
Mode(d, arg) == Get(d.args, arg).value

declareObject(w, t) ==
  LET d    == Get(t.dirs, "graphql")
      rest == [t EXCEPT !.dirs = Remove(@, d)]
  IN CASE ~Has(t.dirs, "graphql") -> Declare(w, t)
       [] Has(d.args, "alter") /\ Says(Mode(d, "alter"), "add")  -> alterAdd(w, rest)
       [] Has(d.args, "alter") /\ Says(Mode(d, "alter"), "drop") -> alterDrop(w, rest)
       [] ~Has(d.args, "alter") /\ Has(d.args, "if") /\ Says(Mode(d, "if"), "missing") ->
            IF t.name \in DOMAIN w.s.types THEN w ELSE Declare(w, rest)
       [] OTHER -> [w EXCEPT !.end = "panic"]

declareSchema(w, d) ==
  [w EXCEPT !.s.dirs = d.dirs,
            !.s.entryNames = FoldLeft(LAMBDA es, e : Put(es, e[1], e[2]), @, d.entries)]

Declaration(w, d) ==
  CASE d.word = "schema"    -> declareSchema(w, d.v)
    [] d.word = "directive" -> [w EXCEPT !.s.decls = Put(@, d.v.name, d.v)]
    [] d.word = "type"      -> declareObject(w, d.v)
    [] OTHER                -> Declare(w, d.v)

(* A text is the sequence of its declarations, of which a syntax error cuts *)
(* the last one short: a schema block has stored its directives, when these *)
(* were read, and the entry points before the error; any other declaration  *)
(* is lost.                                                                 *)
parseNext(w, d) ==
  IF w.end # "" THEN w
  ELSE IF d.whole THEN Declaration(w, d)
  ELSE [(IF d.word = "schema" /\ d.v.begun THEN declareSchema(w, d.v) ELSE w) EXCEPT !.end = "error"]

AfterEach(w, ds) ==
  LET after[i \in 0 .. Len(ds)] == IF i = 0 THEN w ELSE parseNext(after[i - 1], ds[i])
  IN after

parseSchema(w, ds) == AfterEach(w, ds)[Len(ds)]

-----------------------------------------------------------------------------
(* ResolveTypes.  The code ranges over maps, whose order Go does not fix:   *)
(* when every element succeeds the order does not show, and when some do not*)
(* the elements before the first one that fails have been updated, whichever*)
(* they are, and the failing one in part.                                   *)

Resolvable(s, t) == t.to # 0 \/ t.name \in DOMAIN s.types

ResolveType(s, t) == IF t.to = 0 /\ Resolvable(s, t) THEN [t EXCEPT !.to = s.types[t.name]] ELSE t

(* A loop over a sequence that stops at the first element that fails.       *)
Until(seq, Ok(_), Update(_)) ==
  [i \in DOMAIN seq |-> IF \A j \in 1 .. i - 1 : Ok(seq[j]) THEN Update(seq[i]) ELSE seq[i]]

AllOk(seq, Ok(_)) == \A i \in DOMAIN seq : Ok(seq[i])

InputOk(s, v) == Resolvable(s, v.type)

resolveInputObject(s, vs) ==
  Until(vs, LAMBDA v : InputOk(s, v), LAMBDA v : [v EXCEPT !.type = ResolveType(s, @)])

DirectiveOk(s, d) == d.name \in DOMAIN s.decls /\ Names(d.args) \subseteq Names(s.decls[d.name].args)

resolveDirectives(s, ds) ==
  LET Missing(d)  == Kept(s.decls[d.name].args,
                          {i \in DOMAIN s.decls[d.name].args : ~Has(d.args, s.decls[d.name].args[i].name)})
      Default(a)  == [name |-> a.name, value |-> a.default]
      Complete(d) == IF ~DirectiveOk(s, d) THEN d
                     ELSE [d EXCEPT !.args = @ \o [i \in DOMAIN Missing(d) |-> Default(Missing(d)[i])]]
  IN Until(ds, LAMBDA d : DirectiveOk(s, d), Complete)

DirectivesOk(s, ds) == AllOk(ds, LAMBDA d : DirectiveOk(s, d))
InputsOk(s, vs)     == AllOk(vs, LAMBDA v : InputOk(s, v))

FieldOk(s, f) == Resolvable(s, f.type) /\ DirectivesOk(s, f.dirs) /\ InputsOk(s, f.args)

\* Mutated form: a field whose type was resolved before is done.
resolveFieldOnce(s, f) ==
  [f EXCEPT !.type = ResolveType(s, @),
            !.dirs = IF f.type.to = 0 THEN resolveDirectives(s, @) ELSE @,
            !.args = IF f.type.to = 0 THEN resolveInputObject(s, @) ELSE @]

resolveField(s, f) ==
  LET typed == Resolvable(s, f.type)
  IN [f EXCEPT !.type = ResolveType(s, @),
               !.dirs = IF typed THEN resolveDirectives(s, @) ELSE @,
               !.args = IF typed /\ DirectivesOk(s, f.dirs) THEN resolveInputObject(s, @) ELSE @]

NamedTypeOk(s, t) ==
  CASE t.kind \in {"OBJECT", "INTERFACE"} -> AllOk(t.items, LAMBDA f : FieldOk(s, f))
    [] t.kind = "INPUT_OBJECT"            -> InputsOk(s, t.items)
    [] OTHER                              -> TRUE

SortField(f) == [f EXCEPT !.args = SortByName(@), !.dirs = SortDirectives(@)]

Sort(t) ==
  LET SortItem(x) == IF t.kind \in {"OBJECT", "INTERFACE"} THEN SortField(x)
                     ELSE [x EXCEPT !.dirs = SortDirectives(@)]
  IN IF t.kind = "SCALAR" THEN t
     ELSE [t EXCEPT !.items = SortByName([i \in DOMAIN @ |-> SortItem(@[i])]),
                    !.dirs  = SortDirectives(@),
                    !.names = SortNames(@)]

resolveNamedType(s, t) ==
  LET resolved ==
        CASE t.kind \in {"OBJECT", "INTERFACE"} ->
               [t EXCEPT !.items = Until(@, LAMBDA f : FieldOk(s, f), LAMBDA f : resolveField(s, f))]
          [] t.kind = "INPUT_OBJECT" -> [t EXCEPT !.items = resolveInputObject(s, @)]
          [] OTHER -> t
  IN IF NamedTypeOk(s, t) THEN Sort(resolved) ELSE resolved

Addresses(s) == {s.types[n] : n \in DOMAIN s.types}

OfKind(w, kind) == {a \in Addresses(w.s) : w.h[a].kind = kind}

(* One range over a map, of whose keys those of good succeed: the keys it   *)
(* comes to and how it ends.  What is done at a key looks at nothing that   *)
(* is done at another.                                                      *)
Ranged(keys, good) ==
  IF good = keys THEN {[to |-> keys, end |-> ""]}
  ELSE {[to |-> done \union {bad}, end |-> "error"] : done \in SUBSET good, bad \in keys \ good}

resolveNamedTypes(w) ==
  {[w EXCEPT !.h = [a \in DOMAIN w.h |-> IF a \in r.to THEN resolveNamedType(w.s, w.h[a])
                                         ELSE w.h[a]],
             !.end = r.end] :
     r \in Ranged(Addresses(w.s), {a \in Addresses(w.s) : NamedTypeOk(w.s, w.h[a])})}

resolveDirectiveDecl(s, d) == [d EXCEPT !.args = resolveInputObject(s, SortByName(@))]

resolveDirectiveDecls(w) ==
  LET ds == w.s.decls
  IN {[w EXCEPT !.s.decls = [n \in DOMAIN ds |-> IF n \in r.to THEN resolveDirectiveDecl(w.s, ds[n])
                                                 ELSE ds[n]],
                !.end = r.end] :
        r \in Ranged(DOMAIN ds, {n \in DOMAIN ds : InputsOk(w.s, ds[n].args)})}

EntryOk(w, op) == w.s.entryNames[op] \in DOMAIN w.s.types

\* The entry points after those of ops, which are declared.
EntryPoints(w, ops) == [op \in ops |-> w.s.types[w.s.entryNames[op]]]

\* Mutated form: an entry point that was resolved before is left alone.
resolveEntryPointsOnce(w) ==
  {[w EXCEPT !.s.entries = Over(@, EntryPoints(w, {op \in r.to : EntryOk(w, op)})), !.end = r.end] :
     r \in Ranged(DOMAIN w.s.entryNames, {op \in DOMAIN w.s.entryNames : EntryOk(w, op)})}

resolveEntryPoints(w) ==
  {[w EXCEPT !.s.entries = Over(EntryPoints(w, {op \in r.to : EntryOk(w, op)}), @), !.end = r.end] :
     r \in Ranged(DOMAIN w.s.entryNames, {op \in DOMAIN w.s.entryNames : EntryOk(w, op)})}

\* Mutated form: a type of any kind will do.
IsDeclared(w, n, kind) == n \in DOMAIN w.s.types

IsA(w, n, kind) == n \in DOMAIN w.s.types /\ w.h[w.s.types[n]].kind = kind

(* Names looked up one after the other, until one is no type of the kind.   *)
LookedUp(w, ns, kind) ==
  [i \in DOMAIN ns |-> IF \A j \in 1 .. i : IsA(w, ns[j], kind) THEN w.s.types[ns[i]] ELSE 0]

AllAre(w, ns, kind) == \A i \in DOMAIN ns : IsA(w, ns[i], kind)

(* An object looks up its interfaces and adds itself to the possible types  *)
(* of each one it finds, which nothing ever empties.                        *)
linkInterfaces(w, a) ==
  LET found    == LookedUp(w, w.h[a].names, "INTERFACE")
      times(b) == Cardinality({i \in DOMAIN found : found[i] = b})
  IN [w EXCEPT !.h = [b \in DOMAIN w.h |->
                        IF b = a THEN [w.h[b] EXCEPT !.interfaces = found]
                        ELSE [w.h[b] EXCEPT !.possible = @ \o [k \in 1 .. times(b) |-> a]]],
               !.end = IF AllAre(w, w.h[a].names, "INTERFACE") THEN "" ELSE "error"]

\* Mutated form: an object that has its interfaces is left alone.
linkObjectOnce(w, a) ==
  IF w.end # "" \/ \E i \in DOMAIN w.h[a].interfaces : w.h[a].interfaces[i] # 0 THEN w
  ELSE linkInterfaces(w, a)

linkObject(w, a) == IF w.end # "" THEN w ELSE linkInterfaces(w, a)

(* The objects are taken in the order of their names.                       *)
AfterLinks(w) ==
  LET after[i \in 0 .. Len(Alphabet)] ==
        IF i = 0 THEN w
        ELSE IF ~IsA(w, Alphabet[i], "OBJECT") THEN after[i - 1]
        ELSE linkObject(after[i - 1], w.s.types[Alphabet[i]])
  IN after

linkObjects(w) == {AfterLinks(w)[Len(Alphabet)]}

linkUnions(w) ==
  LET unions == OfKind(w, "UNION")
      Link(t) == [t EXCEPT !.possible = LookedUp(w, t.names, "OBJECT")]
  IN {[w EXCEPT !.h = [a \in DOMAIN w.h |-> IF a \in r.to THEN Link(w.h[a]) ELSE w.h[a]],
                !.end = r.end] :
        r \in Ranged(unions, {a \in unions : AllAre(w, w.h[a].names, "OBJECT")})}

resolveEnums(w) ==
  LET enums      == OfKind(w, "ENUM")
      ValueOk(v) == DirectivesOk(w.s, v.dirs)
      Value(v)   == [v EXCEPT !.dirs = resolveDirectives(w.s, @)]
      Enum(t)    == [t EXCEPT !.items = Until(@, ValueOk, Value)]
  IN {[w EXCEPT !.h = [a \in DOMAIN w.h |-> IF a \in r.to THEN Enum(w.h[a]) ELSE w.h[a]],
                !.end = r.end] :
        r \in Ranged(enums, {a \in enums : AllOk(w.h[a].items, ValueOk)})}

Unended(worlds, Stage(_)) == UNION {IF w.end # "" THEN {w} ELSE Stage(w) : w \in worlds}

Stages(w) ==
  LET types    == Unended({w}, resolveNamedTypes)
      decls    == Unended(types, resolveDirectiveDecls)
      entries  == Unended(decls, resolveEntryPoints)
      objects  == Unended(entries, linkObjects)
      unions   == Unended(objects, linkUnions)
  IN Unended(unions, resolveEnums)

ResolveTypes(w) == {[v EXCEPT !.end = IF @ = "" THEN "ok" ELSE @] : v \in Stages(w)}

-----------------------------------------------------------------------------
(* RenameTypes gives the types of the map, and nothing else, new names; when*)
(* two types get one name, the map keeps the one it came to last.  A        *)
(* resolved reference is a pointer, so it shows the new name of its type.   *)

\* The names of built-in types stay.
NewName(to, n) == IF n \in DOMAIN to /\ n \notin DOMAIN Meta.s.types THEN to[n] ELSE n

\* The name the type at an address gets.
NameAfter(w, to, a) ==
  IF a \in Addresses(w.s) THEN NewName(to, CHOOSE n \in DOMAIN w.s.types : w.s.types[n] = a)
  ELSE w.h[a].name

\* The sets of names the map can be left with: one of each new name.
Kepts(s, to) ==
  LET new(n)   == NewName(to, n)
      names    == DOMAIN s.types
      sharing  == {n \in names : \E m \in names \ {n} : new(m) = new(n)}
      OneOf(K) == \A n \in sharing : \E k \in K : \A m \in K : new(m) = new(n) <=> m = k
  IN {(names \ sharing) \union K : K \in {L \in SUBSET sharing : OneOf(L)}}

RefShown(w, to, t) == IF t.to = 0 THEN t ELSE [t EXCEPT !.name = NameAfter(w, to, t.to)]

InputsShown(w, to, vs) ==
  [i \in DOMAIN vs |-> [vs[i] EXCEPT !.type = RefShown(w, to, @)]]

ItemsShown(w, to, t) ==
  CASE t.kind = "INPUT_OBJECT"            -> InputsShown(w, to, t.items)
    [] t.kind \in {"OBJECT", "INTERFACE"} ->
         [i \in DOMAIN t.items |-> [t.items[i] EXCEPT !.type = RefShown(w, to, @),
                                                      !.args = InputsShown(w, to, @)]]
    [] OTHER                              -> t.items

Renamed(w, to) ==
  LET renamed == [a \in DOMAIN w.h |-> [w.h[a] EXCEPT !.name  = NameAfter(w, to, a),
                                                      !.items = ItemsShown(w, to, w.h[a])]]
      decls   == [n \in DOMAIN w.s.decls |->
                    [w.s.decls[n] EXCEPT !.args = InputsShown(w, to, @)]]
  IN {[w EXCEPT !.h = renamed, !.s.decls = decls,
                !.s.types = [m \in {NewName(to, n) : n \in kept} |->
                               w.s.types[CHOOSE n \in kept : NewName(to, n) = m]]] :
        kept \in Kepts(w.s, to)}

-----------------------------------------------------------------------------
(* VisitDirective: the places the visitor is called at.  A place is the     *)
(* address of a type, an item of it (0 for the type itself), an argument of *)
(* the item (0 for none); the schema itself is <<0, 0, 0>>.  A list of      *)
(* directives is visited for its first directive of the name only.          *)

VisitDirective(w, decl) ==
  LET searched(loc) == loc \in ToSet(decl.locs)
      used(ds)      == Has(ds, decl.name)
      t(a)          == w.h[a]
      items(a)      == DOMAIN t(a).items
      Fielded       == OfKind(w, "OBJECT") \union OfKind(w, "INTERFACE")
      typesFor(kind) == IF searched(kind) THEN {a \in OfKind(w, kind) : used(t(a).dirs)} ELSE {}
      ItemsIn(loc, as) ==
        IF ~searched(loc) THEN {}
        ELSE UNION {{<<a, i, 0>> : i \in {j \in items(a) : used(t(a).items[j].dirs)}} : a \in as}
      Arguments ==
        IF ~searched("ARGUMENT_DEFINITION") THEN {}
        ELSE UNION {UNION {{<<a, i, k>> : k \in {j \in DOMAIN t(a).items[i].args :
                                                   used(t(a).items[i].args[j].dirs)}} :
                             i \in items(a)} : a \in Fielded}
  IN (IF searched("SCHEMA") /\ used(w.s.dirs) THEN {<<0, 0, 0>>} ELSE {})
       \union {<<a, 0, 0>> : a \in UNION {typesFor(kind) : kind \in Kinds}}
       \union ItemsIn("FIELD_DEFINITION", Fielded)
       \union ItemsIn("ENUM_VALUE", OfKind(w, "ENUM"))
       \union ItemsIn("INPUT_FIELD_DEFINITION", OfKind(w, "INPUT_OBJECT"))
       \union Arguments

DirectivesAt(w, p) ==
  CASE p[1] = 0 -> w.s.dirs
    [] p[2] = 0 -> w.h[p[1]].dirs
    [] p[3] = 0 -> w.h[p[1]].items[p[2]].dirs
    [] OTHER    -> w.h[p[1]].items[p[2]].args[p[3]].dirs
=============================================================================
