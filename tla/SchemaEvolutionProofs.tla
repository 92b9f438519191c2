------------------------ MODULE SchemaEvolutionProofs ------------------------
(* Proofs about module SchemaEvolution: whatever texts a program parses into *)
(* a schema, in whatever order and however some of them fail, SchemaInv     *)
(* holds, types stay, and after a Parse that succeeds ResolvedIsComplete and*)
(* VisitorSeesDefaults hold.                                                *)
EXTENDS SchemaEvolution, SyntaxTreeProofs

-----------------------------------------------------------------------------
(* The inductive invariant.  The addresses that a part of a type may refer  *)
(* to are a parameter: all of them and 0 while a schema is at work, and all *)
(* but 0 when its references are resolved.                                  *)

RefIn(r, A) == DOMAIN r = {"wrap", "name", "to"} /\ r.to \in A

InputIn(v, A) ==
  /\ DOMAIN v = {"name", "type", "default", "desc", "dirs"}
  /\ RefIn(v.type, A)

InputsIn(vs, A) == IsList(vs) /\ \A i \in DOMAIN vs : InputIn(vs[i], A)

DirIn(d) == DOMAIN d = {"name", "args"} /\ IsList(d.args)

DirsIn(ds) == IsList(ds) /\ \A i \in DOMAIN ds : DirIn(ds[i])

FieldIn(f, A) ==
  /\ DOMAIN f = {"name", "args", "type", "dirs", "desc"}
  /\ RefIn(f.type, A)
  /\ InputsIn(f.args, A)
  /\ DirsIn(f.dirs)

ValueIn(x) == DOMAIN x = {"name", "dirs", "desc"} /\ DirsIn(x.dirs)

ItemIn(kind, x, A) ==
  /\ kind \in {"OBJECT", "INTERFACE"} => FieldIn(x, A)
  /\ kind = "INPUT_OBJECT" => InputIn(x, A)
  /\ kind = "ENUM" => ValueIn(x)

ItemsIn(kind, items, A) == IsList(items) /\ \A i \in DOMAIN items : ItemIn(kind, items[i], A)

(* A type on a heap: its references and its lists of addresses stay within  *)
(* the heap, an object lists interfaces, an interface or a union objects.   *)
TypeShape(t) ==
  /\ DOMAIN t = {"kind", "name", "desc", "dirs", "items", "names", "interfaces", "possible"}
  /\ t.kind \in Kinds

AddressesOf(h, as, kind) ==
  /\ as \in Seq(0 .. Len(h))
  /\ \A i \in DOMAIN as : as[i] # 0 => h[as[i]].kind = kind

TypeOn(h, t) ==
  /\ TypeShape(t)
  /\ ItemsIn(t.kind, t.items, 0 .. Len(h))
  /\ IsList(t.names)
  /\ AddressesOf(h, t.interfaces, "INTERFACE")
  /\ AddressesOf(h, t.possible, "OBJECT")
  /\ t.kind # "OBJECT" => t.interfaces = <<>>

HeapInv(h) == IsList(h) /\ \A a \in DOMAIN h : TypeOn(h, h[a])

TypesOn(h, types) ==
  \A n \in DOMAIN types : n \in ToSet(Alphabet) /\ types[n] \in DOMAIN h /\ h[types[n]].name = n

DeclIn(d, A) ==
  /\ DOMAIN d = {"name", "desc", "locs", "args"}
  /\ InputsIn(d.args, A)

WorldShape(w) ==
  /\ DOMAIN w = {"h", "s", "end"}
  /\ w.end # "ok"
  /\ DOMAIN w.s = {"types", "decls", "dirs", "entryNames", "entries"}

WorldInv(w) ==
  /\ WorldShape(w)
  /\ HeapInv(w.h)
  /\ TypesOn(w.h, w.s.types)
  /\ \A n \in DOMAIN w.s.decls : w.s.decls[n].name = n /\ DeclIn(w.s.decls[n], 0 .. Len(w.h))

(* What no step but a renaming ever changes of a type. *)
Stays(h, g, a) == a \in DOMAIN g /\ g[a].kind = h[a].kind /\ g[a].name = h[a].name

Grown(h, g) == \A a \in DOMAIN h : Stays(h, g, a)

Keeps(w, v) == WorldInv(v) /\ Grown(w.h, v.h)

LEMMA GrownOn ==
  ASSUME NEW f, NEW g, NEW h, Grown(f, g), Grown(g, h)
  PROVE  Grown(f, h)
BY DEF Grown, Stays

LEMMA Widen ==
  ASSUME NEW A, NEW B, A \subseteq B
  PROVE  /\ \A vs : InputsIn(vs, A) => InputsIn(vs, B)
         /\ \A kind, items : ItemsIn(kind, items, A) => ItemsIn(kind, items, B)
         /\ \A d : DeclIn(d, A) => DeclIn(d, B)
<1>1. \A r : RefIn(r, A) => RefIn(r, B) BY DEF RefIn
<1>2. \A v : InputIn(v, A) => InputIn(v, B) BY <1>1 DEF InputIn
<1>3. \A vs : InputsIn(vs, A) => InputsIn(vs, B) BY <1>2 DEF InputsIn
<1>4. \A f : FieldIn(f, A) => FieldIn(f, B) BY <1>1, <1>3 DEF FieldIn
<1>5. \A kind, x : ItemIn(kind, x, A) => ItemIn(kind, x, B) BY <1>2, <1>4 DEF ItemIn
<1>6. \A kind, items : ItemsIn(kind, items, A) => ItemsIn(kind, items, B) BY <1>5 DEF ItemsIn
<1>7. \A d : DeclIn(d, A) => DeclIn(d, B) BY <1>3 DEF DeclIn
<1>. QED BY <1>3, <1>6, <1>7

LEMMA ReadIn ==
  ASSUME NEW A, 0 \in A
  PROVE  /\ \A vs : AreInputsRead(vs) => InputsIn(vs, A)
         /\ \A kind, x : IsItemRead(kind, x) => ItemIn(kind, x, A)
         /\ \A d : IsDirectiveDeclRead(d) => DeclIn(d, A)
<1>1. \A r : IsTypeRead(r) => RefIn(r, A) BY DEF IsTypeRead, RefIn
<1>2. \A v : IsInputRead(v) => InputIn(v, A) BY <1>1 DEF IsInputRead, InputIn
<1>3. \A vs : AreInputsRead(vs) => InputsIn(vs, A) BY <1>2 DEF AreInputsRead, InputsIn
<1>7. \A ds : AreDirectivesRead(ds) => DirsIn(ds) BY DEF AreDirectivesRead, DirsIn, DirIn
<1>4. \A f : IsFieldRead(f) => FieldIn(f, A) BY <1>1, <1>3, <1>7 DEF IsFieldRead, FieldIn
<1>8. \A v : IsValueRead(v) => ValueIn(v) BY <1>7 DEF IsValueRead, ValueIn
<1>5. \A kind, x : IsItemRead(kind, x) => ItemIn(kind, x, A)
  BY <1>2, <1>4, <1>8 DEF IsItemRead, ItemIn
<1>6. \A d : IsDirectiveDeclRead(d) => DeclIn(d, A)
  BY <1>3 DEF IsDirectiveDeclRead, DeclIn
<1>. QED BY <1>3, <1>5, <1>6

(* A type as it was read fits on any heap. *)
LEMMA ReadTypeOn ==
  ASSUME NEW h, IsList(h), NEW t, IsNamedTypeRead(t)
  PROVE  TypeOn(h, t) /\ t.name \in ToSet(Alphabet)
<1>1. Len(h) \in Nat BY ListFacts
<1>2. TypeShape(t) /\ t.interfaces = <<>> /\ t.possible = <<>>
  BY DEF IsNamedTypeRead, TypeShape
<1>3. ItemsIn(t.kind, t.items, 0 .. Len(h))
  <2>1. 0 \in 0 .. Len(h) BY <1>1
  <2>. QED BY <2>1, ReadIn DEF IsNamedTypeRead, ItemsIn
<1>4. \A kind : AddressesOf(h, <<>>, kind)
  BY DEF AddressesOf
<1>. QED BY <1>2, <1>3, <1>4 DEF TypeOn, IsNamedTypeRead

(* Whether a type fits on a heap depends on the kinds of those already there.*)
LEMMA OtherHeap ==
  ASSUME NEW h, NEW g, NEW t, TypeOn(h, t), IsList(h), IsList(g), Len(h) <= Len(g),
         \A a \in DOMAIN h : g[a].kind = h[a].kind
  PROVE  TypeOn(g, t)
<1>1. Len(h) \in Nat /\ Len(g) \in Nat /\ DOMAIN h = 1 .. Len(h)
  BY ListFacts
<1>2. 0 .. Len(h) \subseteq 0 .. Len(g)
  BY <1>1
<1>3. ItemsIn(t.kind, t.items, 0 .. Len(g))
  BY <1>2, Widen DEF TypeOn
<1>4. ASSUME NEW as, NEW kind, AddressesOf(h, as, kind) PROVE AddressesOf(g, as, kind)
  <2>1. as \in Seq(0 .. Len(g))
    BY <1>2, <1>4, SeqMonotonic DEF AddressesOf
  <2>2. ASSUME NEW i \in DOMAIN as, as[i] # 0 PROVE g[as[i]].kind = kind
    <3>1. as[i] \in 0 .. Len(h)
      BY <1>4, LenProperties, ElementOfSeq DEF AddressesOf
    <3>2. as[i] \in DOMAIN h
      <4>1. \A x \in 0 .. Len(h) : x # 0 => x \in 1 .. Len(h) BY <1>1
      <4>. QED BY <1>1, <2>2, <3>1, <4>1, Zenon
    <3>. QED BY <1>4, <2>2, <3>2 DEF AddressesOf
  <2>. QED BY <2>1, <2>2 DEF AddressesOf
<1>. QED BY <1>3, <1>4 DEF TypeOn

LEMMA UpdatedHeap ==
  ASSUME NEW h, HeapInv(h), NEW g, g = [a \in DOMAIN h |-> g[a]],
         \A a \in DOMAIN h : TypeOn(h, g[a]) /\ g[a].kind = h[a].kind
  PROVE  HeapInv(g) /\ Len(g) = Len(h) /\ DOMAIN g = DOMAIN h
<1>1. Len(h) \in Nat /\ DOMAIN h = 1 .. Len(h)
  BY ListFacts DEF HeapInv
<1>2. IsList(g) /\ Len(g) = Len(h) /\ DOMAIN g = DOMAIN h
  BY <1>1, MappedList
<1>3. ASSUME NEW a \in DOMAIN g PROVE TypeOn(g, g[a])
  BY <1>1, <1>2, OtherHeap DEF HeapInv
<1>. QED BY <1>2, <1>3 DEF HeapInv

(* What most stages do: types change in place, keeping their kinds and names.*)
LEMMA UpdatedWorld ==
  ASSUME NEW w, WorldInv(w), NEW g, g = [a \in DOMAIN w.h |-> g[a]],
         \A a \in DOMAIN w.h : /\ TypeOn(w.h, g[a])
                               /\ g[a].kind = w.h[a].kind
                               /\ g[a].name = w.h[a].name,
         NEW e, e # "ok"
  PROVE  Keeps(w, [w EXCEPT !.h = g, !.end = e])
<1>. DEFINE v == [w EXCEPT !.h = g, !.end = e]
<1>1. /\ v.h = g
      /\ v.s = w.s
      /\ WorldShape(v)
  BY DEF WorldInv, WorldShape
<1>2. HeapInv(g) /\ Len(g) = Len(w.h) /\ DOMAIN g = DOMAIN w.h
  BY UpdatedHeap DEF WorldInv
<1>. HIDE DEF v
<1>3. TypesOn(g, w.s.types)
  BY <1>2 DEF WorldInv, TypesOn
<1>4. WorldInv(v)
  BY <1>1, <1>2, <1>3 DEF WorldInv
<1>5. Grown(w.h, v.h)
  BY <1>1, <1>2 DEF Grown, Stays
<1>. QED BY <1>4, <1>5 DEF Keeps, v

-----------------------------------------------------------------------------
(* What a declaration does. *)

LEMMA EndedWorld ==
  ASSUME NEW w, WorldInv(w), NEW e, e # "ok"
  PROVE  Keeps(w, [w EXCEPT !.end = e])
<1>. DEFINE v == [w EXCEPT !.end = e]
<1>1. v.h = w.h /\ v.s = w.s /\ WorldShape(v)
  BY DEF WorldInv, WorldShape
<1>. HIDE DEF v
<1>2. Keeps(w, v)
  BY <1>1 DEF WorldInv, Keeps, Grown, Stays
<1>. QED BY <1>2 DEF v

LEMMA DeclaredWorld ==
  ASSUME NEW w, WorldInv(w), NEW t, TypeOn(w.h, t), t.name \in ToSet(Alphabet)
  PROVE  Keeps(w, Declare(w, t))
<1>. DEFINE v     == Declare(w, t)
            g     == Append(w.h, t)
            types == Put(w.s.types, t.name, Len(w.h) + 1)
<1>1. v.h = g /\ v.s = [w.s EXCEPT !.types = types] /\ v.end = w.end /\ DOMAIN v = DOMAIN w
  BY DEF Declare, WorldInv, WorldShape
<1>2. /\ v.s.types = types
      /\ v.s.decls = w.s.decls
      /\ WorldShape(v)
  BY <1>1 DEF WorldInv, WorldShape
<1>3. /\ Len(w.h) \in Nat
      /\ DOMAIN w.h = 1 .. Len(w.h)
      /\ IsList(g)
      /\ Len(g) = Len(w.h) + 1
      /\ DOMAIN g = 1 .. Len(w.h) + 1
      /\ \A a \in DOMAIN w.h : g[a] = w.h[a]
      /\ g[Len(w.h) + 1] = t
  BY ListFacts, AppendedList DEF WorldInv, HeapInv
<1>. HIDE DEF g, v
<1>4. HeapInv(g)
  <2>1. ASSUME NEW x, TypeOn(w.h, x) PROVE TypeOn(g, x)
    BY <1>3, <2>1, OtherHeap DEF WorldInv, HeapInv
  <2>2. \A a \in DOMAIN g : a \in DOMAIN w.h \/ a = Len(w.h) + 1
    BY <1>3
  <2>. QED BY <1>3, <2>1, <2>2 DEF WorldInv, HeapInv
<1>5. TypesOn(g, types)
  <2>1. DOMAIN types = {t.name} \union DOMAIN w.s.types
    BY DEF Put
  <2>2. types[t.name] = Len(w.h) + 1
    BY DEF Put
  <2>3. \A n \in DOMAIN w.s.types : n # t.name => types[n] = w.s.types[n]
    BY DEF Put
  <2>4. Len(w.h) + 1 \in DOMAIN g /\ DOMAIN w.h \subseteq DOMAIN g
    BY <1>3
  <2>. HIDE DEF types
  <2>. QED BY <1>3, <2>1, <2>2, <2>3, <2>4 DEF TypesOn, WorldInv
<1>6. \A n \in DOMAIN w.s.decls : w.s.decls[n].name = n /\ DeclIn(w.s.decls[n], 0 .. Len(g))
  <2>1. 0 .. Len(w.h) \subseteq 0 .. Len(g) BY <1>3
  <2>. QED BY <2>1, Widen DEF WorldInv
<1>7. WorldInv(v)
  BY <1>1, <1>2, <1>4, <1>5, <1>6 DEF WorldInv
<1>8. Grown(w.h, v.h)
  BY <1>1, <1>3 DEF Grown, Stays
<1>. QED BY <1>7, <1>8 DEF Keeps, v

(* An update of one type. *)
LEMMA UpdatedType ==
  ASSUME NEW w, WorldInv(w), NEW a \in DOMAIN w.h, NEW t,
         TypeOn(w.h, t), t.kind = w.h[a].kind, t.name = w.h[a].name
  PROVE  Keeps(w, [w EXCEPT !.h[a] = t])
<1>. DEFINE g == [w.h EXCEPT ![a] = t]
            v == [w EXCEPT !.h[a] = t]
<1>1. /\ g = [b \in DOMAIN w.h |-> g[b]]
      /\ g[a] = t
      /\ \A b \in DOMAIN w.h : b # a => g[b] = w.h[b]
  OBVIOUS
<1>2. v.h = g /\ v.s = w.s /\ v.end = w.end /\ DOMAIN v = DOMAIN w
  BY DEF WorldInv, WorldShape
<1>. HIDE DEF g, v
<1>3. \A b \in DOMAIN w.h : /\ TypeOn(w.h, g[b])
                            /\ g[b].kind = w.h[b].kind
                            /\ g[b].name = w.h[b].name
  BY <1>1 DEF WorldInv, HeapInv
<1>4. HeapInv(g) /\ Len(g) = Len(w.h) /\ DOMAIN g = DOMAIN w.h
  BY <1>1, <1>3, UpdatedHeap DEF WorldInv
<1>5. TypesOn(g, w.s.types)
  BY <1>3, <1>4 DEF WorldInv, TypesOn
<1>6. WorldInv(v)
  BY <1>2, <1>4, <1>5 DEF WorldInv, WorldShape
<1>7. Grown(w.h, v.h)
  BY <1>2, <1>3, <1>4 DEF Grown, Stays
<1>. QED BY <1>6, <1>7 DEF Keeps, v

LEMMA ConcatItems ==
  ASSUME NEW kind, NEW A, NEW s, NEW t, ItemsIn(kind, s, A), ItemsIn(kind, t, A)
  PROVE  ItemsIn(kind, s \o t, A)
<1>1. \A x \in ToSet(s) \union ToSet(t) : ItemIn(kind, x, A)
  BY DEF ToSet, ItemsIn
<1>. QED BY <1>1, ConcatList DEF ItemsIn

LEMMA KeptItems ==
  ASSUME NEW kind, NEW A, NEW s, ItemsIn(kind, s, A), NEW I, I \subseteq DOMAIN s
  PROVE  ItemsIn(kind, Kept(s, I), A)
BY KeptFacts DEF ItemsIn

LEMMA AddedWorld ==
  ASSUME NEW w, WorldInv(w), NEW t, TypeOn(w.h, t), t.name \in ToSet(Alphabet), t.kind = "OBJECT"
  PROVE  Keeps(w, alterAdd(w, t))
<1>. DEFINE a == w.s.types[t.name]
            e == w.h[a]
            u == [e EXCEPT !.dirs  = @ \o t.dirs,
                           !.items = @ \o t.items,
                           !.names = @ \o t.names,
                           !.desc  = Joined(@, t.desc)]
<1>1. CASE t.name \notin DOMAIN w.s.types
  BY <1>1, DeclaredWorld DEF alterAdd
<1>2. CASE t.name \in DOMAIN w.s.types /\ e.kind # "OBJECT"
  BY <1>2, EndedWorld DEF alterAdd
<1>3. CASE t.name \in DOMAIN w.s.types /\ e.kind = "OBJECT"
  <2>1. a \in DOMAIN w.h /\ TypeOn(w.h, e)
    BY <1>3 DEF WorldInv, TypesOn, HeapInv
  <2>2. /\ DOMAIN u = DOMAIN e
        /\ u.kind = e.kind
        /\ u.name = e.name
        /\ u.items = e.items \o t.items
        /\ u.names = e.names \o t.names
        /\ u.interfaces = e.interfaces
        /\ u.possible = e.possible
    BY <2>1 DEF TypeOn, TypeShape
  <2>3. ItemsIn(e.kind, e.items \o t.items, 0 .. Len(w.h))
    BY <1>3, <2>1, ConcatItems DEF TypeOn
  <2>4. IsList(e.names \o t.names)
    BY <2>1, ConcatList DEF TypeOn
  <2>5. alterAdd(w, t) = [w EXCEPT !.h[a] = u]
    BY <1>3 DEF alterAdd
  <2>. HIDE DEF u
  <2>6. TypeOn(w.h, u)
    BY <2>1, <2>2, <2>3, <2>4 DEF TypeOn, TypeShape
  <2>7. Keeps(w, [w EXCEPT !.h[a] = u])
    BY <2>1, <2>2, <2>6, UpdatedType
  <2>. QED BY <2>5, <2>7
<1>. QED BY <1>1, <1>2, <1>3

LEMMA DroppedWorld ==
  ASSUME NEW w, WorldInv(w), NEW t
  PROVE  Keeps(w, alterDrop(w, t))
<1>. DEFINE a == w.s.types[t.name]
            e == w.h[a]
            I == {i \in DOMAIN e.items : ~Has(t.items, e.items[i].name)}
            N == {i \in DOMAIN e.names : e.names[i] \notin ToSet(t.names)}
            lesser == [e EXCEPT !.dirs  = SelectSeq(@, LAMBDA d : ~Has(t.dirs, d.name)),
                                !.items = Kept(@, {i \in DOMAIN @ : ~Has(t.items, @[i].name)})]
            least == [lesser EXCEPT !.names = Kept(@, {i \in DOMAIN @ : @[i] \notin ToSet(t.names)})]
<1>1. CASE t.name \notin DOMAIN w.s.types
  BY <1>1 DEF alterDrop, Keeps, Grown, Stays
<1>2. CASE t.name \in DOMAIN w.s.types /\ e.kind # "OBJECT"
  BY <1>2, EndedWorld DEF alterDrop
<1>3. CASE t.name \in DOMAIN w.s.types /\ e.kind = "OBJECT"
  <2>1. a \in DOMAIN w.h /\ TypeOn(w.h, e)
    BY <1>3 DEF WorldInv, TypesOn, HeapInv
  <2>2. /\ DOMAIN lesser = DOMAIN e
        /\ lesser.kind = e.kind
        /\ lesser.name = e.name
        /\ lesser.items = Kept(e.items, I)
        /\ lesser.names = e.names
        /\ lesser.interfaces = e.interfaces
        /\ lesser.possible = e.possible
    BY <2>1 DEF TypeOn, TypeShape
  <2>3. ItemsIn(e.kind, Kept(e.items, I), 0 .. Len(w.h))
    BY <2>1, KeptItems DEF TypeOn
  <2>4. IsList(Kept(e.names, N))
    BY <2>1, KeptFacts DEF TypeOn
  <2>5. alterDrop(w, t) = IF 0 \in ToSet(e.interfaces) THEN [w EXCEPT !.h[a] = lesser, !.end = "panic"]
                          ELSE [w EXCEPT !.h[a] = least]
    BY <1>3 DEF alterDrop
  <2>. HIDE DEF lesser
  <2>6. TypeOn(w.h, lesser)
    BY <2>1, <2>2, <2>3 DEF TypeOn, TypeShape
  <2>7. /\ DOMAIN least = DOMAIN lesser
        /\ least.kind = e.kind
        /\ least.name = e.name
        /\ least.items = lesser.items
        /\ least.names = Kept(e.names, N)
        /\ least.interfaces = e.interfaces
        /\ least.possible = e.possible
    BY <2>1, <2>2 DEF TypeOn, TypeShape
  <2>. HIDE DEF least
  <2>8. TypeOn(w.h, least)
    BY <2>2, <2>4, <2>6, <2>7 DEF TypeOn, TypeShape
  <2>9. Keeps(w, [w EXCEPT !.h[a] = least])
    BY <2>1, <2>7, <2>8, UpdatedType
  <2>. DEFINE v == [w EXCEPT !.h[a] = lesser]
  <2>10. Keeps(w, v)
    BY <2>1, <2>2, <2>6, UpdatedType
  <2>11. Keeps(w, [v EXCEPT !.end = "panic"])
    <3>. HIDE DEF v
    <3>. QED BY <2>10, EndedWorld, GrownOn DEF Keeps
  <2>12. [[w EXCEPT !.h[a] = lesser] EXCEPT !.end = "panic"] = [w EXCEPT !.h[a] = lesser, !.end = "panic"]
    OBVIOUS
  <2>. QED BY <2>5, <2>9, <2>11, <2>12
<1>. QED BY <1>1, <1>2, <1>3

LEMMA DeclaredObject ==
  ASSUME NEW w, WorldInv(w), NEW t, IsNamedTypeRead(t), t.kind = "OBJECT"
  PROVE  Keeps(w, declareObject(w, t))
<1>. DEFINE d    == Get(t.dirs, "graphql")
            rest == [t EXCEPT !.dirs = Remove(@, d)]
<1>1. TypeOn(w.h, t) /\ t.name \in ToSet(Alphabet)
  BY ReadTypeOn DEF WorldInv, HeapInv
<1>2. /\ DOMAIN rest = DOMAIN t
      /\ rest.kind = t.kind
      /\ rest.name = t.name
      /\ rest.items = t.items
      /\ rest.names = t.names
      /\ rest.interfaces = t.interfaces
      /\ rest.possible = t.possible
  BY <1>1 DEF TypeOn, TypeShape
<1>3. declareObject(w, t) \in {Declare(w, t), alterAdd(w, rest), alterDrop(w, rest), w,
                               Declare(w, rest), [w EXCEPT !.end = "panic"]}
  BY Zenon DEF declareObject
<1>. HIDE DEF rest
<1>4. TypeOn(w.h, rest)
  BY <1>1, <1>2 DEF TypeOn, TypeShape
<1>5. /\ Keeps(w, Declare(w, t))
      /\ Keeps(w, alterAdd(w, rest))
      /\ Keeps(w, alterDrop(w, rest))
      /\ Keeps(w, Declare(w, rest))
      /\ Keeps(w, [w EXCEPT !.end = "panic"])
  BY <1>1, <1>2, <1>4, DeclaredWorld, AddedWorld, DroppedWorld, EndedWorld
<1>6. Keeps(w, w)
  BY DEF Keeps, Grown, Stays
<1>. QED BY <1>3, <1>5, <1>6

LEMMA DeclaredSchema ==
  ASSUME NEW w, WorldInv(w), NEW d
  PROVE  Keeps(w, declareSchema(w, d))
<1>. DEFINE v == declareSchema(w, d)
<1>1. v.h = w.h /\ v.s.types = w.s.types /\ v.s.decls = w.s.decls /\ WorldShape(v)
  BY DEF WorldInv, WorldShape, declareSchema
<1>. HIDE DEF v
<1>2. Keeps(w, v)
  BY <1>1 DEF WorldInv, Keeps, Grown, Stays
<1>. QED BY <1>2 DEF v

LEMMA DeclaredDirective ==
  ASSUME NEW w, WorldInv(w), NEW d, IsDirectiveDeclRead(d)
  PROVE  Keeps(w, [w EXCEPT !.s.decls = Put(@, d.name, d)])
<1>. DEFINE v == [w EXCEPT !.s.decls = Put(@, d.name, d)]
<1>1. /\ v.h = w.h
      /\ v.s.types = w.s.types
      /\ v.s.decls = Put(w.s.decls, d.name, d)
      /\ WorldShape(v)
  BY DEF WorldInv, WorldShape
<1>. HIDE DEF v
<1>2. DeclIn(d, 0 .. Len(w.h))
  <2>1. Len(w.h) \in Nat BY ListFacts DEF WorldInv, HeapInv
  <2>2. 0 \in 0 .. Len(w.h) BY <2>1
  <2>. QED BY <2>2, ReadIn
<1>3. \A n \in DOMAIN v.s.decls : v.s.decls[n].name = n /\ DeclIn(v.s.decls[n], 0 .. Len(v.h))
  BY <1>1, <1>2 DEF WorldInv, Put
<1>4. Keeps(w, v)
  BY <1>1, <1>3 DEF WorldInv, Keeps, Grown, Stays
<1>. QED BY <1>4 DEF v

LEMMA DeclaredNext ==
  ASSUME NEW w, WorldInv(w), NEW d, IsDeclarationRead(d)
  PROVE  Keeps(w, parseNext(w, d))
<1>0. Keeps(w, w) BY DEF Keeps, Grown, Stays
<1>1. ASSUME d.whole PROVE Keeps(w, Declaration(w, d))
  <2>1. CASE d.word = "schema"
    <3>1. Declaration(w, d) = declareSchema(w, d.v) BY <2>1, Zenon DEF Declaration
    <3>. QED BY <3>1, DeclaredSchema
  <2>2. CASE d.word = "directive"
    <3>1. "directive" # "schema" /\ "directive" # "type" OBVIOUS
    <3>2. Declaration(w, d) = [w EXCEPT !.s.decls = Put(@, d.v.name, d.v)]
      BY <2>2, <3>1, Zenon DEF Declaration
    <3>. QED BY <1>1, <2>2, <3>2, DeclaredDirective DEF IsDeclarationRead
  <2>3. CASE d.word = "type"
    <3>1. "type" # "schema" /\ "type" # "directive" OBVIOUS
    <3>2. Declaration(w, d) = declareObject(w, d.v)
      BY <2>3, <3>1, Zenon DEF Declaration
    <3>. QED BY <1>1, <2>3, <3>2, DeclaredObject DEF IsDeclarationRead
  <2>4. CASE d.word \notin {"schema", "directive", "type"}
    <3>1. Declaration(w, d) = Declare(w, d.v)
      BY <2>4, Zenon DEF Declaration
    <3>2. IsNamedTypeRead(d.v)
      BY <1>1, <2>4 DEF IsDeclarationRead
    <3>. QED BY <3>1, <3>2, ReadTypeOn, DeclaredWorld DEF WorldInv, HeapInv
  <2>. QED BY <2>1, <2>2, <2>3, <2>4
<1>2. CASE w.end # "" BY <1>0, <1>2 DEF parseNext
<1>3. CASE w.end = "" /\ d.whole BY <1>1, <1>3 DEF parseNext
<1>4. CASE w.end = "" /\ ~d.whole
  <2>. DEFINE v == IF d.word = "schema" /\ d.v.begun THEN declareSchema(w, d.v) ELSE w
  <2>1. Keeps(w, v) BY <1>0, DeclaredSchema
  <2>2. parseNext(w, d) = [v EXCEPT !.end = "error"] BY <1>4 DEF parseNext
  <2>. HIDE DEF v
  <2>. QED BY <2>1, <2>2, EndedWorld, GrownOn DEF Keeps
<1>. QED BY <1>2, <1>3, <1>4

(* One declaration after the other: the recursive function exists, because  *)
(* those of the shorter lists of declarations do.                           *)
LEMMA AfterEachExists ==
  ASSUME NEW w, NEW ds, NEW n \in Nat
  PROVE  \E g : g = [i \in 0 .. n |-> IF i = 0 THEN w ELSE parseNext(g[i - 1], ds[i])]
<1>. DEFINE S == {m \in 0 .. n : \E g : g = [i \in 0 .. m |-> IF i = 0 THEN w
                                                          ELSE parseNext(g[i - 1], ds[i])]}
<1>1. 0 \in S
  <2>. DEFINE f == [i \in 0 .. 0 |-> w]
  <2>1. \A i \in 0 .. 0 : f[i] = IF i = 0 THEN w ELSE parseNext(f[i - 1], ds[i])
    OBVIOUS
  <2>2. f = [i \in 0 .. 0 |-> f[i]]
    OBVIOUS
  <2>. HIDE DEF f
  <2>3. f = [i \in 0 .. 0 |-> IF i = 0 THEN w ELSE parseNext(f[i - 1], ds[i])]
    BY <2>1, <2>2
  <2>. QED BY <2>3
<1>2. ASSUME NEW m \in 0 .. n - 1, m \in S PROVE m + 1 \in S
  <2>1. PICK g : g = [i \in 0 .. m |-> IF i = 0 THEN w ELSE parseNext(g[i - 1], ds[i])]
    BY <1>2
  <2>. DEFINE f == [i \in 0 .. m + 1 |-> IF i = m + 1 THEN parseNext(g[m], ds[m + 1]) ELSE g[i]]
  <2>2. \A i \in 0 .. m + 1 : f[i] = IF i = 0 THEN w ELSE parseNext(f[i - 1], ds[i])
    <3>. TAKE i \in 0 .. m + 1
    <3>1. CASE i = m + 1 BY <3>1
    <3>2. CASE i = 0 BY <2>1, <3>2
    <3>3. CASE i # 0 /\ i # m + 1
      <4>1. i \in 0 .. m /\ i - 1 \in 0 .. m BY <3>3
      <4>2. g[i] = parseNext(g[i - 1], ds[i]) BY <2>1, <3>3, <4>1
      <4>3. f[i] = g[i] /\ f[i - 1] = g[i - 1] BY <3>3, <4>1
      <4>. QED BY <3>3, <4>2, <4>3
    <3>. QED BY <3>1, <3>2, <3>3
  <2>3. f = [i \in 0 .. m + 1 |-> f[i]] OBVIOUS
  <2>. HIDE DEF f
  <2>4. f = [i \in 0 .. m + 1 |-> IF i = 0 THEN w ELSE parseNext(f[i - 1], ds[i])]
    BY <2>2, <2>3
  <2>5. m + 1 \in 0 .. n OBVIOUS
  <2>. QED BY <2>4, <2>5
<1>3. n \in S
  <2>. HIDE DEF S
  <2>1. 0 .. n \subseteq S BY <1>1, <1>2, Induction
  <2>. QED BY <2>1
<1>. QED BY <1>3

LEMMA AfterEachIs ==
  ASSUME NEW w, NEW ds, IsList(ds)
  PROVE  /\ AfterEach(w, ds)[0] = w
         /\ \A i \in 1 .. Len(ds) : AfterEach(w, ds)[i] = parseNext(AfterEach(w, ds)[i - 1], ds[i])
<1>1. Len(ds) \in Nat BY ListFacts
<1>. DEFINE after == CHOOSE g : g = [i \in 0 .. Len(ds) |-> IF i = 0 THEN w
                                                            ELSE parseNext(g[i - 1], ds[i])]
<1>2. after = [i \in 0 .. Len(ds) |-> IF i = 0 THEN w ELSE parseNext(after[i - 1], ds[i])]
  BY <1>1, AfterEachExists
<1>3. AfterEach(w, ds) = after BY DEF AfterEach
<1>. HIDE DEF after
<1>. QED BY <1>1, <1>2, <1>3

LEMMA ParsedWorld ==
  ASSUME NEW w, WorldInv(w), NEW ds, AreDeclarationsRead(ds)
  PROVE  Keeps(w, parseSchema(w, ds))
<1>. DEFINE after == AfterEach(w, ds)
            S     == {i \in 0 .. Len(ds) : Keeps(w, after[i])}
<1>1. Len(ds) \in Nat /\ DOMAIN ds = 1 .. Len(ds)
  BY ListFacts DEF AreDeclarationsRead
<1>2. after[0] = w /\ \A i \in 1 .. Len(ds) : after[i] = parseNext(after[i - 1], ds[i])
  BY AfterEachIs DEF AreDeclarationsRead
<1>. HIDE DEF after
<1>3. 0 \in S BY <1>1, <1>2 DEF Keeps, Grown, Stays
<1>4. ASSUME NEW i \in 0 .. Len(ds) - 1, i \in S PROVE i + 1 \in S
  <2>1. i + 1 \in 1 .. Len(ds) /\ (i + 1) - 1 = i BY <1>1
  <2>2. after[i + 1] = parseNext(after[i], ds[i + 1]) BY <1>2, <2>1
  <2>3. IsDeclarationRead(ds[i + 1]) BY <1>1, <2>1 DEF AreDeclarationsRead
  <2>4. Keeps(after[i], after[i + 1]) BY <1>4, <2>2, <2>3, DeclaredNext DEF Keeps
  <2>5. Keeps(w, after[i + 1]) BY <1>4, <2>4, GrownOn DEF Keeps
  <2>. QED BY <1>1, <2>1, <2>5
<1>5. Len(ds) \in S
  <2>. HIDE DEF S
  <2>1. 0 .. Len(ds) \subseteq S BY <1>1, <1>3, <1>4, Induction
  <2>. QED BY <1>1, <2>1
<1>. QED BY <1>5 DEF parseSchema, after

-----------------------------------------------------------------------------
(* Resolving the references of a type: they stay within the heap, and those *)
(* that a stage without errors has come to are not 0 any more.              *)

Leads(s, N) == N \in Nat /\ \A n \in DOMAIN s.types : s.types[n] \in 1 .. N

LEMMA ResolvedRef ==
  ASSUME NEW s, NEW N, Leads(s, N), NEW r, RefIn(r, 0 .. N)
  PROVE  /\ RefIn(ResolveType(s, r), 0 .. N)
         /\ Resolvable(s, r) => RefIn(ResolveType(s, r), 1 .. N)
<1>1. CASE r.to = 0 /\ Resolvable(s, r)
  <2>1. ResolveType(s, r) = [r EXCEPT !.to = s.types[r.name]]
    BY <1>1 DEF ResolveType
  <2>2. s.types[r.name] \in 1 .. N
    BY <1>1 DEF Leads, Resolvable
  <2>3. RefIn(ResolveType(s, r), 1 .. N)
    BY <2>1, <2>2 DEF RefIn
  <2>. QED BY <2>3 DEF RefIn, Leads
<1>2. CASE r.to # 0
  <2>1. ResolveType(s, r) = r BY <1>2 DEF ResolveType
  <2>2. r.to \in 1 .. N BY <1>2 DEF RefIn, Leads
  <2>. QED BY <2>1, <2>2 DEF RefIn
<1>3. CASE ~Resolvable(s, r)
  BY <1>3 DEF ResolveType
<1>. QED BY <1>1, <1>2, <1>3

LEMMA ResolvedInputs ==
  ASSUME NEW s, NEW N, Leads(s, N), NEW vs, InputsIn(vs, 0 .. N)
  PROVE  /\ InputsIn(resolveInputObject(s, vs), 0 .. N)
         /\ InputsOk(s, vs) => InputsIn(resolveInputObject(s, vs), 1 .. N)
<1>. DEFINE us     == resolveInputObject(s, vs)
            Of(v)  == [v EXCEPT !.type = ResolveType(s, @)]
<1>1. us = [i \in DOMAIN vs |-> IF \A j \in 1 .. i - 1 : InputOk(s, vs[j]) THEN Of(vs[i]) ELSE vs[i]]
  BY DEF resolveInputObject, Until
<1>2. ASSUME NEW v, InputIn(v, 0 .. N)
      PROVE  InputIn(Of(v), 0 .. N) /\ (InputOk(s, v) => InputIn(Of(v), 1 .. N))
  <2>1. DOMAIN Of(v) = DOMAIN v /\ Of(v).type = ResolveType(s, v.type)
    BY <1>2 DEF InputIn
  <2>. HIDE DEF Of
  <2>. QED BY <1>2, <2>1, ResolvedRef DEF InputIn, InputOk
<1>3. Len(vs) \in Nat /\ DOMAIN vs = 1 .. Len(vs) /\ \A i \in DOMAIN vs : InputIn(vs[i], 0 .. N)
  BY ListFacts DEF InputsIn
<1>. HIDE DEF us, Of
<1>4. IsList(us) /\ DOMAIN us = DOMAIN vs
  BY <1>1, <1>3, MappedList
<1>5. \A i \in DOMAIN us : InputIn(us[i], 0 .. N)
  BY <1>1, <1>2, <1>3, <1>4
<1>6. ASSUME InputsOk(s, vs), NEW i \in DOMAIN us PROVE InputIn(us[i], 1 .. N)
  <2>1. \A j \in DOMAIN vs : InputOk(s, vs[j])
    BY <1>6 DEF InputsOk, AllOk
  <2>2. \A j \in 1 .. i - 1 : j \in DOMAIN vs
    BY <1>3, <1>4
  <2>3. us[i] = Of(vs[i])
    BY <1>1, <1>4, <2>1, <2>2
  <2>. QED BY <1>2, <1>3, <1>4, <2>1, <2>3
<1>. QED BY <1>4, <1>5, <1>6 DEF InputsIn, us

(* A directive has a value for every argument of its declaration. *)
Filled(s, d) == d.name \in DOMAIN s.decls /\ Names(s.decls[d.name].args) \subseteq Names(d.args)

AllFilled(s, ds) == \A i \in DOMAIN ds : Filled(s, ds[i])

DeclLists(s) == \A n \in DOMAIN s.decls : IsList(s.decls[n].args)

LEMMA ResolvedDirs ==
  ASSUME NEW s, DeclLists(s), NEW ds, DirsIn(ds)
  PROVE  /\ DirsIn(resolveDirectives(s, ds))
         /\ DirectivesOk(s, ds) => AllFilled(s, resolveDirectives(s, ds))
<1>. DEFINE Missing(d) == Kept(s.decls[d.name].args,
                               {i \in DOMAIN s.decls[d.name].args : ~Has(d.args, s.decls[d.name].args[i].name)})
            Default(x) == [name |-> x.name, value |-> x.default]
            More(d)    == [i \in DOMAIN Missing(d) |-> Default(Missing(d)[i])]
            Full(d)    == IF ~DirectiveOk(s, d) THEN d ELSE [d EXCEPT !.args = @ \o More(d)]
            es         == resolveDirectives(s, ds)
<1>1. es = [i \in DOMAIN ds |-> IF \A j \in 1 .. i - 1 : DirectiveOk(s, ds[j]) THEN Full(ds[i]) ELSE ds[i]]
  BY DEF resolveDirectives, Until
<1>2. ASSUME NEW d, DirIn(d), DirectiveOk(s, d) PROVE DirIn(Full(d)) /\ Filled(s, Full(d))
  <2>. DEFINE args == s.decls[d.name].args
              I    == {i \in DOMAIN args : ~Has(d.args, args[i].name)}
              m    == Missing(d)
              more == More(d)
  <2>1. IsList(args) /\ IsList(d.args) /\ d.name \in DOMAIN s.decls
    BY <1>2 DEF DeclLists, DirectiveOk, DirIn
  <2>2. m = Kept(args, I) /\ I \subseteq DOMAIN args
    OBVIOUS
  <2>3. more = [i \in DOMAIN m |-> Default(m[i])] /\ \A i \in DOMAIN m : more[i].name = m[i].name
    OBVIOUS
  <2>4. /\ DOMAIN Full(d) = DOMAIN d
        /\ Full(d).name = d.name
        /\ Full(d).args = d.args \o more
    BY <1>2 DEF DirIn
  <2>. HIDE DEF Full, more, Missing, More
  <2>5. IsList(m) /\ \A i \in I : \E k \in DOMAIN m : m[k] = args[i]
    <3>. HIDE DEF m, I
    <3>. QED BY <2>1, <2>2, KeptFacts
  <2>. HIDE DEF m
  <2>6. IsList(more) /\ DOMAIN more = DOMAIN m
    BY <2>3, <2>5, ListFacts, MappedList
  <2>7. /\ IsList(d.args \o more)
        /\ ToSet(d.args) \subseteq ToSet(d.args \o more)
        /\ ToSet(more) \subseteq ToSet(d.args \o more)
    BY <2>1, <2>6, ConcatList
  <2>8. ASSUME NEW i \in DOMAIN args PROVE args[i].name \in Names(d.args \o more)
    <3>1. CASE Has(d.args, args[i].name)
      <4>1. PICK j \in DOMAIN d.args : d.args[j].name = args[i].name
        BY <3>1 DEF Has
      <4>2. d.args[j] \in ToSet(d.args \o more)
        BY <2>7 DEF ToSet
      <4>. QED BY <4>1, <4>2 DEF Names
    <3>2. CASE ~Has(d.args, args[i].name)
      <4>1. PICK k \in DOMAIN m : m[k] = args[i]
        BY <2>5, <3>2
      <4>2. more[k].name = args[i].name
        BY <2>3, <4>1
      <4>3. more[k] \in ToSet(d.args \o more)
        BY <2>6, <2>7 DEF ToSet
      <4>. QED BY <4>2, <4>3 DEF Names
    <3>. QED BY <3>1, <3>2
  <2>9. Names(args) \subseteq Names(d.args \o more)
    BY <2>8 DEF Names, ToSet
  <2>. QED BY <1>2, <2>1, <2>4, <2>7, <2>9 DEF DirIn, Filled
<1>3. ASSUME NEW d, DirIn(d) PROVE DirIn(Full(d))
  BY <1>2, <1>3
<1>. HIDE DEF Full, es
<1>4. Len(ds) \in Nat /\ DOMAIN ds = 1 .. Len(ds) /\ \A i \in DOMAIN ds : DirIn(ds[i])
  BY ListFacts DEF DirsIn
<1>5. IsList(es) /\ DOMAIN es = DOMAIN ds
  BY <1>1, <1>4, MappedList
<1>6. \A i \in DOMAIN es : DirIn(es[i])
  BY <1>1, <1>3, <1>4, <1>5
<1>7. ASSUME DirectivesOk(s, ds), NEW i \in DOMAIN es PROVE Filled(s, es[i])
  <2>1. \A j \in DOMAIN ds : DirectiveOk(s, ds[j])
    BY <1>7 DEF DirectivesOk, AllOk
  <2>2. \A j \in 1 .. i - 1 : j \in DOMAIN ds
    BY <1>4, <1>5
  <2>3. es[i] = Full(ds[i])
    BY <1>1, <1>5, <2>1, <2>2
  <2>. QED BY <1>2, <1>4, <1>5, <2>1, <2>3
<1>. QED BY <1>5, <1>6, <1>7 DEF DirsIn, AllFilled, es

LEMMA SortedDirs ==
  ASSUME NEW ds, DirsIn(ds)
  PROVE  /\ DirsIn(SortDirectives(ds))
         /\ \A s : AllFilled(s, ds) => AllFilled(s, SortDirectives(ds))
<1>. DEFINE Of(d) == [d EXCEPT !.args = SortByName(@)]
            es    == [i \in DOMAIN ds |-> Of(ds[i])]
            S     == SortByName(es)
<1>1. SortDirectives(ds) = S
  BY DEF SortDirectives
<1>2. ASSUME NEW d, DirIn(d)
      PROVE  DirIn(Of(d)) /\ \A s : Filled(s, d) => Filled(s, Of(d))
  <2>1. DOMAIN Of(d) = DOMAIN d /\ Of(d).name = d.name /\ Of(d).args = SortByName(d.args)
    BY <1>2 DEF DirIn
  <2>. HIDE DEF Of
  <2>2. IsList(Of(d).args) /\ Names(Of(d).args) = Names(d.args)
    BY <1>2, <2>1, SortByNameFacts, SortedNames DEF DirIn
  <2>. QED BY <1>2, <2>1, <2>2 DEF DirIn, Filled
<1>3. DOMAIN es = DOMAIN ds /\ es = [i \in DOMAIN ds |-> es[i]] /\ \A i \in DOMAIN ds : es[i] = Of(ds[i])
  OBVIOUS
<1>. HIDE DEF Of, es
<1>4. IsList(es)
  BY <1>3, ListFacts, MappedList DEF DirsIn
<1>5. /\ IsList(S)
      /\ DOMAIN S = DOMAIN es
      /\ \A k \in DOMAIN es : \E i \in DOMAIN es : S[k] = es[i]
  BY <1>4, SortByNameFacts
<1>. HIDE DEF S
<1>6. DirsIn(S)
  BY <1>2, <1>3, <1>5 DEF DirsIn
<1>7. ASSUME NEW s, AllFilled(s, ds) PROVE AllFilled(s, S)
  BY <1>2, <1>3, <1>5, <1>7 DEF DirsIn, AllFilled
<1>. QED BY <1>1, <1>6, <1>7

LEMMA ResolvedField ==
  ASSUME NEW s, NEW N, Leads(s, N), DeclLists(s), NEW f, FieldIn(f, 0 .. N)
  PROVE  /\ FieldIn(resolveField(s, f), 0 .. N)
         /\ FieldOk(s, f) => FieldIn(resolveField(s, f), 1 .. N) /\ AllFilled(s, resolveField(s, f).dirs)
<1>. DEFINE g == resolveField(s, f)
<1>1. /\ DOMAIN g = DOMAIN f
      /\ g.type = ResolveType(s, f.type)
      /\ g.dirs = IF Resolvable(s, f.type) THEN resolveDirectives(s, f.dirs) ELSE f.dirs
      /\ g.args = IF Resolvable(s, f.type) /\ DirectivesOk(s, f.dirs)
                  THEN resolveInputObject(s, f.args) ELSE f.args
  BY DEF FieldIn, resolveField
<1>. HIDE DEF g
<1>2. RefIn(f.type, 0 .. N) /\ InputsIn(f.args, 0 .. N) /\ DirsIn(f.dirs)
  BY DEF FieldIn
<1>5. /\ DirsIn(g.dirs)
      /\ Resolvable(s, f.type) /\ DirectivesOk(s, f.dirs) => AllFilled(s, g.dirs)
  BY <1>1, <1>2, ResolvedDirs
<1>3. FieldIn(g, 0 .. N)
  BY <1>1, <1>2, <1>5, ResolvedRef, ResolvedInputs DEF FieldIn
<1>4. ASSUME FieldOk(s, f) PROVE FieldIn(g, 1 .. N) /\ AllFilled(s, g.dirs)
  BY <1>1, <1>2, <1>4, <1>5, ResolvedRef, ResolvedInputs DEF FieldIn, FieldOk
<1>. QED BY <1>3, <1>4 DEF g

FieldsOk(s, fs) == AllOk(fs, LAMBDA f : FieldOk(s, f))

resolveFields(s, fs) == Until(fs, LAMBDA f : FieldOk(s, f), LAMBDA f : resolveField(s, f))

LEMMA ResolvedFields ==
  ASSUME NEW s, NEW N, Leads(s, N), DeclLists(s),
         NEW fs, IsList(fs), \A i \in DOMAIN fs : FieldIn(fs[i], 0 .. N)
  PROVE  /\ IsList(resolveFields(s, fs))
         /\ \A i \in DOMAIN resolveFields(s, fs) : FieldIn(resolveFields(s, fs)[i], 0 .. N)
         /\ FieldsOk(s, fs) =>
              \A i \in DOMAIN resolveFields(s, fs) : /\ FieldIn(resolveFields(s, fs)[i], 1 .. N)
                                                    /\ AllFilled(s, resolveFields(s, fs)[i].dirs)
<1>. DEFINE gs == resolveFields(s, fs)
<1>1. gs = [i \in DOMAIN fs |-> IF \A j \in 1 .. i - 1 : FieldOk(s, fs[j]) THEN resolveField(s, fs[i])
                                ELSE fs[i]]
  BY DEF resolveFields, Until
<1>. HIDE DEF gs
<1>2. Len(fs) \in Nat /\ DOMAIN fs = 1 .. Len(fs)
  BY ListFacts
<1>3. IsList(gs) /\ DOMAIN gs = DOMAIN fs
  BY <1>1, <1>2, MappedList
<1>4. ASSUME NEW i \in DOMAIN gs PROVE FieldIn(gs[i], 0 .. N)
  <2>1. gs[i] = resolveField(s, fs[i]) \/ gs[i] = fs[i]
    BY <1>1, <1>3
  <2>. QED BY <1>3, <2>1, ResolvedField
<1>5. ASSUME FieldsOk(s, fs), NEW i \in DOMAIN gs PROVE FieldIn(gs[i], 1 .. N) /\ AllFilled(s, gs[i].dirs)
  <2>1. \A j \in DOMAIN fs : FieldOk(s, fs[j])
    BY <1>5 DEF FieldsOk, AllOk
  <2>2. \A j \in 1 .. i - 1 : j \in DOMAIN fs
    BY <1>2, <1>3
  <2>3. gs[i] = resolveField(s, fs[i])
    BY <1>1, <1>3, <2>1, <2>2
  <2>. QED BY <1>3, <2>1, <2>3, ResolvedField
<1>. QED BY <1>3, <1>4, <1>5 DEF gs

(* Sorting neither adds nor loses a reference. *)
LEMMA SortedInputs ==
  ASSUME NEW A, NEW vs, InputsIn(vs, A)
  PROVE  InputsIn(SortByName(vs), A)
BY SortByNameFacts DEF InputsIn

LEMMA SortedItem ==
  ASSUME NEW A, NEW kind, NEW x, ItemIn(kind, x, A), NEW y,
         y = IF kind \in {"OBJECT", "INTERFACE"} THEN SortField(x)
             ELSE [x EXCEPT !.dirs = SortDirectives(@)]
  PROVE  /\ ItemIn(kind, y, A)
         /\ \A s : kind \in {"OBJECT", "INTERFACE"} /\ AllFilled(s, x.dirs) => AllFilled(s, y.dirs)
<1>1. CASE kind \in {"OBJECT", "INTERFACE"}
  <2>1. FieldIn(x, A) /\ y = SortField(x)
    BY <1>1 DEF ItemIn
  <2>2. /\ DOMAIN y = DOMAIN x
        /\ y.type = x.type
        /\ y.args = SortByName(x.args)
        /\ y.dirs = SortDirectives(x.dirs)
    BY <2>1 DEF FieldIn, SortField
  <2>4. DirsIn(y.dirs) /\ \A s : AllFilled(s, x.dirs) => AllFilled(s, y.dirs)
    BY <2>1, <2>2, SortedDirs DEF FieldIn
  <2>3. FieldIn(y, A)
    BY <2>1, <2>2, <2>4, SortedInputs DEF FieldIn
  <2>. QED BY <1>1, <2>3, <2>4 DEF ItemIn
<1>2. CASE kind = "INPUT_OBJECT"
  <2>1. InputIn(x, A) /\ y = [x EXCEPT !.dirs = SortDirectives(@)]
    BY <1>2 DEF ItemIn
  <2>2. DOMAIN y = DOMAIN x /\ y.type = x.type
    BY <2>1 DEF InputIn
  <2>3. InputIn(y, A)
    BY <2>1, <2>2 DEF InputIn
  <2>. QED BY <1>2, <2>3 DEF ItemIn
<1>4. CASE kind = "ENUM"
  <2>1. ValueIn(x) /\ y = [x EXCEPT !.dirs = SortDirectives(@)]
    BY <1>4 DEF ItemIn
  <2>2. DOMAIN y = DOMAIN x /\ y.dirs = SortDirectives(x.dirs)
    BY <2>1 DEF ValueIn
  <2>3. ValueIn(y)
    BY <2>1, <2>2, SortedDirs DEF ValueIn
  <2>. QED BY <1>4, <2>3 DEF ItemIn
<1>3. CASE kind \notin {"OBJECT", "INTERFACE", "INPUT_OBJECT", "ENUM"}
  BY <1>3 DEF ItemIn
<1>. QED BY <1>1, <1>2, <1>3, <1>4

FieldsFilled(s, t) ==
  t.kind \in {"OBJECT", "INTERFACE"} => \A i \in DOMAIN t.items : AllFilled(s, t.items[i].dirs)

LEMMA SortedType ==
  ASSUME NEW t, TypeShape(t), IsList(t.items), IsList(t.names)
  PROVE  /\ TypeShape(Sort(t))
         /\ IsList(Sort(t).names)
         /\ Sort(t).kind = t.kind
         /\ Sort(t).name = t.name
         /\ Sort(t).interfaces = t.interfaces
         /\ Sort(t).possible = t.possible
         /\ \A A : ItemsIn(t.kind, t.items, A) => /\ ItemsIn(t.kind, Sort(t).items, A)
                                                 /\ \A s : FieldsFilled(s, t) => FieldsFilled(s, Sort(t))
<1>. DEFINE SortItem(x) == IF t.kind \in {"OBJECT", "INTERFACE"} THEN SortField(x)
                           ELSE [x EXCEPT !.dirs = SortDirectives(@)]
            xs == [i \in DOMAIN t.items |-> SortItem(t.items[i])]
            u  == Sort(t)
<1>1. CASE t.kind = "SCALAR"
  BY <1>1 DEF Sort
<1>2. CASE t.kind # "SCALAR"
  <2>1. /\ DOMAIN u = DOMAIN t
        /\ u.items = SortByName(xs)
        /\ u.names = SortNames(t.names)
        /\ u.kind = t.kind
        /\ u.name = t.name
        /\ u.interfaces = t.interfaces
        /\ u.possible = t.possible
    BY <1>2 DEF Sort, TypeShape
  <2>2. IsList(u.names)
    BY <2>1, SortNamesFacts
  <2>3. ASSUME NEW A, ItemsIn(t.kind, t.items, A)
        PROVE  ItemsIn(t.kind, u.items, A) /\ \A s : FieldsFilled(s, t) => FieldsFilled(s, u)
    <3>1. \A x, y : ItemIn(t.kind, x, A) /\ y = SortItem(x) =>
            /\ ItemIn(t.kind, y, A)
            /\ \A s : t.kind \in {"OBJECT", "INTERFACE"} /\ AllFilled(s, x.dirs) => AllFilled(s, y.dirs)
      BY SortedItem
    <3>2. xs = [i \in DOMAIN t.items |-> SortItem(t.items[i])] /\ DOMAIN xs = DOMAIN t.items
      OBVIOUS
    <3>3. \A i \in DOMAIN t.items : xs[i] = SortItem(t.items[i])
      OBVIOUS
    <3>. HIDE DEF SortItem, xs, u
    <3>4. IsList(xs)
      BY <3>2, MappedList, ListFacts
    <3>5. \A i \in DOMAIN xs : ItemIn(t.kind, xs[i], A)
      BY <2>3, <3>1, <3>2, <3>3 DEF ItemsIn
    <3>6. /\ IsList(u.items)
          /\ DOMAIN u.items = DOMAIN xs
          /\ \A k \in DOMAIN xs : \E i \in DOMAIN xs : u.items[k] = xs[i]
      BY <2>1, <3>4, SortByNameFacts
    <3>7. ASSUME NEW s, FieldsFilled(s, t) PROVE FieldsFilled(s, u)
      <4>. SUFFICES ASSUME t.kind \in {"OBJECT", "INTERFACE"}, NEW k \in DOMAIN u.items
                    PROVE  AllFilled(s, u.items[k].dirs)
        BY <2>1 DEF FieldsFilled
      <4>1. PICK i \in DOMAIN t.items : u.items[k] = SortItem(t.items[i])
        BY <3>2, <3>3, <3>6
      <4>2. ItemIn(t.kind, t.items[i], A) /\ AllFilled(s, t.items[i].dirs)
        BY <2>3, <3>7 DEF ItemsIn, FieldsFilled
      <4>. QED BY <3>1, <4>1, <4>2
    <3>. QED BY <3>5, <3>6, <3>7 DEF ItemsIn
  <2>. HIDE DEF u
  <2>4. TypeShape(u)
    BY <2>1 DEF TypeShape
  <2>. QED BY <2>1, <2>2, <2>3, <2>4 DEF u
<1>. QED BY <1>1, <1>2

LEMMA ResolvedType ==
  ASSUME NEW h, IsList(h), NEW s, Leads(s, Len(h)), DeclLists(s), NEW t, TypeOn(h, t)
  PROVE  /\ TypeOn(h, resolveNamedType(s, t))
         /\ resolveNamedType(s, t).kind = t.kind
         /\ resolveNamedType(s, t).name = t.name
         /\ NamedTypeOk(s, t) => /\ ItemsIn(t.kind, resolveNamedType(s, t).items, 1 .. Len(h))
                                 /\ FieldsFilled(s, resolveNamedType(s, t))
<1>. DEFINE N     == Len(h)
            after == resolveNamedType(s, t)
            Fields == resolveFields(s, t.items)
            u == IF t.kind \in {"OBJECT", "INTERFACE"} THEN [t EXCEPT !.items = Fields]
                 ELSE IF t.kind = "INPUT_OBJECT" THEN [t EXCEPT !.items = resolveInputObject(s, t.items)]
                 ELSE t
<1>1. after = IF NamedTypeOk(s, t) THEN Sort(u) ELSE u
  <2>1. CASE t.kind \in {"OBJECT", "INTERFACE"}
    <3>1. t.kind # "INPUT_OBJECT" BY <2>1
    <3>2. u = [t EXCEPT !.items = Fields] BY <2>1
    <3>3. [t EXCEPT !.items = Fields] =
            [t EXCEPT !.items = Until(@, LAMBDA f : FieldOk(s, f), LAMBDA f : resolveField(s, f))]
      BY DEF resolveFields
    <3>. HIDE DEF u
    <3>. QED BY <2>1, <3>1, <3>2, <3>3, Zenon DEF resolveNamedType
  <2>2. CASE t.kind = "INPUT_OBJECT"
    <3>1. t.kind \notin {"OBJECT", "INTERFACE"} BY <2>2
    <3>2. u = [t EXCEPT !.items = resolveInputObject(s, t.items)] BY <2>2
    <3>. HIDE DEF u
    <3>. QED BY <2>2, <3>1, <3>2, Zenon DEF resolveNamedType
  <2>3. CASE t.kind \notin {"OBJECT", "INTERFACE", "INPUT_OBJECT"}
    <3>1. t.kind \notin {"OBJECT", "INTERFACE"} /\ t.kind # "INPUT_OBJECT" BY <2>3
    <3>2. u = t BY <3>1
    <3>. HIDE DEF u
    <3>. QED BY <3>1, <3>2, Zenon DEF resolveNamedType
  <2>. QED BY <2>1, <2>2, <2>3
<1>2. TypeShape(t) /\ IsList(t.items) /\ ItemsIn(t.kind, t.items, 0 .. N)
  BY DEF TypeOn, ItemsIn
<1>3. /\ TypeShape(u)
      /\ u.kind = t.kind
      /\ u.name = t.name
      /\ u.names = t.names
      /\ u.interfaces = t.interfaces
      /\ u.possible = t.possible
      /\ u.items = IF t.kind \in {"OBJECT", "INTERFACE"} THEN Fields
                   ELSE IF t.kind = "INPUT_OBJECT" THEN resolveInputObject(s, t.items)
                   ELSE t.items
  BY <1>2 DEF TypeShape
<1>. HIDE DEF u, N
<1>4. /\ ItemsIn(t.kind, u.items, 0 .. N)
      /\ NamedTypeOk(s, t) => ItemsIn(t.kind, u.items, 1 .. N) /\ FieldsFilled(s, u)
  <2>1. CASE t.kind \in {"OBJECT", "INTERFACE"}
    <3>1. u.items = Fields BY <1>3, <2>1
    <3>2. NamedTypeOk(s, t) => FieldsOk(s, t.items)
      BY <2>1, Zenon DEF NamedTypeOk, FieldsOk
    <3>3. \A i \in DOMAIN t.items : FieldIn(t.items[i], 0 .. N)
      BY <1>2, <2>1 DEF ItemsIn, ItemIn
    <3>4. t.kind # "INPUT_OBJECT" BY <2>1
    <3>5. /\ IsList(Fields)
          /\ \A i \in DOMAIN Fields : FieldIn(Fields[i], 0 .. N)
          /\ FieldsOk(s, t.items) => \A i \in DOMAIN Fields : /\ FieldIn(Fields[i], 1 .. N)
                                                               /\ AllFilled(s, Fields[i].dirs)
      BY <1>2, <3>3, ResolvedFields DEF N
    <3>. HIDE DEF Fields
    <3>6. t.kind # "ENUM" BY <2>1
    <3>. QED BY <1>3, <3>1, <3>2, <3>4, <3>5, <3>6 DEF ItemsIn, ItemIn, FieldsFilled
  <2>2. CASE t.kind = "INPUT_OBJECT"
    <3>1. u.items = resolveInputObject(s, t.items) /\ t.kind \notin {"OBJECT", "INTERFACE"}
      BY <1>3, <2>2
    <3>2. NamedTypeOk(s, t) => InputsOk(s, t.items)
      BY <2>2, <3>1, Zenon DEF NamedTypeOk
    <3>3. InputsIn(t.items, 0 .. N)
      BY <1>2, <2>2 DEF ItemsIn, ItemIn, InputsIn
    <3>4. /\ InputsIn(u.items, 0 .. N)
          /\ InputsOk(s, t.items) => InputsIn(u.items, 1 .. N)
      BY <3>1, <3>3, ResolvedInputs DEF N
    <3>. QED BY <1>3, <2>2, <3>1, <3>2, <3>4 DEF ItemsIn, ItemIn, InputsIn, FieldsFilled
  <2>3. CASE t.kind \notin {"OBJECT", "INTERFACE", "INPUT_OBJECT"}
    <3>1. u.items = t.items
      BY <1>3, <2>3
    <3>. QED BY <1>2, <1>3, <2>3, <3>1 DEF ItemsIn, ItemIn, FieldsFilled
  <2>. QED BY <2>1, <2>2, <2>3
<1>5. TypeOn(h, u)
  BY <1>3, <1>4 DEF TypeOn, N
<1>6. /\ TypeOn(h, Sort(u))
      /\ Sort(u).kind = t.kind
      /\ Sort(u).name = t.name
      /\ \A A : ItemsIn(t.kind, u.items, A) => /\ ItemsIn(t.kind, Sort(u).items, A)
                                               /\ FieldsFilled(s, u) => FieldsFilled(s, Sort(u))
  BY <1>3, <1>4, <1>5, SortedType DEF TypeOn, ItemsIn
<1>. QED BY <1>1, <1>3, <1>4, <1>5, <1>6 DEF N

-----------------------------------------------------------------------------
(* The stages of ResolveTypes.  Each keeps the invariant, and one that ends *)
(* without an error establishes its part of ResolvedIsComplete.             *)

TypesResolved(w) ==
  \A a \in Addresses(w.s) : /\ ItemsIn(w.h[a].kind, w.h[a].items, 1 .. Len(w.h))
                             /\ FieldsFilled(w.s, w.h[a])

DeclsResolved(w) ==
  \A n \in DOMAIN w.s.decls : DeclIn(w.s.decls[n], 1 .. Len(w.h))

EntriesResolved(w) ==
  \A op \in DOMAIN w.s.entryNames : w.s.entries[op] = w.s.types[w.s.entryNames[op]]

ObjectsLinked(w) ==
  \A a \in Addresses(w.s) : w.h[a].kind = "OBJECT" =>
    /\ w.h[a].interfaces = [i \in DOMAIN w.h[a].names |-> w.s.types[w.h[a].names[i]]]
    /\ \A b \in ToSet(w.h[a].interfaces) : b \in DOMAIN w.h /\ a \in ToSet(w.h[b].possible)

Members(s, names) == {s.types[n] : n \in ToSet(names)}

UnionsLinked(w) ==
  \A a \in Addresses(w.s) : w.h[a].kind = "UNION" =>
    ToSet(w.h[a].possible) = Members(w.s, w.h[a].names)

ValuesFilled(w) ==
  \A a \in Addresses(w.s) : w.h[a].kind = "ENUM" =>
    \A i \in DOMAIN w.h[a].items : AllFilled(w.s, w.h[a].items[i].dirs)

LEMMA RangedFacts ==
  ASSUME NEW keys, NEW good
  PROVE  \A r \in Ranged(keys, good) : r.end = "" => good = keys /\ r.to = keys
<1>. DEFINE Whole == {[to |-> keys, end |-> ""]}
            Part  == {[to |-> done \union {bad}, end |-> "error"] : done \in SUBSET good, bad \in keys \ good}
<1>1. Ranged(keys, good) = IF good = keys THEN Whole ELSE Part
  BY DEF Ranged
<1>2. \A x \in Part : x.end = "error"
  OBVIOUS
<1>3. ASSUME NEW x \in Whole PROVE x.to = keys
  <2>1. x = [to |-> keys, end |-> ""] BY Zenon
  <2>. QED BY ONLY <2>1
<1>. HIDE DEF Whole, Part
<1>. QED BY <1>1, <1>2, <1>3

LEMMA RangedKeys ==
  ASSUME NEW keys, NEW good, good \subseteq keys
  PROVE  \A r \in Ranged(keys, good) : r.to \subseteq keys /\ r.end # "ok"
<1>. DEFINE Whole == {[to |-> keys, end |-> ""]}
            Part  == {[to |-> done \union {bad}, end |-> "error"] : done \in SUBSET good, bad \in keys \ good}
<1>1. Ranged(keys, good) = IF good = keys THEN Whole ELSE Part
  BY DEF Ranged
<1>2. \A x \in Part : x.to \subseteq keys /\ x.end # "ok"
  OBVIOUS
<1>3. ASSUME NEW x \in Whole PROVE x.to = keys /\ x.end # "ok"
  <2>1. x = [to |-> keys, end |-> ""] BY Zenon
  <2>. QED BY ONLY <2>1
<1>. HIDE DEF Whole, Part
<1>. QED BY <1>1, <1>2, <1>3

LEMMA SortedInputsOk ==
  ASSUME NEW s, NEW vs, IsList(vs), InputsOk(s, vs)
  PROVE  InputsOk(s, SortByName(vs))
<1>1. \A k \in DOMAIN SortByName(vs) : \E i \in DOMAIN vs : SortByName(vs)[k] = vs[i]
  BY SortByNameFacts
<1>. QED BY <1>1 DEF InputsOk, AllOk

LEMMA WorldFacts ==
  ASSUME NEW w, WorldInv(w)
  PROVE  /\ Len(w.h) \in Nat
         /\ DOMAIN w.h = 1 .. Len(w.h)
         /\ IsList(w.h)
         /\ \A a \in DOMAIN w.h : TypeOn(w.h, w.h[a])
         /\ Leads(w.s, Len(w.h))
         /\ DeclLists(w.s)
         /\ Addresses(w.s) \subseteq DOMAIN w.h
<1>1. IsList(w.h) /\ \A a \in DOMAIN w.h : TypeOn(w.h, w.h[a])
  BY DEF WorldInv, HeapInv
<1>2. Len(w.h) \in Nat /\ DOMAIN w.h = 1 .. Len(w.h)
  BY <1>1, ListFacts
<1>3. DeclLists(w.s)
  BY DEF WorldInv, DeclIn, InputsIn, DeclLists
<1>. QED BY <1>1, <1>2, <1>3 DEF WorldInv, TypesOn, Leads, Addresses

LEMMA ResolvedTypes ==
  ASSUME NEW w, WorldInv(w), NEW v \in resolveNamedTypes(w)
  PROVE  Keeps(w, v) /\ (v.end = "" => TypesResolved(v))
<1>. DEFINE good == {a \in Addresses(w.s) : NamedTypeOk(w.s, w.h[a])}
<1>1. PICK r \in Ranged(Addresses(w.s), good) :
        v = [w EXCEPT !.h = [a \in DOMAIN w.h |-> IF a \in r.to THEN resolveNamedType(w.s, w.h[a])
                                                  ELSE w.h[a]],
                      !.end = r.end]
  BY DEF resolveNamedTypes
<1>0. r.end # "ok"
  BY RangedKeys
<1>. DEFINE g == [a \in DOMAIN w.h |-> IF a \in r.to THEN resolveNamedType(w.s, w.h[a]) ELSE w.h[a]]
<1>2. g = [a \in DOMAIN w.h |-> g[a]]
  OBVIOUS
<1>3. \A a \in DOMAIN w.h : g[a] = IF a \in r.to THEN resolveNamedType(w.s, w.h[a]) ELSE w.h[a]
  OBVIOUS
<1>4. v = [w EXCEPT !.h = g, !.end = r.end]
  BY <1>1
<1>5. v.h = g /\ v.s = w.s /\ v.end = r.end
  BY <1>4 DEF WorldInv, WorldShape
<1>. HIDE DEF g
<1>6. ASSUME NEW a \in DOMAIN w.h
      PROVE  /\ TypeOn(w.h, g[a])
             /\ g[a].kind = w.h[a].kind
             /\ g[a].name = w.h[a].name
             /\ a \in r.to /\ NamedTypeOk(w.s, w.h[a]) => /\ ItemsIn(g[a].kind, g[a].items, 1 .. Len(w.h))
                                                          /\ FieldsFilled(w.s, g[a])
  <2>1. TypeOn(w.h, w.h[a]) /\ IsList(w.h) /\ Leads(w.s, Len(w.h)) /\ DeclLists(w.s)
    BY WorldFacts
  <2>2. /\ TypeOn(w.h, resolveNamedType(w.s, w.h[a]))
        /\ resolveNamedType(w.s, w.h[a]).kind = w.h[a].kind
        /\ resolveNamedType(w.s, w.h[a]).name = w.h[a].name
        /\ NamedTypeOk(w.s, w.h[a]) =>
             /\ ItemsIn(w.h[a].kind, resolveNamedType(w.s, w.h[a]).items, 1 .. Len(w.h))
             /\ FieldsFilled(w.s, resolveNamedType(w.s, w.h[a]))
    BY <2>1, ResolvedType
  <2>. QED BY <1>3, <2>1, <2>2
<1>7. Keeps(w, v)
  BY <1>0, <1>2, <1>4, <1>6, UpdatedWorld
<1>8. ASSUME v.end = "" PROVE TypesResolved(v)
  <2>1. good = Addresses(w.s) /\ r.to = Addresses(w.s)
    BY <1>5, <1>8, RangedFacts
  <2>2. Len(g) = Len(w.h)
    BY <1>2, <1>6, UpdatedHeap DEF WorldInv
  <2>. QED BY <1>5, <1>6, <2>1, <2>2, WorldFacts DEF TypesResolved
<1>. QED BY <1>7, <1>8

LEMMA ResolvedNames ==
  ASSUME NEW s, NEW A, NEW vs, InputsIn(vs, A)
  PROVE  Names(resolveInputObject(s, vs)) = Names(vs)
<1>. DEFINE us     == resolveInputObject(s, vs)
            Of(v)  == [v EXCEPT !.type = ResolveType(s, @)]
<1>1. us = [i \in DOMAIN vs |-> IF \A j \in 1 .. i - 1 : InputOk(s, vs[j]) THEN Of(vs[i]) ELSE vs[i]]
  BY DEF resolveInputObject, Until
<1>2. \A v : InputIn(v, A) => Of(v).name = v.name
  BY DEF InputIn
<1>. HIDE DEF us, Of
<1>3. DOMAIN us = DOMAIN vs /\ \A i \in DOMAIN vs : us[i].name = vs[i].name
  BY <1>1, <1>2 DEF InputsIn
<1>4. ASSUME NEW n \in Names(us) PROVE n \in Names(vs)
  <2>1. PICK i \in DOMAIN us : n = us[i].name
    BY DEF Names, ToSet
  <2>. QED BY <1>3, <2>1 DEF Names, ToSet
<1>5. ASSUME NEW n \in Names(vs) PROVE n \in Names(us)
  <2>1. PICK i \in DOMAIN vs : n = vs[i].name
    BY DEF Names, ToSet
  <2>. QED BY <1>3, <2>1 DEF Names, ToSet
<1>. QED BY <1>4, <1>5 DEF us

(* What is filled stays filled when declarations only change the order or   *)
(* the types of their arguments.                                            *)
LEMMA SameFilled ==
  ASSUME NEW s, NEW z, DOMAIN z.decls = DOMAIN s.decls,
         \A n \in DOMAIN s.decls : Names(z.decls[n].args) = Names(s.decls[n].args)
  PROVE  \A t : FieldsFilled(s, t) => FieldsFilled(z, t)
<1>1. \A d : Filled(s, d) => Filled(z, d)
  BY DEF Filled
<1>. QED BY <1>1 DEF FieldsFilled, AllFilled

LEMMA ResolvedDecls ==
  ASSUME NEW w, WorldInv(w), NEW v \in resolveDirectiveDecls(w)
  PROVE  /\ Keeps(w, v)
         /\ v.end = "" => DeclsResolved(v)
         /\ TypesResolved(w) => TypesResolved(v)
<1>. DEFINE ds   == w.s.decls
            good == {n \in DOMAIN ds : InputsOk(w.s, ds[n].args)}
<1>1. PICK r \in Ranged(DOMAIN ds, good) :
        v = [w EXCEPT !.s.decls = [n \in DOMAIN ds |-> IF n \in r.to THEN resolveDirectiveDecl(w.s, ds[n])
                                                       ELSE ds[n]],
                      !.end = r.end]
  BY DEF resolveDirectiveDecls
<1>0. r.end # "ok"
  BY RangedKeys
<1>2. /\ v.h = w.h
      /\ v.end = r.end
      /\ v.s.types = w.s.types
      /\ v.s.decls = [n \in DOMAIN ds |-> IF n \in r.to THEN resolveDirectiveDecl(w.s, ds[n]) ELSE ds[n]]
      /\ WorldShape(v)
  BY <1>0, <1>1 DEF WorldInv, WorldShape
<1>3. ASSUME NEW n \in DOMAIN ds
      PROVE  /\ DeclIn(resolveDirectiveDecl(w.s, ds[n]), 0 .. Len(w.h))
             /\ InputsOk(w.s, ds[n].args) => DeclIn(resolveDirectiveDecl(w.s, ds[n]), 1 .. Len(w.h))
             /\ resolveDirectiveDecl(w.s, ds[n]).name = n
             /\ Names(resolveDirectiveDecl(w.s, ds[n]).args) = Names(ds[n].args)
  <2>. DEFINE d == resolveDirectiveDecl(w.s, ds[n])
              sorted == SortByName(ds[n].args)
  <2>1. DeclIn(ds[n], 0 .. Len(w.h)) /\ InputsIn(ds[n].args, 0 .. Len(w.h)) /\ ds[n].name = n
    BY DEF WorldInv, DeclIn
  <2>2. InputsIn(sorted, 0 .. Len(w.h))
    BY <2>1, SortedInputs
  <2>3. InputsOk(w.s, ds[n].args) => InputsOk(w.s, sorted)
    BY <2>1, SortedInputsOk DEF InputsIn
  <2>4. /\ DOMAIN d = DOMAIN ds[n]
        /\ d.name = n
        /\ d.args = resolveInputObject(w.s, sorted)
    BY <2>1 DEF DeclIn, resolveDirectiveDecl
  <2>6. Names(sorted) = Names(ds[n].args)
    BY <2>1, SortedNames DEF InputsIn
  <2>. HIDE DEF d, sorted
  <2>5. /\ InputsIn(d.args, 0 .. Len(w.h))
        /\ InputsOk(w.s, sorted) => InputsIn(d.args, 1 .. Len(w.h))
    BY <2>2, <2>4, WorldFacts, ResolvedInputs
  <2>7. Names(d.args) = Names(sorted)
    BY <2>2, <2>4, ResolvedNames
  <2>. QED BY <2>1, <2>3, <2>4, <2>5, <2>6, <2>7 DEF DeclIn, d
<1>4. Keeps(w, v)
  BY <1>2, <1>3 DEF WorldInv, Keeps, Grown, Stays
<1>5. ASSUME v.end = "" PROVE DeclsResolved(v)
  <2>1. r.end = "" => good = DOMAIN ds /\ r.to = DOMAIN ds
    <3>. HIDE DEF good, ds
    <3>. QED BY RangedFacts
  <2>2. good = DOMAIN ds /\ r.to = DOMAIN ds
    BY <1>2, <1>5, <2>1
  <2>. QED BY <1>2, <1>3, <2>2 DEF DeclsResolved
<1>6. TypesResolved(w) => TypesResolved(v)
  <2>1. DOMAIN v.s.decls = DOMAIN ds /\ \A n \in DOMAIN ds : Names(v.s.decls[n].args) = Names(ds[n].args)
    BY <1>2, <1>3
  <2>2. \A t : FieldsFilled(w.s, t) => FieldsFilled(v.s, t)
    BY <2>1, SameFilled
  <2>. QED BY <1>2, <2>2 DEF TypesResolved, Addresses
<1>. QED BY <1>4, <1>5, <1>6

LEMMA ResolvedEntries ==
  ASSUME NEW w, WorldInv(w), NEW v \in resolveEntryPoints(w)
  PROVE  /\ Keeps(w, v)
         /\ v.end = "" => EntriesResolved(v)
         /\ TypesResolved(w) => TypesResolved(v)
         /\ DeclsResolved(w) => DeclsResolved(v)
<1>. DEFINE names == w.s.entryNames
            good  == {op \in DOMAIN names : EntryOk(w, op)}
<1>1. PICK r \in Ranged(DOMAIN names, good) :
        v = [w EXCEPT !.s.entries = Over(EntryPoints(w, {op \in r.to : EntryOk(w, op)}), @), !.end = r.end]
  BY DEF resolveEntryPoints
<1>0. r.end # "ok"
  BY RangedKeys
<1>2. /\ v.h = w.h
      /\ v.end = r.end
      /\ v.s.types = w.s.types
      /\ v.s.decls = w.s.decls
      /\ v.s.entryNames = names
      /\ v.s.entries = Over(EntryPoints(w, {op \in r.to : EntryOk(w, op)}), w.s.entries)
      /\ WorldShape(v)
  BY <1>0, <1>1 DEF WorldInv, WorldShape
<1>3. Keeps(w, v)
  BY <1>2 DEF WorldInv, Keeps, Grown, Stays
<1>4. ASSUME v.end = "" PROVE EntriesResolved(v)
  <2>0. r.end = "" => good = DOMAIN names /\ r.to = DOMAIN names
    <3>. HIDE DEF good, names
    <3>. QED BY RangedFacts
  <2>1. good = DOMAIN names /\ r.to = DOMAIN names
    BY <1>2, <1>4, <2>0
  <2>2. {op \in r.to : EntryOk(w, op)} = DOMAIN names
    BY <2>1
  <2>. QED BY <1>2, <2>2 DEF EntriesResolved, EntryPoints, Over
<1>5. /\ TypesResolved(w) => TypesResolved(v)
      /\ DeclsResolved(w) => DeclsResolved(v)
  <2>1. \A t : FieldsFilled(w.s, t) => FieldsFilled(v.s, t)
    BY <1>2, SameFilled
  <2>. QED BY <1>2, <2>1 DEF TypesResolved, DeclsResolved, Addresses
<1>. QED BY <1>3, <1>4, <1>5

(* Lists of addresses. *)
LEMMA ConcatAddresses ==
  ASSUME NEW h, NEW kind, NEW as, NEW bs, AddressesOf(h, as, kind), AddressesOf(h, bs, kind)
  PROVE  /\ AddressesOf(h, as \o bs, kind)
         /\ ToSet(as) \subseteq ToSet(as \o bs)
         /\ ToSet(bs) \subseteq ToSet(as \o bs)
<1>1. \A s \in Seq(0 .. Len(h)) : IsList(s)
  <2>. TAKE s \in Seq(0 .. Len(h))
  <2>1. Len(s) \in Nat /\ DOMAIN s = 1 .. Len(s) /\ s = [i \in 1 .. Len(s) |-> s[i]]
    BY LenProperties
  <2>. QED BY <2>1, MappedList
<1>2. /\ as \o bs \in Seq(0 .. Len(h))
      /\ \A i \in DOMAIN (as \o bs) : (as \o bs)[i] \in ToSet(as) \/ (as \o bs)[i] \in ToSet(bs)
      /\ ToSet(as) \subseteq ToSet(as \o bs)
      /\ ToSet(bs) \subseteq ToSet(as \o bs)
  BY <1>1, ConcatList, ConcatProperties DEF AddressesOf
<1>3. \A x \in ToSet(as) \union ToSet(bs) : x # 0 => h[x].kind = kind
  <2>1. \A x \in ToSet(as) : x # 0 => h[x].kind = kind BY DEF AddressesOf, ToSet
  <2>2. \A x \in ToSet(bs) : x # 0 => h[x].kind = kind BY DEF AddressesOf, ToSet
  <2>. QED BY <2>1, <2>2
<1>. QED BY <1>2, <1>3 DEF AddressesOf

LEMMA RepeatedAddress ==
  ASSUME NEW h, IsList(h), NEW a \in DOMAIN h, NEW m \in Nat, NEW as, as = [k \in 1 .. m |-> a]
  PROVE  AddressesOf(h, as, h[a].kind) /\ (m # 0 => a \in ToSet(as))
<1>1. a \in 0 .. Len(h)
  BY ListFacts
<1>2. as \in [1 .. m -> 0 .. Len(h)]
  BY <1>1
<1>3. as \in Seq(0 .. Len(h)) /\ DOMAIN as = 1 .. m
  BY <1>2, SeqDef
<1>4. ASSUME m # 0 PROVE a \in ToSet(as)
  <2>1. 1 \in 1 .. m BY <1>4
  <2>2. 1 \in DOMAIN as /\ as[1] = a BY <1>3, <2>1
  <2>. QED BY <2>2 DEF ToSet
<1>. QED BY <1>3, <1>4 DEF AddressesOf

LEMMA LookedUpFacts ==
  ASSUME NEW w, WorldInv(w), NEW ns, IsList(ns), NEW kind
  PROVE  /\ AddressesOf(w.h, LookedUp(w, ns, kind), kind)
         /\ IsList(LookedUp(w, ns, kind))
         /\ AllAre(w, ns, kind) =>
              /\ LookedUp(w, ns, kind) = [i \in DOMAIN ns |-> w.s.types[ns[i]]]
              /\ \A b \in ToSet(LookedUp(w, ns, kind)) : b \in DOMAIN w.h /\ w.h[b].kind = kind
<1>. DEFINE found == LookedUp(w, ns, kind)
<1>1. found = [i \in DOMAIN ns |-> IF \A j \in 1 .. i : IsA(w, ns[j], kind) THEN w.s.types[ns[i]] ELSE 0]
  BY DEF LookedUp
<1>2. Len(ns) \in Nat /\ DOMAIN ns = 1 .. Len(ns)
  BY ListFacts
<1>. HIDE DEF found
<1>3. IsList(found) /\ DOMAIN found = DOMAIN ns
  BY <1>1, <1>2, MappedList
<1>4. \A n : IsA(w, n, kind) =>
        /\ w.s.types[n] \in DOMAIN w.h
        /\ w.s.types[n] \in 0 .. Len(w.h)
        /\ w.h[w.s.types[n]].kind = kind
  BY WorldFacts DEF IsA, Leads
<1>5. \A i \in DOMAIN ns : /\ found[i] \in 0 .. Len(w.h)
                           /\ found[i] # 0 => w.h[found[i]].kind = kind
  <2>. TAKE i \in DOMAIN ns
  <2>1. CASE \A j \in 1 .. i : IsA(w, ns[j], kind)
    <3>1. i \in 1 .. i BY <1>2
    <3>2. IsA(w, ns[i], kind) BY <2>1, <3>1
    <3>. QED BY <1>1, <1>4, <2>1, <3>2
  <2>2. CASE ~ \A j \in 1 .. i : IsA(w, ns[j], kind)
    <3>1. found[i] = 0 BY <1>1, <2>2
    <3>. QED BY <3>1, WorldFacts
  <2>. QED BY <2>1, <2>2
<1>6. found \in Seq(0 .. Len(w.h))
  <2>1. found \in [1 .. Len(ns) -> 0 .. Len(w.h)]
    BY <1>1, <1>2, <1>5
  <2>. QED BY <1>2, <2>1, SeqDef
<1>7. ASSUME AllAre(w, ns, kind)
      PROVE  /\ found = [i \in DOMAIN ns |-> w.s.types[ns[i]]]
             /\ \A b \in ToSet(found) : b \in DOMAIN w.h /\ w.h[b].kind = kind
  <2>1. \A i \in DOMAIN ns : IsA(w, ns[i], kind)
    BY <1>7 DEF AllAre
  <2>2. \A i \in DOMAIN ns : \A j \in 1 .. i : j \in DOMAIN ns
    BY <1>2
  <2>3. found = [i \in DOMAIN ns |-> w.s.types[ns[i]]]
    BY <1>1, <2>1, <2>2
  <2>4. \A b \in ToSet(found) : b \in DOMAIN w.h /\ w.h[b].kind = kind
    BY <1>4, <2>1, <2>3 DEF ToSet
  <2>. QED BY <2>3, <2>4
<1>. QED BY <1>3, <1>5, <1>6, <1>7 DEF AddressesOf, found

(* What linking an object leaves as it was. *)
Linked(w, a) ==
  /\ w.h[a].interfaces = [i \in DOMAIN w.h[a].names |-> w.s.types[w.h[a].names[i]]]
  /\ \A b \in ToSet(w.h[a].interfaces) : b \in DOMAIN w.h /\ a \in ToSet(w.h[b].possible)

SameTypes(w, v) ==
  /\ v.s = w.s
  /\ DOMAIN v.h = DOMAIN w.h
  /\ Len(v.h) = Len(w.h)
  /\ \A b \in DOMAIN w.h : /\ v.h[b].kind = w.h[b].kind
                           /\ v.h[b].names = w.h[b].names
                           /\ v.h[b].items = w.h[b].items
                           /\ v.h[b].name = w.h[b].name

LEMMA LinkedObject ==
  ASSUME NEW w, WorldInv(w), NEW a \in DOMAIN w.h, w.h[a].kind = "OBJECT",
         NEW v, v = linkInterfaces(w, a)
  PROVE  /\ WorldInv(v)
         /\ SameTypes(w, v)
         /\ \A b \in DOMAIN w.h : /\ b # a => v.h[b].interfaces = w.h[b].interfaces
                                  /\ ToSet(w.h[b].possible) \subseteq ToSet(v.h[b].possible)
         /\ v.end = "" => Linked(v, a)
<1>. DEFINE found == LookedUp(w, w.h[a].names, "INTERFACE")
            Times(b) == Cardinality({i \in DOMAIN found : found[i] = b})
            Again(b) == [k \in 1 .. Times(b) |-> a]
            Own == [w.h[a] EXCEPT !.interfaces = found]
            Other(b) == [w.h[b] EXCEPT !.possible = @ \o Again(b)]
            g == [b \in DOMAIN w.h |-> IF b = a THEN Own ELSE Other(b)]
            e == IF AllAre(w, w.h[a].names, "INTERFACE") THEN "" ELSE "error"
<1>1. /\ v.h = g
      /\ v.s = w.s
      /\ v.end = e
      /\ v = [w EXCEPT !.h = g, !.end = e]
  BY DEF linkInterfaces, WorldInv, WorldShape
<1>2. TypeOn(w.h, w.h[a]) /\ IsList(w.h[a].names) /\ IsList(w.h) /\ Len(w.h) \in Nat
  BY WorldFacts DEF TypeOn
<1>3. /\ AddressesOf(w.h, found, "INTERFACE")
      /\ IsList(found)
      /\ AllAre(w, w.h[a].names, "INTERFACE") =>
           /\ found = [i \in DOMAIN w.h[a].names |-> w.s.types[w.h[a].names[i]]]
           /\ \A b \in ToSet(found) : b \in DOMAIN w.h /\ w.h[b].kind = "INTERFACE"
  BY <1>2, LookedUpFacts
<1>4. g = [b \in DOMAIN w.h |-> g[b]] /\ g[a] = Own /\ \A b \in DOMAIN w.h \ {a} : g[b] = Other(b)
  OBVIOUS
<1>0. e # "ok"
  OBVIOUS
<1>. HIDE DEF g, found, e
<1>5. \A b : Times(b) \in Nat /\ (b \in ToSet(found) => Times(b) # 0)
  <2>. TAKE b
  <2>1. Len(found) \in Nat /\ DOMAIN found = 1 .. Len(found)
    BY <1>3, ListFacts
  <2>. DEFINE I == {i \in DOMAIN found : found[i] = b}
  <2>2. IsFiniteSet(1 .. Len(found)) BY <2>1, FS_Interval
  <2>3. IsFiniteSet(I)
    <3>1. I \in SUBSET (1 .. Len(found)) BY <2>1
    <3>. HIDE DEF I
    <3>. QED BY <2>2, <3>1, FS_Subset
  <2>4. b \in ToSet(found) => I # {}
    BY DEF ToSet
  <2>. HIDE DEF I
  <2>5. Cardinality(I) \in Nat /\ (Cardinality(I) = 0 <=> I = {})
    BY <2>3, FS_CardinalityType, FS_EmptySet
  <2>. QED BY <2>4, <2>5 DEF I
<1>. HIDE DEF Times
<1>6. \A b : AddressesOf(w.h, Again(b), "OBJECT") /\ (b \in ToSet(found) => a \in ToSet(Again(b)))
  BY <1>2, <1>5, RepeatedAddress
<1>. HIDE DEF Again
<1>7. /\ TypeOn(w.h, Own)
      /\ Own.kind = w.h[a].kind
      /\ Own.name = w.h[a].name
      /\ Own.names = w.h[a].names
      /\ Own.items = w.h[a].items
      /\ Own.interfaces = found
      /\ Own.possible = w.h[a].possible
  BY <1>2, <1>3 DEF TypeOn, TypeShape
<1>8. ASSUME NEW b \in DOMAIN w.h
      PROVE  /\ TypeOn(w.h, Other(b))
             /\ Other(b).kind = w.h[b].kind
             /\ Other(b).name = w.h[b].name
             /\ Other(b).names = w.h[b].names
             /\ Other(b).items = w.h[b].items
             /\ Other(b).interfaces = w.h[b].interfaces
             /\ ToSet(w.h[b].possible) \subseteq ToSet(Other(b).possible)
             /\ ToSet(Again(b)) \subseteq ToSet(Other(b).possible)
  <2>1. TypeOn(w.h, w.h[b])
    BY WorldFacts
  <2>2. /\ DOMAIN Other(b) = DOMAIN w.h[b]
        /\ Other(b).kind = w.h[b].kind
        /\ Other(b).name = w.h[b].name
        /\ Other(b).names = w.h[b].names
        /\ Other(b).items = w.h[b].items
        /\ Other(b).interfaces = w.h[b].interfaces
        /\ Other(b).possible = w.h[b].possible \o Again(b)
    BY <2>1 DEF TypeOn, TypeShape
  <2>3. /\ AddressesOf(w.h, w.h[b].possible \o Again(b), "OBJECT")
        /\ ToSet(w.h[b].possible) \subseteq ToSet(w.h[b].possible \o Again(b))
        /\ ToSet(Again(b)) \subseteq ToSet(w.h[b].possible \o Again(b))
    BY <1>6, <2>1, ConcatAddresses DEF TypeOn
  <2>. HIDE DEF Other
  <2>. QED BY <2>1, <2>2, <2>3 DEF TypeOn, TypeShape
<1>. HIDE DEF Own, Other
<1>9. \A b \in DOMAIN w.h : /\ TypeOn(w.h, g[b])
                            /\ g[b].kind = w.h[b].kind
                            /\ g[b].name = w.h[b].name
                            /\ g[b].names = w.h[b].names
                            /\ g[b].items = w.h[b].items
  BY <1>4, <1>7, <1>8
<1>10. WorldInv(v)
  <2>1. Keeps(w, [w EXCEPT !.h = g, !.end = e])
    BY <1>0, <1>4, <1>9, UpdatedWorld
  <2>. QED BY <1>1, <2>1 DEF Keeps
<1>11. Len(g) = Len(w.h) /\ DOMAIN g = DOMAIN w.h
  BY <1>4, <1>9, UpdatedHeap DEF WorldInv
<1>12. SameTypes(w, v)
  BY <1>1, <1>9, <1>11 DEF SameTypes
<1>13. \A b \in DOMAIN w.h : /\ b # a => v.h[b].interfaces = w.h[b].interfaces
                             /\ ToSet(w.h[b].possible) \subseteq ToSet(v.h[b].possible)
  <2>. TAKE b \in DOMAIN w.h
  <2>1. CASE b = a
    <3>1. v.h[b] = Own BY <1>1, <1>4, <2>1
    <3>. QED BY <1>7, <2>1, <3>1
  <2>2. CASE b # a
    <3>1. v.h[b] = Other(b) BY <1>1, <1>4, <2>2
    <3>. QED BY <1>8, <3>1
  <2>. QED BY <2>1, <2>2
<1>14. ASSUME v.end = "" PROVE Linked(v, a)
  <2>1. AllAre(w, w.h[a].names, "INTERFACE")
    BY <1>1, <1>14 DEF e
  <2>2. v.h[a].interfaces = found /\ v.h[a].names = w.h[a].names
    BY <1>1, <1>4, <1>7
  <2>3. ASSUME NEW b \in ToSet(found) PROVE b \in DOMAIN v.h /\ a \in ToSet(v.h[b].possible)
    <3>1. b \in DOMAIN w.h /\ w.h[b].kind = "INTERFACE"
      BY <1>3, <2>1
    <3>2. b # a
      BY <3>1
    <3>3. v.h[b] = Other(b)
      BY <1>1, <1>4, <3>1, <3>2
    <3>. QED BY <1>1, <1>6, <1>8, <1>11, <3>1, <3>3
  <2>. QED BY <1>1, <1>3, <2>1, <2>2, <2>3 DEF Linked
<1>. QED BY <1>10, <1>12, <1>13, <1>14

(* The objects in the order of their names. *)
LEMMA AfterLinksExists ==
  ASSUME NEW w, NEW n \in Nat
  PROVE  \E g : g = [i \in 0 .. n |->
                       IF i = 0 THEN w
                       ELSE IF ~IsA(w, Alphabet[i], "OBJECT") THEN g[i - 1]
                       ELSE linkObject(g[i - 1], w.s.types[Alphabet[i]])]
<1>. DEFINE Step(u, i) == IF ~IsA(w, Alphabet[i], "OBJECT") THEN u
                          ELSE linkObject(u, w.s.types[Alphabet[i]])
            S == {m \in 0 .. n : \E g : g = [i \in 0 .. m |-> IF i = 0 THEN w ELSE Step(g[i - 1], i)]}
<1>. HIDE DEF Step
<1>1. 0 \in S
  <2>. DEFINE f == [i \in 0 .. 0 |-> w]
  <2>1. \A i \in 0 .. 0 : f[i] = IF i = 0 THEN w ELSE Step(f[i - 1], i)
    OBVIOUS
  <2>2. f = [i \in 0 .. 0 |-> f[i]]
    OBVIOUS
  <2>. HIDE DEF f
  <2>3. f = [i \in 0 .. 0 |-> IF i = 0 THEN w ELSE Step(f[i - 1], i)]
    BY <2>1, <2>2
  <2>. QED BY <2>3
<1>2. ASSUME NEW m \in 0 .. n - 1, m \in S PROVE m + 1 \in S
  <2>1. PICK g : g = [i \in 0 .. m |-> IF i = 0 THEN w ELSE Step(g[i - 1], i)]
    BY <1>2
  <2>. DEFINE f == [i \in 0 .. m + 1 |-> IF i = m + 1 THEN Step(g[m], m + 1) ELSE g[i]]
  <2>2. \A i \in 0 .. m + 1 : f[i] = IF i = 0 THEN w ELSE Step(f[i - 1], i)
    <3>. TAKE i \in 0 .. m + 1
    <3>1. CASE i = m + 1 BY <3>1
    <3>2. CASE i = 0 BY <2>1, <3>2
    <3>3. CASE i # 0 /\ i # m + 1
      <4>1. i \in 0 .. m /\ i - 1 \in 0 .. m BY <3>3
      <4>2. g[i] = Step(g[i - 1], i) BY <2>1, <3>3, <4>1
      <4>3. f[i] = g[i] /\ f[i - 1] = g[i - 1] BY <3>3, <4>1
      <4>. QED BY <3>3, <4>2, <4>3
    <3>. QED BY <3>1, <3>2, <3>3
  <2>3. f = [i \in 0 .. m + 1 |-> f[i]] OBVIOUS
  <2>. HIDE DEF f
  <2>4. f = [i \in 0 .. m + 1 |-> IF i = 0 THEN w ELSE Step(f[i - 1], i)]
    BY <2>2, <2>3
  <2>5. m + 1 \in 0 .. n OBVIOUS
  <2>. QED BY <2>4, <2>5
<1>3. n \in S
  <2>. HIDE DEF S
  <2>1. 0 .. n \subseteq S BY <1>1, <1>2, Induction
  <2>. QED BY <2>1
<1>. QED BY <1>3 DEF Step

LEMMA AfterLinksIs ==
  ASSUME NEW w
  PROVE  /\ Len(Alphabet) \in Nat
         /\ AfterLinks(w)[0] = w
         /\ \A i \in 1 .. Len(Alphabet) :
              AfterLinks(w)[i] = IF ~IsA(w, Alphabet[i], "OBJECT") THEN AfterLinks(w)[i - 1]
                                 ELSE linkObject(AfterLinks(w)[i - 1], w.s.types[Alphabet[i]])
<1>1. Len(Alphabet) \in Nat BY AlphabetAssumption, LenProperties
<1>. DEFINE after == CHOOSE g : g = [i \in 0 .. Len(Alphabet) |->
                                       IF i = 0 THEN w
                                       ELSE IF ~IsA(w, Alphabet[i], "OBJECT") THEN g[i - 1]
                                       ELSE linkObject(g[i - 1], w.s.types[Alphabet[i]])]
<1>2. after = [i \in 0 .. Len(Alphabet) |->
                 IF i = 0 THEN w
                 ELSE IF ~IsA(w, Alphabet[i], "OBJECT") THEN after[i - 1]
                 ELSE linkObject(after[i - 1], w.s.types[Alphabet[i]])]
  BY <1>1, AfterLinksExists
<1>3. AfterLinks(w) = after BY DEF AfterLinks
<1>. HIDE DEF after
<1>4. after[0] = w
  <2>1. 0 \in 0 .. Len(Alphabet) BY <1>1
  <2>. QED BY <1>2, <2>1
<1>5. ASSUME NEW i \in 1 .. Len(Alphabet)
      PROVE  after[i] = IF ~IsA(w, Alphabet[i], "OBJECT") THEN after[i - 1]
                        ELSE linkObject(after[i - 1], w.s.types[Alphabet[i]])
  <2>1. i \in 0 .. Len(Alphabet) /\ i # 0 BY <1>1
  <2>. QED BY <1>2, <2>1
<1>. QED BY <1>1, <1>3, <1>4, <1>5

(* So far the first i names have been linked. *)
LinkedUpTo(w, u, i) ==
  /\ WorldInv(u)
  /\ SameTypes(w, u)
  /\ u.end = "" => \A j \in 1 .. i : IsA(w, Alphabet[j], "OBJECT") => Linked(u, w.s.types[Alphabet[j]])

LEMMA LinkedNext ==
  ASSUME NEW w, WorldInv(w), NEW i \in 1 .. Len(Alphabet), NEW u, LinkedUpTo(w, u, i - 1), NEW v,
         v = IF ~IsA(w, Alphabet[i], "OBJECT") THEN u ELSE linkObject(u, w.s.types[Alphabet[i]])
  PROVE  LinkedUpTo(w, v, i)
<1>. DEFINE a == w.s.types[Alphabet[i]]
<1>0. \A j \in 1 .. i : j \in 1 .. i - 1 \/ j = i
  BY AfterLinksIs
<1>1. CASE ~IsA(w, Alphabet[i], "OBJECT")
  BY <1>0, <1>1 DEF LinkedUpTo
<1>2. CASE IsA(w, Alphabet[i], "OBJECT") /\ u.end # ""
  <2>1. v = u BY <1>2 DEF linkObject
  <2>. QED BY <1>2, <2>1 DEF LinkedUpTo
<1>3. CASE IsA(w, Alphabet[i], "OBJECT") /\ u.end = ""
  <2>1. v = linkInterfaces(u, a) BY <1>3 DEF linkObject
  <2>2. a \in DOMAIN u.h /\ u.h[a].kind = "OBJECT"
    BY <1>3, WorldFacts DEF LinkedUpTo, SameTypes, IsA, Leads
  <2>3. /\ WorldInv(v)
        /\ SameTypes(u, v)
        /\ \A b \in DOMAIN u.h : /\ b # a => v.h[b].interfaces = u.h[b].interfaces
                                 /\ ToSet(u.h[b].possible) \subseteq ToSet(v.h[b].possible)
        /\ v.end = "" => Linked(v, a)
    BY <2>1, <2>2, LinkedObject DEF LinkedUpTo
  <2>4. SameTypes(w, v)
    BY <2>3 DEF LinkedUpTo, SameTypes
  <2>5. ASSUME v.end = "", NEW j \in 1 .. i, IsA(w, Alphabet[j], "OBJECT")
        PROVE  Linked(v, w.s.types[Alphabet[j]])
    <3>. DEFINE b == w.s.types[Alphabet[j]]
    <3>1. CASE b = a BY <2>3, <2>5, <3>1
    <3>2. CASE b # a
      <4>1. Linked(u, b)
        BY <1>0, <1>3, <2>5, <3>2 DEF LinkedUpTo
      <4>2. b \in DOMAIN u.h
        BY <2>5, WorldFacts DEF LinkedUpTo, SameTypes, IsA, Leads
      <4>. HIDE DEF b, a
      <4>3. v.h[b].interfaces = u.h[b].interfaces /\ v.h[b].names = u.h[b].names
        BY <2>3, <3>2, <4>2 DEF SameTypes
      <4>4. ASSUME NEW c \in ToSet(v.h[b].interfaces) PROVE c \in DOMAIN v.h /\ b \in ToSet(v.h[c].possible)
        <5>1. c \in DOMAIN u.h /\ b \in ToSet(u.h[c].possible)
          BY <4>1, <4>3 DEF Linked
        <5>. QED BY <2>3, <5>1 DEF SameTypes
      <4>5. Linked(v, b)
        BY <2>3, <4>1, <4>3, <4>4 DEF Linked, SameTypes
      <4>. QED BY <4>5 DEF b
    <3>. QED BY <3>1, <3>2
  <2>. QED BY <2>3, <2>4, <2>5 DEF LinkedUpTo
<1>. QED BY <1>1, <1>2, <1>3

LEMMA LinkedObjects ==
  ASSUME NEW w, WorldInv(w), NEW v \in linkObjects(w)
  PROVE  /\ Keeps(w, v)
         /\ v.end = "" => ObjectsLinked(v)
         /\ TypesResolved(w) => TypesResolved(v)
         /\ DeclsResolved(w) => DeclsResolved(v)
         /\ EntriesResolved(w) => EntriesResolved(v)
<1>. DEFINE n     == Len(Alphabet)
            after == AfterLinks(w)
            S     == {i \in 0 .. n : LinkedUpTo(w, after[i], i)}
<1>1. /\ n \in Nat
      /\ after[0] = w
      /\ \A i \in 1 .. n : after[i] = IF ~IsA(w, Alphabet[i], "OBJECT") THEN after[i - 1]
                                      ELSE linkObject(after[i - 1], w.s.types[Alphabet[i]])
  BY AfterLinksIs
<1>2. v = after[n]
  BY DEF linkObjects
<1>. HIDE DEF after
<1>3. 0 \in S
  <2>1. LinkedUpTo(w, w, 0)
    BY DEF LinkedUpTo, SameTypes
  <2>. QED BY <1>1, <2>1
<1>4. ASSUME NEW i \in 0 .. n - 1, i \in S PROVE i + 1 \in S
  <2>1. i + 1 \in 1 .. n /\ (i + 1) - 1 = i BY <1>1
  <2>2. LinkedUpTo(w, after[i], (i + 1) - 1) BY <1>4, <2>1
  <2>3. LinkedUpTo(w, after[i + 1], i + 1) BY <1>1, <2>1, <2>2, LinkedNext
  <2>. QED BY <1>1, <2>1, <2>3
<1>5. LinkedUpTo(w, v, n)
  <2>1. n \in S
    <3>. HIDE DEF S
    <3>1. 0 .. n \subseteq S BY <1>1, <1>3, <1>4, Induction
    <3>. QED BY <1>1, <3>1
  <2>. QED BY <1>2, <2>1
<1>6. WorldInv(v) /\ SameTypes(w, v)
  BY <1>5 DEF LinkedUpTo
<1>7. ASSUME v.end = "" PROVE ObjectsLinked(v)
  <2>. SUFFICES ASSUME NEW m \in DOMAIN v.s.types, v.h[v.s.types[m]].kind = "OBJECT"
                PROVE  Linked(v, v.s.types[m])
    BY DEF ObjectsLinked, Linked, Addresses
  <2>1. m \in ToSet(Alphabet) /\ v.s.types[m] \in DOMAIN v.h
    BY <1>6 DEF WorldInv, TypesOn
  <2>2. PICK j \in 1 .. n : Alphabet[j] = m
    <3>1. DOMAIN Alphabet = 1 .. n BY AlphabetAssumption, LenProperties
    <3>. QED BY <2>1, <3>1 DEF ToSet
  <2>3. IsA(w, m, "OBJECT")
    BY <1>6, <2>1 DEF IsA, SameTypes
  <2>. QED BY <1>5, <1>6, <1>7, <2>2, <2>3 DEF LinkedUpTo, SameTypes
<1>8. /\ TypesResolved(w) => TypesResolved(v)
      /\ DeclsResolved(w) => DeclsResolved(v)
      /\ EntriesResolved(w) => EntriesResolved(v)
  BY <1>6, WorldFacts DEF SameTypes, TypesResolved, FieldsFilled, DeclsResolved, EntriesResolved, Addresses
<1>9. Keeps(w, v)
  BY <1>6 DEF SameTypes, Keeps, Grown, Stays
<1>. QED BY <1>7, <1>8, <1>9

LEMMA LinkedUnions ==
  ASSUME NEW w, WorldInv(w), NEW v \in linkUnions(w)
  PROVE  /\ Keeps(w, v)
         /\ v.end = "" => UnionsLinked(v)
         /\ TypesResolved(w) => TypesResolved(v)
         /\ DeclsResolved(w) => DeclsResolved(v)
         /\ EntriesResolved(w) => EntriesResolved(v)
         /\ ObjectsLinked(w) => ObjectsLinked(v)
<1>. DEFINE unions == OfKind(w, "UNION")
            good   == {a \in unions : AllAre(w, w.h[a].names, "OBJECT")}
            Link(t) == [t EXCEPT !.possible = LookedUp(w, t.names, "OBJECT")]
<1>1. PICK r \in Ranged(unions, good) :
        v = [w EXCEPT !.h = [a \in DOMAIN w.h |-> IF a \in r.to THEN Link(w.h[a]) ELSE w.h[a]],
                      !.end = r.end]
  BY DEF linkUnions
<1>0. r.end # "ok"
  BY RangedKeys
<1>2. r.to \subseteq unions /\ (r.end = "" => good = unions /\ r.to = unions)
  BY RangedFacts, RangedKeys
<1>. DEFINE g == [a \in DOMAIN w.h |-> IF a \in r.to THEN Link(w.h[a]) ELSE w.h[a]]
<1>3. /\ g = [a \in DOMAIN w.h |-> g[a]]
      /\ \A a \in DOMAIN w.h : g[a] = IF a \in r.to THEN Link(w.h[a]) ELSE w.h[a]
  OBVIOUS
<1>4. v = [w EXCEPT !.h = g, !.end = r.end]
  BY <1>1
<1>5. v.h = g /\ v.s = w.s /\ v.end = r.end
  BY <1>4 DEF WorldInv, WorldShape
<1>. HIDE DEF g
<1>6. ASSUME NEW a \in DOMAIN w.h
      PROVE  /\ TypeOn(w.h, Link(w.h[a]))
             /\ Link(w.h[a]).kind = w.h[a].kind
             /\ Link(w.h[a]).name = w.h[a].name
             /\ Link(w.h[a]).names = w.h[a].names
             /\ Link(w.h[a]).items = w.h[a].items
             /\ Link(w.h[a]).interfaces = w.h[a].interfaces
             /\ Link(w.h[a]).possible = LookedUp(w, w.h[a].names, "OBJECT")
  <2>1. TypeOn(w.h, w.h[a]) /\ IsList(w.h[a].names)
    BY WorldFacts DEF TypeOn
  <2>2. AddressesOf(w.h, LookedUp(w, w.h[a].names, "OBJECT"), "OBJECT")
    BY <2>1, LookedUpFacts
  <2>3. /\ DOMAIN Link(w.h[a]) = DOMAIN w.h[a]
        /\ Link(w.h[a]).kind = w.h[a].kind
        /\ Link(w.h[a]).name = w.h[a].name
        /\ Link(w.h[a]).names = w.h[a].names
        /\ Link(w.h[a]).items = w.h[a].items
        /\ Link(w.h[a]).interfaces = w.h[a].interfaces
        /\ Link(w.h[a]).possible = LookedUp(w, w.h[a].names, "OBJECT")
    BY <2>1 DEF TypeOn, TypeShape
  <2>. HIDE DEF Link
  <2>. QED BY <2>1, <2>2, <2>3 DEF TypeOn, TypeShape
<1>. HIDE DEF Link
<1>7. \A a \in DOMAIN w.h : /\ TypeOn(w.h, g[a])
                            /\ g[a].kind = w.h[a].kind
                            /\ g[a].name = w.h[a].name
  BY <1>3, <1>6, WorldFacts
<1>8. Keeps(w, v)
  BY <1>0, <1>3, <1>4, <1>7, UpdatedWorld
<1>9. Len(g) = Len(w.h) /\ DOMAIN g = DOMAIN w.h
  BY <1>3, <1>7, UpdatedHeap DEF WorldInv
<1>10. SameTypes(w, v)
  BY <1>3, <1>5, <1>6, <1>9 DEF SameTypes
<1>11. \A a \in DOMAIN w.h : /\ g[a].interfaces = w.h[a].interfaces
                             /\ g[a].kind # "UNION" => g[a].possible = w.h[a].possible
  <2>1. \A a \in r.to : w.h[a].kind = "UNION"
    BY <1>2 DEF OfKind
  <2>. QED BY <1>3, <1>6, <2>1
<1>12. ASSUME v.end = "", NEW a \in Addresses(w.s), v.h[a].kind = "UNION"
       PROVE  ToSet(v.h[a].possible) = Members(v.s, v.h[a].names)
  <2>0. a \in DOMAIN w.h /\ w.h[a].kind = "UNION"
    BY <1>5, <1>7, <1>12, WorldFacts
  <2>1. a \in DOMAIN w.h /\ a \in r.to /\ AllAre(w, w.h[a].names, "OBJECT")
    BY <1>2, <1>5, <1>12, <2>0 DEF OfKind
  <2>2. g[a] = Link(w.h[a])
    BY <1>3, <2>1
  <2>3. IsList(w.h[a].names)
    BY <2>1, WorldFacts DEF TypeOn
  <2>4. g[a].possible = [i \in DOMAIN w.h[a].names |-> w.s.types[w.h[a].names[i]]]
    BY <1>6, <2>1, <2>2, <2>3, LookedUpFacts
  <2>5. g[a].names = w.h[a].names
    BY <1>6, <2>1, <2>2
  <2>6. ToSet(g[a].possible) = Members(w.s, g[a].names)
    <3>1. \A b \in ToSet(g[a].possible) : b \in Members(w.s, g[a].names)
      <4>. SUFFICES ASSUME NEW b \in ToSet(g[a].possible) PROVE b \in Members(w.s, g[a].names)
        OBVIOUS
      <4>1. PICK i \in DOMAIN g[a].possible : b = g[a].possible[i]
        BY DEF ToSet
      <4>2. i \in DOMAIN w.h[a].names /\ b = w.s.types[w.h[a].names[i]]
        BY <2>4, <4>1
      <4>. QED BY <2>5, <4>2 DEF Members, ToSet
    <3>2. \A b \in Members(w.s, g[a].names) : b \in ToSet(g[a].possible)
      <4>. SUFFICES ASSUME NEW b \in Members(w.s, g[a].names) PROVE b \in ToSet(g[a].possible)
        OBVIOUS
      <4>1. PICK i \in DOMAIN w.h[a].names : b = w.s.types[w.h[a].names[i]]
        BY <2>5 DEF Members, ToSet
      <4>2. i \in DOMAIN g[a].possible /\ b = g[a].possible[i]
        BY <2>4, <4>1
      <4>. QED BY <4>2 DEF ToSet
    <3>. QED BY <3>1, <3>2
  <2>. QED BY <1>5, <2>6
<1>13. ASSUME ObjectsLinked(w) PROVE ObjectsLinked(v)
  <2>. SUFFICES ASSUME NEW a \in Addresses(w.s), w.h[a].kind = "OBJECT"
                PROVE  Linked(v, a)
    BY <1>5, <1>7, WorldFacts DEF ObjectsLinked, Linked
  <2>1. Linked(w, a) /\ a \in DOMAIN w.h
    BY <1>13, WorldFacts DEF ObjectsLinked, Linked
  <2>2. v.h[a].interfaces = w.h[a].interfaces /\ v.h[a].names = w.h[a].names
    BY <1>5, <1>10, <1>11, <2>1 DEF SameTypes
  <2>3. ASSUME NEW b \in ToSet(w.h[a].interfaces) PROVE b \in DOMAIN v.h /\ a \in ToSet(v.h[b].possible)
    <3>1. b \in DOMAIN w.h /\ a \in ToSet(w.h[b].possible)
      BY <2>1 DEF Linked
    <3>2. w.h[b].kind = "INTERFACE"
      <4>1. AddressesOf(w.h, w.h[a].interfaces, "INTERFACE")
        BY <2>1, WorldFacts DEF TypeOn
      <4>2. b # 0
        BY <3>1, WorldFacts
      <4>. QED BY <4>1, <4>2 DEF AddressesOf, ToSet
    <3>3. g[b].possible = w.h[b].possible
      BY <1>7, <1>11, <3>1, <3>2
    <3>. QED BY <1>5, <1>9, <3>1, <3>3
  <2>. QED BY <1>5, <2>1, <2>2, <2>3 DEF Linked
<1>14. /\ TypesResolved(w) => TypesResolved(v)
       /\ DeclsResolved(w) => DeclsResolved(v)
       /\ EntriesResolved(w) => EntriesResolved(v)
  BY <1>10, WorldFacts DEF SameTypes, TypesResolved, FieldsFilled, DeclsResolved, EntriesResolved, Addresses
<1>15. v.end = "" => UnionsLinked(v)
  BY <1>5, <1>12 DEF UnionsLinked
<1>. QED BY <1>8, <1>13, <1>14, <1>15

ValuesOk(s, xs) == AllOk(xs, LAMBDA x : DirectivesOk(s, x.dirs))

resolveValues(s, xs) ==
  Until(xs, LAMBDA x : DirectivesOk(s, x.dirs), LAMBDA x : [x EXCEPT !.dirs = resolveDirectives(s, @)])

LEMMA ResolvedValues ==
  ASSUME NEW s, DeclLists(s), NEW xs, ItemsIn("ENUM", xs, {})
  PROVE  /\ ItemsIn("ENUM", resolveValues(s, xs), {})
         /\ ValuesOk(s, xs) =>
              \A i \in DOMAIN resolveValues(s, xs) : AllFilled(s, resolveValues(s, xs)[i].dirs)
<1>. DEFINE Of(x) == [x EXCEPT !.dirs = resolveDirectives(s, @)]
            ys    == resolveValues(s, xs)
<1>1. ys = [i \in DOMAIN xs |-> IF \A j \in 1 .. i - 1 : DirectivesOk(s, xs[j].dirs) THEN Of(xs[i])
                                ELSE xs[i]]
  BY DEF resolveValues, Until
<1>2. ASSUME NEW x, ValueIn(x)
      PROVE  ValueIn(Of(x)) /\ (DirectivesOk(s, x.dirs) => AllFilled(s, Of(x).dirs))
  <2>1. DOMAIN Of(x) = DOMAIN x /\ Of(x).dirs = resolveDirectives(s, x.dirs)
    BY <1>2 DEF ValueIn
  <2>. HIDE DEF Of
  <2>. QED BY <1>2, <2>1, ResolvedDirs DEF ValueIn
<1>. HIDE DEF Of, ys
<1>3. Len(xs) \in Nat /\ DOMAIN xs = 1 .. Len(xs) /\ \A i \in DOMAIN xs : ValueIn(xs[i])
  BY ListFacts DEF ItemsIn, ItemIn
<1>4. IsList(ys) /\ DOMAIN ys = DOMAIN xs
  BY <1>1, <1>3, MappedList
<1>5. \A i \in DOMAIN ys : ValueIn(ys[i])
  BY <1>1, <1>2, <1>3, <1>4
<1>6. ASSUME ValuesOk(s, xs), NEW i \in DOMAIN ys PROVE AllFilled(s, ys[i].dirs)
  <2>1. \A j \in DOMAIN xs : DirectivesOk(s, xs[j].dirs)
    BY <1>6 DEF ValuesOk, AllOk
  <2>2. \A j \in 1 .. i - 1 : j \in DOMAIN xs
    BY <1>3, <1>4
  <2>3. ys[i] = Of(xs[i])
    BY <1>1, <1>4, <2>1, <2>2
  <2>. QED BY <1>2, <1>3, <1>4, <2>1, <2>3
<1>. QED BY <1>4, <1>5, <1>6 DEF ItemsIn, ItemIn, ys

LEMMA ResolvedEnums ==
  ASSUME NEW w, WorldInv(w), NEW v \in resolveEnums(w)
  PROVE  /\ Keeps(w, v)
         /\ v.end = "" => ValuesFilled(v)
         /\ TypesResolved(w) => TypesResolved(v)
         /\ DeclsResolved(w) => DeclsResolved(v)
         /\ EntriesResolved(w) => EntriesResolved(v)
         /\ ObjectsLinked(w) => ObjectsLinked(v)
         /\ UnionsLinked(w) => UnionsLinked(v)
<1>. DEFINE enums      == OfKind(w, "ENUM")
            ValueOk(x) == DirectivesOk(w.s, x.dirs)
            Value(x)   == [x EXCEPT !.dirs = resolveDirectives(w.s, @)]
            Enum(t)    == [t EXCEPT !.items = Until(@, ValueOk, Value)]
            good       == {a \in enums : AllOk(w.h[a].items, ValueOk)}
<1>1. PICK r \in Ranged(enums, good) :
        v = [w EXCEPT !.h = [a \in DOMAIN w.h |-> IF a \in r.to THEN Enum(w.h[a]) ELSE w.h[a]],
                      !.end = r.end]
  BY DEF resolveEnums
<1>0. r.end # "ok"
  BY RangedKeys
<1>2. r.to \subseteq enums /\ (r.end = "" => good = enums /\ r.to = enums)
  <2>. HIDE DEF enums
  <2>1. good \subseteq enums
    OBVIOUS
  <2>. HIDE DEF good
  <2>. QED BY <2>1, RangedFacts, RangedKeys
<1>. DEFINE g == [a \in DOMAIN w.h |-> IF a \in r.to THEN Enum(w.h[a]) ELSE w.h[a]]
<1>3. /\ g = [a \in DOMAIN w.h |-> g[a]]
      /\ \A a \in DOMAIN w.h : g[a] = IF a \in r.to THEN Enum(w.h[a]) ELSE w.h[a]
  OBVIOUS
<1>4. v = [w EXCEPT !.h = g, !.end = r.end]
  BY <1>1
<1>5. v.h = g /\ v.s = w.s /\ v.end = r.end
  BY <1>4 DEF WorldInv, WorldShape
<1>. HIDE DEF g
<1>6. ASSUME NEW t, TypeShape(t)
      PROVE  /\ DOMAIN Enum(t) = DOMAIN t
             /\ Enum(t).kind = t.kind
             /\ Enum(t).name = t.name
             /\ Enum(t).names = t.names
             /\ Enum(t).interfaces = t.interfaces
             /\ Enum(t).possible = t.possible
             /\ Enum(t).items = resolveValues(w.s, t.items)
  <2>1. /\ DOMAIN Enum(t) = DOMAIN t
        /\ Enum(t).kind = t.kind
        /\ Enum(t).name = t.name
        /\ Enum(t).names = t.names
        /\ Enum(t).interfaces = t.interfaces
        /\ Enum(t).possible = t.possible
        /\ Enum(t).items = Until(t.items, ValueOk, Value)
    BY <1>6 DEF TypeShape
  <2>2. Until(t.items, ValueOk, Value) = resolveValues(w.s, t.items)
    BY DEF resolveValues, Until
  <2>. QED BY <2>1, <2>2
<1>. HIDE DEF Enum
<1>7. ASSUME NEW a \in DOMAIN w.h
      PROVE  /\ TypeOn(w.h, g[a])
             /\ g[a].kind = w.h[a].kind
             /\ g[a].name = w.h[a].name
             /\ g[a].names = w.h[a].names
             /\ g[a].interfaces = w.h[a].interfaces
             /\ g[a].possible = w.h[a].possible
             /\ g[a].kind # "ENUM" => g[a].items = w.h[a].items
             /\ a \in r.to /\ r.end = "" =>
                  \A i \in DOMAIN g[a].items : AllFilled(w.s, g[a].items[i].dirs)
  <2>1. TypeOn(w.h, w.h[a]) /\ TypeShape(w.h[a]) /\ IsList(w.h[a].items)
    BY WorldFacts DEF TypeOn, ItemsIn
  <2>2. CASE a \in r.to
    <3>1. w.h[a].kind = "ENUM" /\ g[a] = Enum(w.h[a])
      BY <1>2, <1>3, <2>2 DEF OfKind
    <3>0. ItemsIn("ENUM", w.h[a].items, {}) /\ DeclLists(w.s)
      BY <2>1, <3>1, WorldFacts DEF TypeOn, ItemsIn, ItemIn
    <3>6. g[a].items = resolveValues(w.s, w.h[a].items)
      BY <1>6, <2>1, <3>1
    <3>7. /\ ItemsIn("ENUM", g[a].items, {})
          /\ ValuesOk(w.s, w.h[a].items) => \A i \in DOMAIN g[a].items : AllFilled(w.s, g[a].items[i].dirs)
      BY <3>0, <3>6, ResolvedValues
    <3>8. r.end = "" => ValuesOk(w.s, w.h[a].items)
      BY <1>2, <2>2 DEF ValuesOk, AllOk
    <3>2. ItemsIn("ENUM", g[a].items, 0 .. Len(w.h))
      BY <3>7 DEF ItemsIn, ItemIn
    <3>3. /\ DOMAIN g[a] = DOMAIN w.h[a]
          /\ g[a].kind = w.h[a].kind
          /\ g[a].name = w.h[a].name
          /\ g[a].names = w.h[a].names
          /\ g[a].interfaces = w.h[a].interfaces
          /\ g[a].possible = w.h[a].possible
      BY <1>6, <2>1, <3>1
    <3>4. TypeShape(g[a])
      BY <2>1, <3>3 DEF TypeShape
    <3>5. TypeOn(w.h, g[a])
      BY <2>1, <3>1, <3>2, <3>3, <3>4 DEF TypeOn
    <3>. QED BY <3>1, <3>3, <3>5, <3>7, <3>8
  <2>3. CASE a \notin r.to
    BY <1>3, <2>1, <2>3
  <2>. QED BY <2>2, <2>3
<1>8. Keeps(w, v)
  <2>1. \A a \in DOMAIN w.h : /\ TypeOn(w.h, g[a])
                              /\ g[a].kind = w.h[a].kind
                              /\ g[a].name = w.h[a].name
    BY <1>7
  <2>. QED BY <1>0, <1>3, <1>4, <2>1, UpdatedWorld
<1>9. Len(g) = Len(w.h) /\ DOMAIN g = DOMAIN w.h
  <2>1. HeapInv(w.h) /\ g = [a \in DOMAIN w.h |-> g[a]]
    BY <1>3 DEF WorldInv
  <2>2. \A a \in DOMAIN w.h : TypeOn(w.h, g[a]) /\ g[a].kind = w.h[a].kind
    BY <1>7
  <2>. QED BY <2>1, <2>2, UpdatedHeap
<1>10. ASSUME TypesResolved(w), NEW a \in Addresses(w.s)
       PROVE  ItemsIn(g[a].kind, g[a].items, 1 .. Len(w.h)) /\ FieldsFilled(w.s, g[a])
  <2>1. /\ a \in DOMAIN w.h
        /\ ItemsIn(w.h[a].kind, w.h[a].items, 1 .. Len(w.h))
        /\ FieldsFilled(w.s, w.h[a])
    BY <1>10, WorldFacts DEF TypesResolved
  <2>2. CASE w.h[a].kind = "ENUM"
    <3>1. TypeOn(w.h, g[a]) /\ g[a].kind = "ENUM"
      BY <1>7, <2>1, <2>2
    <3>. QED BY <3>1 DEF TypeOn, ItemsIn, ItemIn, FieldsFilled
  <2>3. CASE w.h[a].kind # "ENUM" BY <1>7, <2>1, <2>3 DEF FieldsFilled
  <2>. QED BY <2>2, <2>3
<1>11. /\ TypesResolved(w) => TypesResolved(v)
       /\ DeclsResolved(w) => DeclsResolved(v)
       /\ EntriesResolved(w) => EntriesResolved(v)
  BY <1>5, <1>9, <1>10 DEF TypesResolved, DeclsResolved, EntriesResolved
<1>12. ASSUME ObjectsLinked(w) PROVE ObjectsLinked(v)
  <2>. SUFFICES ASSUME NEW a \in Addresses(w.s), g[a].kind = "OBJECT"
                PROVE  Linked(v, a)
    BY <1>5 DEF ObjectsLinked, Linked
  <2>1. a \in DOMAIN w.h BY WorldFacts
  <2>2. Linked(w, a) BY <1>7, <1>12, <2>1 DEF ObjectsLinked, Linked
  <2>3. v.h[a].interfaces = w.h[a].interfaces /\ v.h[a].names = w.h[a].names
    BY <1>5, <1>7, <2>1
  <2>4. \A b \in ToSet(w.h[a].interfaces) : b \in DOMAIN v.h /\ a \in ToSet(v.h[b].possible)
    BY <1>5, <1>7, <1>9, <2>2 DEF Linked
  <2>. QED BY <1>5, <2>2, <2>3, <2>4 DEF Linked
<1>13. ASSUME UnionsLinked(w) PROVE UnionsLinked(v)
  <2>1. ASSUME NEW a \in Addresses(w.s), v.h[a].kind = "UNION"
        PROVE  ToSet(v.h[a].possible) = Members(v.s, v.h[a].names)
    <3>1. a \in DOMAIN w.h BY WorldFacts
    <3>2. /\ w.h[a].kind = "UNION"
          /\ v.h[a].possible = w.h[a].possible
          /\ v.h[a].names = w.h[a].names
      BY <1>5, <1>7, <2>1, <3>1
    <3>3. ToSet(w.h[a].possible) = Members(w.s, w.h[a].names)
      BY <1>13, <3>2 DEF UnionsLinked
    <3>. QED BY <1>5, <3>2, <3>3
  <2>. QED BY <1>5, <2>1 DEF UnionsLinked
<1>14. ASSUME v.end = "" PROVE ValuesFilled(v)
  <2>. SUFFICES ASSUME NEW a \in Addresses(w.s), g[a].kind = "ENUM"
                PROVE  \A i \in DOMAIN g[a].items : AllFilled(w.s, g[a].items[i].dirs)
    BY <1>5 DEF ValuesFilled
  <2>1. a \in DOMAIN w.h /\ w.h[a].kind = "ENUM"
    BY <1>7, WorldFacts
  <2>2. a \in r.to /\ r.end = ""
    BY <1>2, <1>5, <1>14, <2>1 DEF OfKind
  <2>. QED BY <1>7, <2>1, <2>2
<1>. QED BY <1>8, <1>11, <1>12, <1>13, <1>14

(* All the stages but the last, and all of them. *)
LinkedUp(w) ==
  TypesResolved(w) /\ DeclsResolved(w) /\ EntriesResolved(w) /\ ObjectsLinked(w) /\ UnionsLinked(w)

Complete(w) == LinkedUp(w) /\ ValuesFilled(w)

LEMMA StagesFacts ==
  ASSUME NEW w, WorldInv(w), NEW v \in Stages(w)
  PROVE  Keeps(w, v) /\ (v.end = "" => Complete(v))
<1>. DEFINE types   == Unended({w}, resolveNamedTypes)
            decls   == Unended(types, resolveDirectiveDecls)
            entries == Unended(decls, resolveEntryPoints)
            objects == Unended(entries, linkObjects)
            unions  == Unended(objects, linkUnions)
            enums   == Unended(unions, resolveEnums)
<1>1. v \in enums
  BY DEF Stages
<1>2. ASSUME NEW z \in types PROVE Keeps(w, z) /\ (z.end = "" => TypesResolved(z))
  <2>1. PICK x \in {w} : z \in IF x.end # "" THEN {x} ELSE resolveNamedTypes(x)
    BY DEF Unended
  <2>2. (z = x /\ x.end # "") \/ z \in resolveNamedTypes(x)
    BY <2>1
  <2>. QED BY <2>2, ResolvedTypes DEF Keeps, Grown, Stays
<1>. HIDE DEF types
<1>3. ASSUME NEW z \in decls
      PROVE  Keeps(w, z) /\ (z.end = "" => TypesResolved(z) /\ DeclsResolved(z))
  <2>1. PICK x \in types : z \in IF x.end # "" THEN {x} ELSE resolveDirectiveDecls(x)
    BY DEF Unended
  <2>2. (z = x /\ x.end # "") \/ (z \in resolveDirectiveDecls(x) /\ x.end = "")
    BY <2>1
  <2>. QED BY <1>2, <2>2, ResolvedDecls, GrownOn DEF Keeps
<1>. HIDE DEF decls
<1>4. ASSUME NEW z \in entries
      PROVE  /\ Keeps(w, z)
             /\ z.end = "" => TypesResolved(z) /\ DeclsResolved(z) /\ EntriesResolved(z)
  <2>1. PICK x \in decls : z \in IF x.end # "" THEN {x} ELSE resolveEntryPoints(x)
    BY DEF Unended
  <2>2. (z = x /\ x.end # "") \/ (z \in resolveEntryPoints(x) /\ x.end = "")
    BY <2>1
  <2>. QED BY <1>3, <2>2, ResolvedEntries, GrownOn DEF Keeps
<1>. HIDE DEF entries
<1>5. ASSUME NEW z \in objects
      PROVE  /\ Keeps(w, z)
             /\ z.end = "" => TypesResolved(z) /\ DeclsResolved(z) /\ EntriesResolved(z) /\ ObjectsLinked(z)
  <2>1. PICK x \in entries : z \in IF x.end # "" THEN {x} ELSE linkObjects(x)
    BY DEF Unended
  <2>2. (z = x /\ x.end # "") \/ (z \in linkObjects(x) /\ x.end = "")
    BY <2>1
  <2>. QED BY <1>4, <2>2, LinkedObjects, GrownOn DEF Keeps
<1>. HIDE DEF objects
<1>6. ASSUME NEW z \in unions PROVE Keeps(w, z) /\ (z.end = "" => LinkedUp(z))
  <2>1. PICK x \in objects : z \in IF x.end # "" THEN {x} ELSE linkUnions(x)
    BY DEF Unended
  <2>2. (z = x /\ x.end # "") \/ (z \in linkUnions(x) /\ x.end = "")
    BY <2>1
  <2>. QED BY <1>5, <2>2, LinkedUnions, GrownOn DEF Keeps, LinkedUp
<1>. HIDE DEF unions
<1>7. ASSUME NEW z \in enums PROVE Keeps(w, z) /\ (z.end = "" => Complete(z))
  <2>1. PICK x \in unions : z \in IF x.end # "" THEN {x} ELSE resolveEnums(x)
    BY DEF Unended
  <2>2. (z = x /\ x.end # "") \/ (z \in resolveEnums(x) /\ x.end = "")
    BY <2>1
  <2>. QED BY <1>6, <2>2, ResolvedEnums, GrownOn DEF Keeps, Complete, LinkedUp
<1>. QED BY <1>1, <1>7

LEMMA SameComplete ==
  ASSUME NEW w, NEW v, v.h = w.h, v.s = w.s, Complete(w)
  PROVE  Complete(v)
<1>0. LinkedUp(w) BY DEF Complete
<1>1. TypesResolved(v) BY <1>0 DEF LinkedUp, TypesResolved
<1>2. DeclsResolved(v) BY <1>0 DEF LinkedUp, DeclsResolved
<1>3. EntriesResolved(v) BY <1>0 DEF LinkedUp, EntriesResolved
<1>4. ObjectsLinked(v)
  <2>1. ObjectsLinked(w) BY <1>0 DEF LinkedUp
  <2>. QED BY <2>1, Zenon DEF ObjectsLinked
<1>5. UnionsLinked(v)
  <2>1. UnionsLinked(w) BY <1>0 DEF LinkedUp
  <2>2. ASSUME NEW a \in Addresses(v.s), v.h[a].kind = "UNION"
        PROVE  ToSet(v.h[a].possible) = Members(v.s, v.h[a].names)
    BY <2>1, <2>2 DEF UnionsLinked
  <2>. QED BY <2>2 DEF UnionsLinked
<1>6. ValuesFilled(v) BY DEF Complete, ValuesFilled
<1>. QED BY <1>1, <1>2, <1>3, <1>4, <1>5, <1>6 DEF Complete, LinkedUp

(* What is left of the invariant when an operation has ended. *)
SchemaOn(h, s) ==
  /\ DOMAIN s = {"types", "decls", "dirs", "entryNames", "entries"}
  /\ HeapInv(h)
  /\ TypesOn(h, s.types)
  /\ \A n \in DOMAIN s.decls : s.decls[n].name = n /\ DeclIn(s.decls[n], 0 .. Len(h))

LEMMA WorldOn ==
  ASSUME NEW h, NEW s
  PROVE  SchemaOn(h, s) <=> WorldInv(World(h, s))
BY DEF SchemaOn, WorldInv, WorldShape, World

LEMMA ResolvedSchema ==
  ASSUME NEW w, WorldInv(w), NEW v \in ResolveTypes(w)
  PROVE  /\ SchemaOn(v.h, v.s)
         /\ Grown(w.h, v.h)
         /\ v.end = "ok" => Complete(v)
<1>1. PICK x \in Stages(w) : v = [x EXCEPT !.end = IF @ = "" THEN "ok" ELSE @]
  BY DEF ResolveTypes
<1>2. WorldInv(x) /\ Grown(w.h, x.h) /\ (x.end = "" => Complete(x))
  BY StagesFacts DEF Keeps
<1>3. v.h = x.h /\ v.s = x.s /\ (v.end = "ok" => x.end = "")
  BY <1>1, <1>2 DEF WorldInv, WorldShape
<1>4. Complete(x) => Complete(v)
  BY <1>3, SameComplete
<1>. QED BY <1>2, <1>3, <1>4 DEF WorldInv, WorldShape, SchemaOn

-----------------------------------------------------------------------------
(* RenameTypes. *)

LEMMA ShownInputs ==
  ASSUME NEW w, NEW to, NEW A, NEW vs, InputsIn(vs, A)
  PROVE  InputsIn(InputsShown(w, to, vs), A)
<1>. DEFINE Shown(v) == [v EXCEPT !.type = RefShown(w, to, @)]
            us == InputsShown(w, to, vs)
<1>1. us = [i \in DOMAIN vs |-> Shown(vs[i])]
  BY DEF InputsShown
<1>2. \A r : RefIn(r, A) => RefIn(RefShown(w, to, r), A)
  BY DEF RefIn, RefShown
<1>3. ASSUME NEW v, InputIn(v, A) PROVE InputIn(Shown(v), A)
  <2>1. DOMAIN Shown(v) = DOMAIN v /\ Shown(v).type = RefShown(w, to, v.type)
    BY <1>3 DEF InputIn
  <2>. HIDE DEF Shown
  <2>. QED BY <1>2, <1>3, <2>1 DEF InputIn
<1>. HIDE DEF us, Shown
<1>4. IsList(us) /\ DOMAIN us = DOMAIN vs
  BY <1>1, ListFacts, MappedList DEF InputsIn
<1>. QED BY <1>1, <1>3, <1>4 DEF InputsIn, us

LEMMA ShownItems ==
  ASSUME NEW w, NEW to, NEW A, NEW t, ItemsIn(t.kind, t.items, A)
  PROVE  ItemsIn(t.kind, ItemsShown(w, to, t), A)
<1>. DEFINE Field(f) == [f EXCEPT !.type = RefShown(w, to, @), !.args = InputsShown(w, to, @)]
            us       == ItemsShown(w, to, t)
<1>1. CASE t.kind = "INPUT_OBJECT"
  <2>1. us = InputsShown(w, to, t.items)
    BY <1>1, Zenon DEF ItemsShown
  <2>2. InputsIn(t.items, A)
    BY <1>1 DEF ItemsIn, ItemIn, InputsIn
  <2>3. InputsIn(us, A)
    BY <2>1, <2>2, ShownInputs
  <2>. QED BY <1>1, <2>3 DEF ItemsIn, ItemIn, InputsIn
<1>2. CASE t.kind \in {"OBJECT", "INTERFACE"}
  <2>1. t.kind # "INPUT_OBJECT" BY <1>2
  <2>2. us = [i \in DOMAIN t.items |-> Field(t.items[i])]
    BY <1>2, <2>1, Zenon DEF ItemsShown
  <2>3. ASSUME NEW f, FieldIn(f, A) PROVE FieldIn(Field(f), A)
    <3>1. /\ DOMAIN Field(f) = DOMAIN f
          /\ Field(f).type = RefShown(w, to, f.type)
          /\ Field(f).args = InputsShown(w, to, f.args)
          /\ Field(f).dirs = f.dirs
      BY <2>3 DEF FieldIn
    <3>. HIDE DEF Field
    <3>2. RefIn(RefShown(w, to, f.type), A)
      BY <2>3 DEF FieldIn, RefIn, RefShown
    <3>. QED BY <2>3, <3>1, <3>2, ShownInputs DEF FieldIn
  <2>. HIDE DEF us, Field
  <2>4. IsList(us) /\ DOMAIN us = DOMAIN t.items
    BY <2>2, ListFacts, MappedList DEF ItemsIn
  <2>5. \A i \in DOMAIN us : FieldIn(us[i], A)
    BY <1>2, <2>2, <2>3, <2>4 DEF ItemsIn, ItemIn
  <2>6. t.kind # "ENUM" BY <1>2
  <2>. QED BY <2>1, <2>4, <2>5, <2>6 DEF ItemsIn, ItemIn, us
<1>3. CASE t.kind \notin {"OBJECT", "INTERFACE", "INPUT_OBJECT"}
  <2>1. t.kind \notin {"OBJECT", "INTERFACE"} /\ t.kind # "INPUT_OBJECT" BY <1>3
  <2>2. us = t.items BY <2>1, Zenon DEF ItemsShown
  <2>. QED BY <2>2
<1>. QED BY <1>1, <1>2, <1>3

LEMMA RenamedWorld ==
  ASSUME NEW w, WorldInv(w), NEW to \in Renamings, NEW v \in Renamed(w, to)
  PROVE  WorldInv(v) /\ \A a \in DOMAIN w.h : a \in DOMAIN v.h /\ v.h[a].kind = w.h[a].kind
<1>. DEFINE g     == [a \in DOMAIN w.h |-> [w.h[a] EXCEPT !.name  = NameAfter(w, to, a),
                                                          !.items = ItemsShown(w, to, w.h[a])]]
            decls == [n \in DOMAIN w.s.decls |-> [w.s.decls[n] EXCEPT !.args = InputsShown(w, to, @)]]
            Types(kept) == [m \in {NewName(to, n) : n \in kept} |->
                              w.s.types[CHOOSE n \in kept : NewName(to, n) = m]]
<1>1. PICK kept \in Kepts(w.s, to) : v = [w EXCEPT !.h = g, !.s.decls = decls, !.s.types = Types(kept)]
  BY DEF Renamed
<1>2. kept \subseteq DOMAIN w.s.types
  BY DEF Kepts
<1>. DEFINE types == Types(kept)
<1>3. /\ v.h = g
      /\ v.s.types = types
      /\ v.s.decls = decls
      /\ WorldShape(v)
  BY <1>1 DEF WorldInv, WorldShape
<1>4. ASSUME NEW a \in DOMAIN w.h
      PROVE  TypeOn(w.h, g[a]) /\ g[a].kind = w.h[a].kind /\ g[a].name = NameAfter(w, to, a)
  <2>1. TypeOn(w.h, w.h[a]) /\ TypeShape(w.h[a])
    BY WorldFacts DEF TypeOn
  <2>2. /\ DOMAIN g[a] = DOMAIN w.h[a]
        /\ g[a].kind = w.h[a].kind
        /\ g[a].name = NameAfter(w, to, a)
        /\ g[a].items = ItemsShown(w, to, w.h[a])
        /\ g[a].names = w.h[a].names
        /\ g[a].interfaces = w.h[a].interfaces
        /\ g[a].possible = w.h[a].possible
    BY <2>1 DEF TypeShape
  <2>. HIDE DEF g
  <2>3. ItemsIn(w.h[a].kind, g[a].items, 0 .. Len(w.h))
    BY <2>1, <2>2, ShownItems DEF TypeOn
  <2>. QED BY <2>1, <2>2, <2>3 DEF TypeOn, TypeShape
<1>5. g = [a \in DOMAIN w.h |-> g[a]]
  OBVIOUS
<1>6. ASSUME NEW n \in DOMAIN w.s.decls PROVE decls[n].name = n /\ DeclIn(decls[n], 0 .. Len(w.h))
  <2>1. DeclIn(w.s.decls[n], 0 .. Len(w.h)) /\ w.s.decls[n].name = n
    BY DEF WorldInv
  <2>2. /\ DOMAIN decls[n] = DOMAIN w.s.decls[n]
        /\ decls[n].name = n
        /\ decls[n].args = InputsShown(w, to, w.s.decls[n].args)
    BY <2>1 DEF DeclIn
  <2>. HIDE DEF decls
  <2>. QED BY <2>1, <2>2, ShownInputs DEF DeclIn
<1>7. DOMAIN decls = DOMAIN w.s.decls
  OBVIOUS
<1>8. ASSUME NEW n \in DOMAIN w.s.types
      PROVE  /\ w.s.types[n] \in DOMAIN w.h
             /\ NameAfter(w, to, w.s.types[n]) = NewName(to, n)
             /\ NewName(to, n) \in ToSet(Alphabet)
  <2>1. n \in ToSet(Alphabet) /\ w.s.types[n] \in DOMAIN w.h
    BY DEF WorldInv, TypesOn
  <2>2. \A k \in DOMAIN w.s.types : w.s.types[k] = w.s.types[n] => k = n
    BY DEF WorldInv, TypesOn
  <2>3. (CHOOSE k \in DOMAIN w.s.types : w.s.types[k] = w.s.types[n]) = n
    BY <2>2
  <2>4. NameAfter(w, to, w.s.types[n]) = NewName(to, n)
    BY <2>3 DEF NameAfter, Addresses
  <2>5. NewName(to, n) \in ToSet(Alphabet)
    BY <2>1, RenamingsAssumption DEF NewName
  <2>. QED BY <2>1, <2>4, <2>5
<1>. HIDE DEF g, decls
<1>9. HeapInv(g) /\ Len(g) = Len(w.h) /\ DOMAIN g = DOMAIN w.h
  BY <1>4, <1>5, UpdatedHeap DEF WorldInv
<1>10. TypesOn(g, types)
  <2>1. ASSUME NEW m \in DOMAIN types
        PROVE  m \in ToSet(Alphabet) /\ types[m] \in DOMAIN g /\ g[types[m]].name = m
    <3>. DEFINE n == CHOOSE n \in kept : NewName(to, n) = m
    <3>1. n \in kept /\ NewName(to, n) = m
      OBVIOUS
    <3>2. types[m] = w.s.types[n]
      OBVIOUS
    <3>. HIDE DEF n, types
    <3>3. w.s.types[n] \in DOMAIN w.h /\ NameAfter(w, to, w.s.types[n]) = m /\ m \in ToSet(Alphabet)
      BY <1>2, <1>8, <3>1
    <3>. QED BY <1>4, <1>9, <3>2, <3>3
  <2>. QED BY <2>1 DEF TypesOn
<1>. HIDE DEF types
<1>11. WorldInv(v)
  BY <1>3, <1>6, <1>7, <1>9, <1>10 DEF WorldInv
<1>. QED BY <1>3, <1>4, <1>9, <1>11

-----------------------------------------------------------------------------
(* The state machine. *)

Resolved == ended = "ok" /\ texts # <<>> /\ texts[Len(texts)] # <<>>

IInv ==
  /\ SchemaOn(heap, schema)
  /\ texts \in Seq(Texts \union {<<>>})
  /\ Resolved => Complete(Now)

LEMMA MetaOn == SchemaOn(Meta.h, Meta.s)
<1>. DEFINE w == World(<<>>, NoTypes)
<1>1. HeapInv(<<>>)
  <2>1. IsList(<<>>) BY DEF IsList
  <2>. QED BY <2>1 DEF HeapInv
<1>2. SchemaOn(<<>>, NoTypes)
  BY <1>1 DEF SchemaOn, NoTypes, TypesOn
<1>3. WorldInv(w)
  BY <1>2, WorldOn
<1>. HIDE DEF w
<1>4. WorldInv(parseSchema(w, MetaReading))
  BY <1>3, MetaAssumption, ParsedWorld DEF Keeps
<1>5. Meta \in ResolveTypes(parseSchema(w, MetaReading))
  BY MetaAssumption DEF w
<1>. QED BY <1>4, <1>5, ResolvedSchema

LEMMA InitInv == Init => IInv
<1>. SUFFICES ASSUME Init PROVE IInv
  OBVIOUS
<1>1. /\ DOMAIN NewSchema = {"types", "decls", "dirs", "entryNames", "entries"}
      /\ NewSchema.types = Meta.s.types
      /\ NewSchema.decls = Meta.s.decls
  BY DEF NewSchema, NoTypes
<1>2. SchemaOn(Meta.h, NewSchema)
  BY <1>1, MetaOn DEF SchemaOn
<1>. QED BY <1>2 DEF Init, IInv, Resolved

(* A type that was allocated stays where it is and keeps its kind; a Parse, *)
(* which may redeclare or alter it, does not give it another name either.   *)
TypesStay ==
  /\ \A a \in DOMAIN heap : a \in DOMAIN heap' /\ heap'[a].kind = heap[a].kind
  /\ (\E text \in Texts : Parse(text)) => \A a \in DOMAIN heap : heap'[a].name = heap[a].name

LEMMA ParseInv ==
  ASSUME IInv, NEW text \in Texts, Parse(text)
  PROVE  IInv' /\ Grown(heap, heap')
<1>. DEFINE w == parseSchema(World(heap, schema), Reading[text])
<1>1. PICK v \in Unended({w}, ResolveTypes) : heap' = v.h /\ schema' = v.s /\ ended' = v.end
  BY DEF Parse
<1>2. WorldInv(w) /\ Grown(heap, w.h)
  <2>1. WorldInv(World(heap, schema)) BY WorldOn DEF IInv
  <2>2. World(heap, schema).h = heap BY DEF World
  <2>. QED BY <2>1, <2>2, ReadingAssumption, ParsedWorld DEF Keeps
<1>. HIDE DEF w
<1>3. (v = w /\ w.end # "") \/ v \in ResolveTypes(w)
  BY DEF Unended
<1>4. SchemaOn(v.h, v.s) /\ Grown(heap, v.h) /\ (v.end = "ok" => Complete(v))
  <2>1. CASE v = w
    BY <1>2, <2>1 DEF WorldInv, WorldShape, SchemaOn
  <2>2. CASE v \in ResolveTypes(w)
    BY <1>2, <2>2, ResolvedSchema, GrownOn
  <2>. QED BY <1>3, <2>1, <2>2
<1>5. texts' \in Seq(Texts \union {<<>>})
  <2>1. text \in Texts \union {<<>>} /\ texts' = Append(texts, text)
    BY DEF Parse
  <2>. QED BY <2>1, AppendProperties DEF IInv
<1>6. Now'.h = v.h /\ Now'.s = v.s
  BY <1>1 DEF Now, World
<1>7. Complete(v) => Complete(Now')
  BY <1>6, SameComplete
<1>8. Resolved' => Complete(Now')
  BY <1>1, <1>4, <1>7 DEF Resolved
<1>9. Complete(Now') => Complete(Now)'
  BY DEF Complete, LinkedUp, TypesResolved, DeclsResolved, EntriesResolved, ObjectsLinked, UnionsLinked,
         ValuesFilled, Addresses
<1>. QED BY <1>1, <1>4, <1>5, <1>8, <1>9 DEF IInv

LEMMA RenameInv ==
  ASSUME IInv, NEW to \in Renamings, Rename(to)
  PROVE  IInv' /\ \A a \in DOMAIN heap : a \in DOMAIN heap' /\ heap'[a].kind = heap[a].kind
<1>1. PICK v \in Renamed(World(heap, schema), to) : heap' = v.h /\ schema' = v.s
  BY DEF Rename
<1>2. WorldInv(v) /\ \A a \in DOMAIN heap : a \in DOMAIN v.h /\ v.h[a].kind = heap[a].kind
  <2>1. WorldInv(World(heap, schema)) BY WorldOn DEF IInv
  <2>2. World(heap, schema).h = heap BY DEF World
  <2>. QED BY <2>1, <2>2, RenamedWorld
<1>3. SchemaOn(heap', schema')
  BY <1>1, <1>2 DEF WorldInv, WorldShape, SchemaOn
<1>4. texts' \in Seq(Texts \union {<<>>}) /\ texts'[Len(texts')] = <<>>
  <2>1. texts \in Seq(Texts \union {<<>>}) /\ texts' = Append(texts, <<>>)
    BY DEF Rename, IInv
  <2>. QED BY <2>1, AppendProperties
<1>. QED BY <1>1, <1>2, <1>3, <1>4 DEF IInv, Resolved

LEMMA NextInv == IInv /\ [Next]_vars => IInv'
<1>. SUFFICES ASSUME IInv, [Next]_vars PROVE IInv'
  OBVIOUS
<1>1. ASSUME NEW text \in Texts, Parse(text) PROVE IInv'
  BY <1>1, ParseInv
<1>2. ASSUME NEW to \in Renamings, Rename(to) PROVE IInv'
  BY <1>2, RenameInv
<1>3. CASE UNCHANGED vars
  BY <1>3 DEF vars, IInv, Resolved, Now
<1>. QED BY <1>1, <1>2, <1>3 DEF Next

LEMMA NextStays == IInv /\ [Next]_vars => [TypesStay]_vars
<1>. SUFFICES ASSUME IInv, Next PROVE TypesStay
  OBVIOUS
<1>1. ASSUME NEW text \in Texts, Parse(text) PROVE Grown(heap, heap')
  BY <1>1, ParseInv
<1>2. CASE \E text \in Texts : Parse(text)
  BY <1>1, <1>2 DEF TypesStay, Grown, Stays
<1>3. CASE ~ \E text \in Texts : Parse(text)
  <2>1. PICK to \in Renamings : Rename(to)
    BY <1>3 DEF Next
  <2>2. \A a \in DOMAIN heap : a \in DOMAIN heap' /\ heap'[a].kind = heap[a].kind
    BY <2>1, RenameInv
  <2>. QED BY <1>3, <2>2 DEF TypesStay
<1>. QED BY <1>2, <1>3

(* References within A, wherever they are. *)
LEMMA RefsWithin ==
  ASSUME NEW A, \A a \in Addresses(schema) : ItemsIn(heap[a].kind, heap[a].items, A),
         \A n \in DOMAIN schema.decls : DeclIn(schema.decls[n], A)
  PROVE  \A r \in AllRefs : r.to \in A
<1>1. ASSUME NEW vs, InputsIn(vs, A) PROVE \A r \in InputRefs(vs) : r.to \in A
  BY <1>1 DEF InputRefs, ToSet, InputsIn, InputIn, RefIn
<1>2. ASSUME NEW kind, NEW x, ItemIn(kind, x, A) PROVE \A r \in ItemRefs(kind, x) : r.to \in A
  <2>1. CASE kind = "INPUT_OBJECT"
    <3>1. ItemRefs(kind, x) = {x.type} BY <2>1, Zenon DEF ItemRefs
    <3>. QED BY <1>2, <2>1, <3>1 DEF ItemIn, InputIn, RefIn
  <2>2. CASE kind \in {"OBJECT", "INTERFACE"}
    <3>1. kind # "INPUT_OBJECT" BY <2>2
    <3>2. ItemRefs(kind, x) = {x.type} \union InputRefs(x.args) BY <2>2, <3>1, Zenon DEF ItemRefs
    <3>. QED BY <1>1, <1>2, <2>2, <3>2 DEF ItemIn, FieldIn, RefIn
  <2>3. CASE kind \notin {"OBJECT", "INTERFACE", "INPUT_OBJECT"}
    <3>1. kind \notin {"OBJECT", "INTERFACE"} /\ kind # "INPUT_OBJECT" BY <2>3
    <3>2. ItemRefs(kind, x) = {} BY <3>1, Zenon DEF ItemRefs
    <3>. QED BY <3>2
  <2>. QED BY <2>1, <2>2, <2>3
<1>3. ASSUME NEW t \in CurrentTypes, NEW r \in Refs(t) PROVE r.to \in A
  <2>1. ItemsIn(t.kind, t.items, A)
    BY DEF CurrentTypes
  <2>2. PICK x \in ToSet(t.items) : r \in ItemRefs(t.kind, x)
    BY DEF Refs
  <2>3. ItemIn(t.kind, x, A)
    BY <2>1 DEF ItemsIn, ToSet
  <2>. QED BY <1>2, <2>2, <2>3
<1>4. ASSUME NEW n \in DOMAIN schema.decls, NEW r \in InputRefs(schema.decls[n].args) PROVE r.to \in A
  <2>1. InputsIn(schema.decls[n].args, A) BY DEF DeclIn
  <2>. QED BY <1>1, <2>1
<1>5. ASSUME NEW r \in AllRefs PROVE r.to \in A
  <2>1. ASSUME r \in TypeRefs PROVE r.to \in A
    <3>1. PICK t \in CurrentTypes : r \in Refs(t) BY <2>1 DEF TypeRefs
    <3>. QED BY <1>3, <3>1
  <2>2. ASSUME r \in DeclRefs PROVE r.to \in A
    <3>1. PICK n \in DOMAIN schema.decls : r \in InputRefs(schema.decls[n].args) BY <2>2 DEF DeclRefs
    <3>. QED BY <1>4, <3>1
  <2>. QED BY <2>1, <2>2 DEF AllRefs
<1>. QED BY <1>5

LEMMA InvImpliesSchemaInv == IInv => SchemaInv
<1>. SUFFICES ASSUME IInv PROVE SchemaInv
  OBVIOUS
<1>1. /\ HeapInv(heap)
      /\ TypesOn(heap, schema.types)
      /\ \A n \in DOMAIN schema.decls : DeclIn(schema.decls[n], 0 .. Len(heap))
  BY DEF IInv, SchemaOn
<1>2. \A a \in Addresses(schema) : a \in DOMAIN heap /\ TypeOn(heap, heap[a])
  BY <1>1 DEF HeapInv, TypesOn, Addresses
<1>3. \A r \in AllRefs : r.to \in 0 .. Len(heap)
  BY <1>1, <1>2, RefsWithin DEF TypeOn
<1>4. ASSUME NEW t \in CurrentTypes
      PROVE  /\ t.kind \in Kinds
             /\ \A a \in ToSet(t.interfaces) \ {0} : heap[a].kind = "INTERFACE"
             /\ \A a \in ToSet(t.possible) \ {0} : heap[a].kind = "OBJECT"
  <2>1. TypeOn(heap, t)
    BY <1>2 DEF CurrentTypes
  <2>. QED BY <2>1 DEF TypeOn, TypeShape, AddressesOf, ToSet
<1>. QED BY <1>1, <1>3, <1>4 DEF SchemaInv, TypesOn

LEMMA InvImpliesComplete == IInv => ResolvedIsComplete
<1>. SUFFICES ASSUME IInv, Resolved
              PROVE  /\ \A r \in AllRefs : r.to # 0
                     /\ \A op \in DOMAIN schema.entryNames :
                          schema.entries[op] = schema.types[schema.entryNames[op]]
                     /\ \A t \in CurrentTypes :
                          /\ t.kind = "OBJECT" =>
                               t.interfaces = [i \in DOMAIN t.names |-> schema.types[t.names[i]]]
                          /\ t.kind = "UNION" => ToSet(t.possible) = Members(schema, t.names)
                     /\ \A a \in Addresses(schema) : \A b \in ToSet(heap[a].interfaces) :
                          a \in ToSet(heap[b].possible)
  BY DEF ResolvedIsComplete, Resolved, Members
<1>1. Now.h = heap /\ Now.s = schema
  BY DEF Now, World
<1>2. Complete(Now)
  BY DEF IInv
<1>3. \A r \in AllRefs : r.to # 0
  <2>1. \A r \in AllRefs : r.to \in 1 .. Len(heap)
    BY <1>1, <1>2, RefsWithin DEF Complete, LinkedUp, TypesResolved, DeclsResolved
  <2>2. Len(heap) \in Nat
    BY ListFacts DEF IInv, SchemaOn, HeapInv
  <2>. QED BY <2>1, <2>2
<1>4. \A op \in DOMAIN schema.entryNames : schema.entries[op] = schema.types[schema.entryNames[op]]
  BY <1>1, <1>2 DEF Complete, LinkedUp, EntriesResolved
<1>5. ASSUME NEW a \in Addresses(schema)
      PROVE  /\ heap[a].kind = "OBJECT" =>
                  heap[a].interfaces = [i \in DOMAIN heap[a].names |-> schema.types[heap[a].names[i]]]
             /\ heap[a].kind = "UNION" =>
                  ToSet(heap[a].possible) = Members(schema, heap[a].names)
  BY <1>1, <1>2 DEF Complete, LinkedUp, ObjectsLinked, UnionsLinked
<1>6. ASSUME NEW a \in Addresses(schema), NEW b \in ToSet(heap[a].interfaces)
      PROVE  a \in ToSet(heap[b].possible)
  <2>1. CASE heap[a].kind = "OBJECT"
    BY <1>1, <1>2, <2>1 DEF Complete, LinkedUp, ObjectsLinked
  <2>2. CASE heap[a].kind # "OBJECT"
    <3>1. a \in DOMAIN heap /\ TypeOn(heap, heap[a])
      BY DEF IInv, SchemaOn, HeapInv, TypesOn, Addresses
    <3>2. heap[a].interfaces = <<>>
      BY <2>2, <3>1 DEF TypeOn
    <3>. QED BY <3>2 DEF ToSet
  <2>. QED BY <2>1, <2>2
<1>. QED BY <1>3, <1>4, <1>5, <1>6 DEF CurrentTypes

(* The places on fields and enum values that VisitDirective is called at.   *)
LEMMA VisitedItem ==
  ASSUME NEW w, WorldInv(w), NEW decl, NEW p \in VisitDirective(w, decl), p[2] # 0, p[3] = 0
  PROVE  \E a \in Addresses(w.s) : \E i \in DOMAIN w.h[a].items :
           /\ p = <<a, i, 0>>
           /\ w.h[a].kind \in {"OBJECT", "INTERFACE", "ENUM", "INPUT_OBJECT"}
           /\ Has(w.h[a].items[i].dirs, decl.name)
<1>. DEFINE Searched(loc) == loc \in ToSet(decl.locs)
            Used(ds)   == Has(ds, decl.name)
            Fielded    == OfKind(w, "OBJECT") \union OfKind(w, "INTERFACE")
            Sought(a)  == {j \in DOMAIN w.h[a].items : Used(w.h[a].items[j].dirs)}
            Args(a, i) == {j \in DOMAIN w.h[a].items[i].args : Used(w.h[a].items[i].args[j].dirs)}
            TypesFor(kind) == IF Searched(kind) THEN {a \in OfKind(w, kind) : Used(w.h[a].dirs)} ELSE {}
            Own        == IF Searched("SCHEMA") /\ Used(w.s.dirs) THEN {<<0, 0, 0>>} ELSE {}
            Types      == {<<a, 0, 0>> : a \in UNION {TypesFor(kind) : kind \in Kinds}}
            Items(loc, as) == IF ~Searched(loc) THEN {}
                              ELSE UNION {{<<a, i, 0>> : i \in Sought(a)} : a \in as}
            Arguments  == IF ~Searched("ARGUMENT_DEFINITION") THEN {}
                          ELSE UNION {UNION {{<<a, i, k>> : k \in Args(a, i)} : i \in DOMAIN w.h[a].items} :
                                        a \in Fielded}
            Good(a, i) == /\ a \in OfKind(w, "OBJECT") \union OfKind(w, "INTERFACE") \union OfKind(w, "ENUM")
                                 \union OfKind(w, "INPUT_OBJECT")
                          /\ i \in Sought(a)
<1>1. \/ p = <<0, 0, 0>>
      \/ \E a : p = <<a, 0, 0>>
      \/ \E a, i : p = <<a, i, 0>> /\ Good(a, i)
      \/ \E a \in Fielded : \E i \in DOMAIN w.h[a].items : \E k \in Args(a, i) : p = <<a, i, k>>
  <2>1. VisitDirective(w, decl) =
          Own \union Types
              \union Items("FIELD_DEFINITION", Fielded)
              \union Items("ENUM_VALUE", OfKind(w, "ENUM"))
              \union Items("INPUT_FIELD_DEFINITION", OfKind(w, "INPUT_OBJECT"))
              \union Arguments
    BY Zenon DEF VisitDirective
  <2>2. \A x \in Own : x = <<0, 0, 0>>
    OBVIOUS
  <2>3. \A x \in Types : \E a : x = <<a, 0, 0>>
    OBVIOUS
  <2>4. \A loc, as : \A x \in Items(loc, as) : \E a \in as : \E i \in Sought(a) : x = <<a, i, 0>>
    OBVIOUS
  <2>5. \A x \in Arguments : \E a \in Fielded : \E i \in DOMAIN w.h[a].items : \E k \in Args(a, i) :
          x = <<a, i, k>>
    OBVIOUS
  <2>. HIDE DEF Own, Types, Items, Arguments, Sought, Args
  <2>6. \/ p \in Own
        \/ p \in Types
        \/ p \in Arguments
        \/ \E loc : p \in Items(loc, Fielded)
        \/ \E loc : p \in Items(loc, OfKind(w, "ENUM"))
        \/ \E loc : p \in Items(loc, OfKind(w, "INPUT_OBJECT"))
    BY <2>1
  <2>. QED BY <2>2, <2>3, <2>4, <2>5, <2>6
<1>2. ASSUME NEW a \in Fielded, NEW i \in DOMAIN w.h[a].items, NEW k \in Args(a, i), p = <<a, i, k>>
      PROVE  FALSE
  <2>1. w.h[a].kind \in {"OBJECT", "INTERFACE"} /\ a \in DOMAIN w.h
    BY WorldFacts DEF OfKind
  <2>2. FieldIn(w.h[a].items[i], 0 .. Len(w.h))
    BY <2>1, WorldFacts DEF TypeOn, ItemsIn, ItemIn
  <2>3. k # 0
    BY <2>2, ListFacts DEF FieldIn, InputsIn
  <2>. QED BY <1>2, <2>3
<1>. HIDE DEF Args
<1>3. PICK a, i : p = <<a, i, 0>> /\ Good(a, i)
  BY <1>1, <1>2
<1>. QED BY <1>3 DEF OfKind

LEMMA GetFacts ==
  ASSUME NEW s, IsList(s), NEW n, Has(s, n)
  PROVE  \E i \in DOMAIN s : Get(s, n) = s[i] /\ s[i].name = n
<1>. DEFINE S == {i \in DOMAIN s : s[i].name = n}
<1>1. DOMAIN s = 1 .. Len(s) /\ Len(s) \in Nat
  BY ListFacts
<1>2. S \subseteq Nat /\ S # {}
  BY <1>1 DEF Has
<1>3. PICK i \in S : \A j \in S : i <= j
  <2>. HIDE DEF S
  <2>. QED BY <1>2, LeastNumber
<1>4. \A j \in 1 .. i - 1 : s[j].name # n
  BY <1>1, <1>3
<1>5. i \in DOMAIN s /\ s[i].name = n
  BY <1>3
<1>. DEFINE c == CHOOSE k \in DOMAIN s : s[k].name = n /\ \A j \in 1 .. k - 1 : s[j].name # n
<1>6. c \in DOMAIN s /\ s[c].name = n
  BY <1>4, <1>5
<1>7. Get(s, n) = s[c]
  BY DEF Get
<1>. HIDE DEF c
<1>. QED BY <1>6, <1>7

LEMMA InvImpliesVisitor == IInv => VisitorSeesDefaults
<1>. SUFFICES ASSUME IInv, Resolved, NEW n \in DOMAIN schema.decls,
                     NEW p \in VisitDirective(Now, schema.decls[n]),
                     p[2] # 0, p[3] = 0, heap[p[1]].kind # "INPUT_OBJECT"
              PROVE  Names(schema.decls[n].args) \subseteq Names(Get(DirectivesAt(Now, p), n).args)
  BY DEF VisitorSeesDefaults, Resolved
<1>1. Now.h = heap /\ Now.s = schema
  BY DEF Now, World
<1>2. Complete(Now) /\ WorldInv(Now)
  BY WorldOn DEF IInv, Now
<1>3. schema.decls[n].name = n
  BY <1>1, <1>2 DEF WorldInv
<1>4. PICK a \in Addresses(schema) : \E i \in DOMAIN heap[a].items :
        /\ p = <<a, i, 0>>
        /\ heap[a].kind \in {"OBJECT", "INTERFACE", "ENUM", "INPUT_OBJECT"}
        /\ Has(heap[a].items[i].dirs, n)
  BY <1>1, <1>2, <1>3, VisitedItem
<1>5. PICK i \in DOMAIN heap[a].items :
        /\ p = <<a, i, 0>>
        /\ heap[a].kind \in {"OBJECT", "INTERFACE", "ENUM", "INPUT_OBJECT"}
        /\ Has(heap[a].items[i].dirs, n)
  BY <1>4
<1>. DEFINE ds == heap[a].items[i].dirs
<1>6. a # 0 /\ heap[a].kind \in {"OBJECT", "INTERFACE", "ENUM"} /\ p[1] = a /\ p[2] = i
  BY <1>1, <1>2, <1>5, WorldFacts
<1>7. DirectivesAt(Now, p) = ds
  <2>1. p[1] # 0 /\ p[2] # 0 /\ p[3] = 0
    BY <1>6
  <2>2. DirectivesAt(Now, p) = Now.h[p[1]].items[p[2]].dirs
    BY <2>1, Zenon DEF DirectivesAt
  <2>. QED BY <1>1, <1>6, <2>2
<1>8. IsList(ds)
  <2>1. TypeOn(heap, heap[a])
    BY <1>1, <1>2, WorldFacts
  <2>. QED BY <1>6, <2>1 DEF TypeOn, ItemsIn, ItemIn, FieldIn, ValueIn, DirsIn
<1>9. AllFilled(schema, ds)
  BY <1>1, <1>2, <1>6 DEF Complete, LinkedUp, TypesResolved, FieldsFilled, ValuesFilled
<1>. HIDE DEF ds
<1>10. PICK k \in DOMAIN ds : Get(ds, n) = ds[k] /\ ds[k].name = n
  BY <1>5, <1>8, GetFacts DEF ds
<1>. QED BY <1>7, <1>9, <1>10 DEF AllFilled, Filled

-----------------------------------------------------------------------------
(* The theorems. *)

(* Every type is found under its own name, every reference leads into the   *)
(* heap, and the lists of interfaces and of possible types hold types of    *)
(* their kind, whatever texts were parsed, failed half way or dropped from. *)
THEOREM SchemaHolds == Spec => []SchemaInv
<1>1. Spec => []IInv
  BY InitInv, NextInv, PTL DEF Spec
<1>. QED BY <1>1, InvImpliesSchemaInv, PTL

(* When Parse succeeds nothing is left to resolve (ResolveTypes), whichever *)
(* Parse before it had failed half way and left types resolved in part.     *)
THEOREM ResolvedHolds == Spec => []ResolvedIsComplete
<1>1. Spec => []IInv
  BY InitInv, NextInv, PTL DEF Spec
<1>. QED BY <1>1, InvImpliesComplete, PTL

(* After a Parse that succeeds a visitor of a directive on fields or enum   *)
(* values finds every argument the directive declares: resolveDirectives    *)
(* has put in the defaults, and neither sorting nor a stage after it takes  *)
(* them away, however often the type was altered before.                    *)
THEOREM DefaultsSeen == Spec => []VisitorSeesDefaults
<1>1. Spec => []IInv
  BY InitInv, NextInv, PTL DEF Spec
<1>. QED BY <1>1, InvImpliesVisitor, PTL

(* A type stays where it was allocated and keeps its kind, and only         *)
(* RenameTypes gives it another name: what still refers to a type that was  *)
(* redeclared or altered goes on meaning a type of that kind.               *)
THEOREM TypesAreKept == Spec => [][TypesStay]_vars
<1>1. Spec => []IInv
  BY InitInv, NextInv, PTL DEF Spec
<1>. QED BY <1>1, NextStays, PTL DEF Spec
=============================================================================
