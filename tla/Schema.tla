------------------------------- MODULE Schema -------------------------------
(* What the schemas of module SchemaEvolution mean, and what their texts    *)
(* say of them.                                                             *)
EXTENDS SchemaEvolution, SchemaLoad

-----------------------------------------------------------------------------
(* What a schema means, without addresses or order.  keep says which of the *)
(* details count that some ways of writing a schema leave out: "type dirs"  *)
(* (directives of types other than objects), "input dirs" (directives of    *)
(* arguments and input fields), "dirs" (those of objects, fields and enum   *)
(* values), "input defaults" (of input fields), "locs", and "possible" (the *)
(* possible types of interfaces, to which nothing that is replaced or       *)
(* dropped is lost).                                                        *)

DirectiveMeaning(ds) ==
  {[name |-> d.name, args |-> {<<a.name, WriteLiteral(a.value)>> : a \in ToSet(d.args)}] :
     d \in ToSet(ds)}

KeptDirectives(keep, what, ds) == IF what \in keep THEN DirectiveMeaning(ds) ELSE {}

InputMeaning(keep, v) ==
  [name |-> v.name, desc |-> v.desc.text, type |-> TypeString(v.type),
   default |-> WriteLiteral(v.default), dirs |-> KeptDirectives(keep, "input dirs", v.dirs)]

InputsMeaning(keep, vs) == {InputMeaning(keep, v) : v \in ToSet(vs)}

ItemMeaning(keep, kind, x) ==
  CASE kind = "INPUT_OBJECT" ->
         InputMeaning(keep, IF "input defaults" \in keep THEN x ELSE [x EXCEPT !.default = NoLit])
    [] kind = "ENUM" ->
         [name |-> x.name, desc |-> x.desc.text, dirs |-> KeptDirectives(keep, "dirs", x.dirs)]
    [] OTHER ->
         [name |-> x.name, desc |-> x.desc.text, type |-> TypeString(x.type),
          args |-> InputsMeaning(keep, x.args), dirs |-> KeptDirectives(keep, "dirs", x.dirs)]

NamesAt(h, as) == {h[a].name : a \in ToSet(as)}

TypeMeaning(keep, h, t) ==
  [kind |-> t.kind, name |-> t.name, desc |-> t.desc.text,
   items |-> {ItemMeaning(keep, t.kind, x) : x \in ToSet(t.items)},
   interfaces |-> NamesAt(h, t.interfaces),
   possible |-> IF t.kind = "UNION" \/ "possible" \in keep THEN NamesAt(h, t.possible) ELSE {},
   dirs |-> KeptDirectives(keep, IF t.kind = "OBJECT" THEN "dirs" ELSE "type dirs", t.dirs)]

DeclMeaning(keep, d) ==
  [desc |-> d.desc.text, args |-> InputsMeaning(keep, d.args),
   locs |-> IF "locs" \in keep THEN ToSet(d.locs) ELSE {}]

Meaning(keep, w) ==
  [types   |-> [n \in DOMAIN w.s.types |-> TypeMeaning(keep, w.h, w.h[w.s.types[n]])],
   decls   |-> [n \in DOMAIN w.s.decls |-> DeclMeaning(keep, w.s.decls[n])],
   entries |-> [op \in DOMAIN w.s.entries |-> w.h[w.s.entries[op]].name]]

-----------------------------------------------------------------------------
(* Properties. *)

Everything == {"type dirs", "input dirs", "dirs", "input defaults", "locs", "possible"}

(* A schema that is parsed in parts, some of which may have failed for a    *)
(* type that came later, is the schema of the parts parsed as one text.     *)
PartsAndWhole ==
  (plain /\ ended = "ok") =>
    \A v \in Load(World(Meta.h, NewSchema), FlattenSeq(texts)) :
      v.end = "ok" /\ Meaning(Everything, v) = Meaning(Everything, Now)

InText == {"dirs", "input defaults", "locs"} \union (IF plain THEN {"possible"} ELSE {})

Dangling == \E r \in AllRefs : r.name \notin DOMAIN schema.types

HasNilArgument(ds) == \E d \in ToSet(ds) : \E a \in ToSet(d.args) : a.value = NoLit

(* The text of a schema reads back as the schema, also after it was altered,*)
(* renamed or parsed in parts; what the text leaves out are the directives  *)
(* of types other than objects, of arguments and of input fields.  Writing  *)
(* panics only for the argument of a directive that was left out and has no *)
(* default, whose value is nil; and the text does not parse when a renaming *)
(* took the name from which fields still refer to a replaced type.          *)
TextRoundTrip ==
  ended = "ok" =>
    LET text == WriteSchema(Now)
    IN IF ToSet(Bad) \intersect ToSet(text) # {}
       THEN \E t \in CurrentTypes : \E x \in ToSet(t.items) : HasNilArgument(x.dirs)
       ELSE \A v \in Load(World(heap, NewSchema), text) :
              \/ v.end = "ok" /\ Meaning(InText, v) = Meaning(InText, Now)
              \/ Dangling /\ ~plain
=============================================================================
