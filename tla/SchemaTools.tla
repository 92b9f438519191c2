----------------------------- MODULE SchemaTools -----------------------------
(* What programs do with a schema: copy a type with all it needs to another *)
(* one (AddIfMissing).                                                      *)
EXTENDS Schema

-----------------------------------------------------------------------------
(* AddIfMissing: to is the schema record types are added to, from the one   *)
(* they come from; a directive that from does not declare becomes a nil     *)
(* entry of to.                                                             *)

NilDecl == DirectiveDecl("<nil>", <<>>, <<>>)

addDirectives(to, from, ds) ==
  FoldLeft(LAMBDA s, d :
             IF d.name \in DOMAIN s.decls THEN s
             ELSE [s EXCEPT !.decls = (d.name :> IF d.name \in DOMAIN from.decls
                                                 THEN from.decls[d.name] ELSE NilDecl) @@ @],
           to, ds)

RECURSIVE addType(_, _, _, _)

addRef(h, to, from, r) == IF r.to = 0 THEN to ELSE addType(h, to, from, r.to)

addInput(h, to, from, v) == addDirectives(addRef(h, to, from, v.type), from, v.dirs)

\* Mutated form: the arguments of a field are forgotten.
addFieldOnly(h, to, from, f) == addRef(h, addDirectives(to, from, f.dirs), from, f.type)

addField(h, to, from, f) ==
  FoldLeft(LAMBDA s, v : addInput(h, s, from, v),
           addRef(h, addDirectives(to, from, f.dirs), from, f.type), f.args)

addType(h, to, from, a) ==
  LET t     == h[a]
      added == [to EXCEPT !.types = (t.name :> a) @@ @]
      noted == addDirectives(added, from, t.dirs)
  IN CASE t.name \in DOMAIN to.types -> to
       [] t.kind = "SCALAR"       -> added
       [] t.kind = "INPUT_OBJECT" -> FoldLeft(LAMBDA s, v : addInput(h, s, from, v), noted, t.items)
       [] t.kind = "ENUM"         -> FoldLeft(LAMBDA s, v : addDirectives(s, from, v.dirs), noted, t.items)
       [] t.kind = "UNION"        -> FoldLeft(LAMBDA s, b : addType(h, s, from, b), noted, t.possible)
       [] OTHER                   -> FoldLeft(LAMBDA s, f : addField(h, s, from, f), noted, t.items)

-----------------------------------------------------------------------------
(* Properties. *)

(* A type that is added to another schema brings along every type its fields*)
(* and arguments refer to and every member of a union, so that the other    *)
(* schema resolves.  It does not bring the interfaces it implements; and    *)
(* the nil entry of a directive that was never declared makes ResolveTypes  *)
(* panic.                                                                   *)
AddedTypeIsComplete ==
  ended = "ok" =>
    \A a \in Addresses(schema) :
      LET to    == addType(heap, NewSchema, schema, a)
          lacks == \E b \in Addresses(to) : ~(ToSet(heap[b].names) \subseteq DOMAIN to.types)
          nil   == \E n \in DOMAIN to.decls : to.decls[n] = NilDecl
      IN /\ \A b \in Addresses(to) : \A r \in Refs(heap[b]) : r.name \in DOMAIN to.types
         /\ \/ lacks \/ nil \/ ~plain
            \/ \A v \in ResolveTypes(World(heap, to)) : v.end = "ok"
=============================================================================
