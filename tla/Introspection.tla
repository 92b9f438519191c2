---------------------------- MODULE Introspection ----------------------------
(* The introspection of a schema, as the introspection query reads it, and  *)
(* the schema that NewSchema builds from the answer.  Nothing stands for a  *)
(* null of the answer.                                                      *)
EXTENDS SchemaTools

Nothing == <<>>
Just(x) == <<x>>

(* The TypeRef fragment of the query asks for this many levels of ofType.   *)
TypeRefDepth == 7

-----------------------------------------------------------------------------
(* The resolvers: introspection/resolvers.go. *)

Description(d) == IF d.show = "No" THEN Nothing ELSE Just(d.text)

TypeDescription(d) == IF d.text = "" THEN Nothing ELSE Just(d.text)

typeRef(t) == [ofKinds |-> SubSeq(t.wrap, 1, IF Len(t.wrap) < TypeRefDepth THEN Len(t.wrap)
                                              ELSE TypeRefDepth),
               cut |-> Len(t.wrap) > TypeRefDepth, name |-> t.name]

InputValues(vs) ==
  [i \in DOMAIN vs |-> [name |-> vs[i].name, desc |-> Description(vs[i].desc),
                        type |-> typeRef(vs[i].type),
                        default |-> IF vs[i].default = NoLit THEN Nothing
                                    ELSE Just(WriteLiteral(vs[i].default))]]

DeprecationReason(ds) ==
  IF Has(ds, "deprecated")
  THEN Just(Evaluate(Get(Get(ds, "deprecated").args, "reason").value, <<>>))
  ELSE Nothing

Fields(t) ==
  IF t.kind \notin {"OBJECT", "INTERFACE"} THEN <<>>
  ELSE [i \in DOMAIN t.items |->
          [name |-> t.items[i].name, desc |-> Description(t.items[i].desc),
           args |-> InputValues(t.items[i].args), type |-> typeRef(t.items[i].type),
           reason |-> DeprecationReason(t.items[i].dirs)]]

EnumValues(t) ==
  IF t.kind # "ENUM" THEN <<>>
  ELSE [i \in DOMAIN t.items |->
          [name |-> t.items[i].name, desc |-> Description(t.items[i].desc),
           reason |-> DeprecationReason(t.items[i].dirs)]]

NamesOf(h, as) == SortNames([i \in DOMAIN as |-> h[as[i]].name])

FullType(h, t) ==
  [kind |-> t.kind, name |-> t.name, desc |-> TypeDescription(t.desc),
   fields |-> Fields(t),
   inputFields |-> IF t.kind = "INPUT_OBJECT" THEN InputValues(t.items) ELSE <<>>,
   interfaces |-> NamesOf(h, t.interfaces),
   enumValues |-> EnumValues(t),
   possibleTypes |-> NamesOf(h, t.possible)]

EntryName(w, op) ==
  IF op \in DOMAIN w.s.entries THEN Just(w.h[w.s.entries[op]].name) ELSE Nothing

Introspect(w) ==
  LET ts == SortedDomain(w.s.types)
      ds == SortedDomain(w.s.decls)
  IN [types |-> [i \in DOMAIN ts |-> FullType(w.h, w.h[w.s.types[ts[i]]])],
      directives |-> [i \in DOMAIN ds |->
         [name |-> ds[i], desc |-> Description(w.s.decls[ds[i]].desc),
          locations |-> w.s.decls[ds[i]].locs, args |-> InputValues(w.s.decls[ds[i]].args)]],
      entries |-> [op \in OperationTypes |-> EntryName(w, op)]]

-----------------------------------------------------------------------------
(* NewSchema: introspection/new_schema.go. *)

desc(d) == IF d = Nothing THEN NoDescription ELSE [show |-> "String", text |-> d[1]]

toType(r) == [wrap |-> r.ofKinds, name |-> r.name, to |-> 0]

(* The default is one literal, whatever its text is. *)
toLiteral(d) == IF d = Nothing THEN NoLit ELSE BasicLit("rune", d[1])

\* Mutated form: the defaults of arguments are lost, as those of input fields are.
argsWithoutDefaults(vs) ==
  [i \in DOMAIN vs |-> [name |-> vs[i].name, desc |-> desc(vs[i].desc), type |-> toType(vs[i].type),
                        default |-> NoLit, dirs |-> <<>>]]

args(vs) ==
  [i \in DOMAIN vs |-> [name |-> vs[i].name, desc |-> desc(vs[i].desc), type |-> toType(vs[i].type),
                        default |-> toLiteral(vs[i].default), dirs |-> <<>>]]

toInputFields(vs) == [i \in DOMAIN vs |-> [args(vs)[i] EXCEPT !.default = NoLit]]

toFields(fs) ==
  [i \in DOMAIN fs |-> [name |-> fs[i].name, desc |-> desc(fs[i].desc), args |-> args(fs[i].args),
                        type |-> toType(fs[i].type), dirs |-> <<>>]]

toEnumValues(vs) ==
  [i \in DOMAIN vs |-> [name |-> vs[i].name, desc |-> desc(vs[i].desc), dirs |-> <<>>]]

toNamedType(t) ==
  LET items == CASE t.kind \in {"OBJECT", "INTERFACE"} -> toFields(t.fields)
                 [] t.kind = "ENUM"         -> toEnumValues(t.enumValues)
                 [] t.kind = "INPUT_OBJECT" -> toInputFields(t.inputFields)
                 [] OTHER                   -> <<>>
      names == CASE t.kind = "OBJECT" -> t.interfaces
                 [] t.kind = "UNION"  -> t.possibleTypes
                 [] OTHER             -> <<>>
  IN [NamedType(t.kind, t.name, <<>>, items, names) EXCEPT !.desc = desc(t.desc)]

HasCut(data) ==
  LET Cut(vs) == \E v \in ToSet(vs) : v.type.cut
  IN \E t \in ToSet(data.types) :
       \/ t.name \notin DOMAIN Meta.s.types /\ Cut(t.inputFields)
       \/ t.name \notin DOMAIN Meta.s.types
            /\ \E f \in ToSet(t.fields) : f.type.cut \/ Cut(f.args)

(* The worlds that NewSchema may end in: the answer of a schema without a   *)
(* query type names the type "", and a reference that the query cut short   *)
(* is a nil pointer.                                                        *)
FromIntrospection(h, data) ==
  LET types == SelectSeq(data.types, LAMBDA t : t.name \notin DOMAIN Meta.s.types)
      ds    == SelectSeq(data.directives, LAMBDA d : d.name \notin DOMAIN Meta.s.decls)
      empty == World(h, NewSchema)
      typed == FoldLeft(LAMBDA w, t : Declare(w, toNamedType(t)), empty, types)
      Decl(d) == [DirectiveDecl(d.name, args(d.args), <<>>) EXCEPT !.desc = desc(d.desc)]
      named == {op \in OperationTypes : op = "query" \/ data.entries[op] # Nothing}
      w == [typed EXCEPT
              !.s.decls = FoldLeft(LAMBDA s, d : (d.name :> Decl(d)) @@ s, @, ds),
              !.s.entryNames = [op \in named |-> IF data.entries[op] = Nothing THEN ""
                                                  ELSE data.entries[op][1]]]
  IN IF HasCut(data) THEN {[w EXCEPT !.end = "panic"]} ELSE ResolveTypes(w)

-----------------------------------------------------------------------------
(* A schema that is read over the network and built again has the types,    *)
(* fields, arguments, defaults of arguments, members and entry points of the*)
(* schema that was asked.  Lost are all directives, the defaults of input   *)
(* fields and the locations of directive declarations, without which such a *)
(* declaration does not read back; a schema without a query type, or with a *)
(* type of more than TypeRefDepth wrappers, is not built at all, and neither*)
(* is one that still refers to a replaced type by a name renamed away.      *)
IntrospectionRoundTrip ==
  ended = "ok" =>
    LET data == Introspect(Now)
        kept == IF plain THEN {"possible"} ELSE {}
        ours == \E n \in DOMAIN schema.decls : n \notin DOMAIN Meta.s.decls
    IN \A v \in FromIntrospection(heap, data) :
         CASE v.end = "panic" -> \E r \in AllRefs : Len(r.wrap) > TypeRefDepth
           [] v.end = "error" -> "query" \notin DOMAIN schema.entries \/ (Dangling /\ ~plain)
           [] OTHER ->
                /\ Meaning(kept, v) = Meaning(kept, Now)
                /\ \A u \in Load(World(heap, NewSchema), WriteSchema(v)) :
                     ours \/ (u.end = "ok" /\ Meaning({}, u) = Meaning({}, v))
=============================================================================
