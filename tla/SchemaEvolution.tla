--------------------------- MODULE SchemaEvolution ---------------------------
(* A schema and its evolution: a program parses one text after the other    *)
(* into it, renames its types, and goes on after a Parse that failed.       *)
EXTENDS SchemaTypes

CONSTANTS
  Reading,      \* each text that a program parses -> its declarations
  MetaReading,  \* the declarations of the text of the built-in schema
  Renamings,    \* the functions from old to new names for RenameTypes
  MaxTexts      \* how many operations a run performs

Texts == DOMAIN Reading

VARIABLES
  heap,      \* the types ever allocated, by address
  schema,    \* the schema
  ended,     \* how the last operation ended
  texts,     \* history: the texts parsed, in order
  plain      \* history: every text was read to its end, and none of them
             \* replaced a type or a directive, dropped anything or was followed by a renaming

vars == <<heap, schema, ended, texts, plain>>

-----------------------------------------------------------------------------
(* The constants. *)

(* What the parser makes of the parts of a declaration: nothing is resolved *)
(* yet.                                                                     *)
IsTypeRead(t) == t = [wrap |-> t.wrap, name |-> t.name, to |-> 0]

IsInputRead(v) ==
  /\ v = [name |-> v.name, type |-> v.type, default |-> v.default, desc |-> v.desc, dirs |-> v.dirs]
  /\ IsTypeRead(v.type)

AreInputsRead(vs) == IsList(vs) /\ \A i \in DOMAIN vs : IsInputRead(vs[i])

AreDirectivesRead(ds) ==
  IsList(ds) /\ \A i \in DOMAIN ds : /\ ds[i] = [name |-> ds[i].name, args |-> ds[i].args]
                                   /\ IsList(ds[i].args)

IsFieldRead(f) ==
  /\ f = [name |-> f.name, args |-> f.args, type |-> f.type, dirs |-> f.dirs, desc |-> f.desc]
  /\ IsTypeRead(f.type)
  /\ AreInputsRead(f.args)
  /\ AreDirectivesRead(f.dirs)

IsValueRead(v) ==
  /\ v = [name |-> v.name, dirs |-> v.dirs, desc |-> v.desc]
  /\ AreDirectivesRead(v.dirs)

IsItemRead(kind, x) ==
  \/ kind \in {"OBJECT", "INTERFACE"} /\ IsFieldRead(x)
  \/ kind = "INPUT_OBJECT" /\ IsInputRead(x)
  \/ kind = "ENUM" /\ IsValueRead(x)

IsNamedTypeRead(t) ==
  /\ t = [kind |-> t.kind, name |-> t.name, desc |-> t.desc, dirs |-> t.dirs, items |-> t.items,
          names |-> t.names, interfaces |-> <<>>, possible |-> <<>>]
  /\ t.kind \in Kinds
  /\ t.name \in ToSet(Alphabet)
  /\ IsList(t.items) /\ \A i \in DOMAIN t.items : IsItemRead(t.kind, t.items[i])
  /\ IsList(t.names)

IsDirectiveDeclRead(d) ==
  /\ d = [name |-> d.name, desc |-> d.desc, locs |-> d.locs, args |-> d.args]
  /\ AreInputsRead(d.args)

IsDeclarationRead(d) ==
  d.whole =>
    \/ d.word = "schema"
    \/ d.word = "directive" /\ IsDirectiveDeclRead(d.v)
    \/ d.word = "type" /\ IsNamedTypeRead(d.v) /\ d.v.kind = "OBJECT"
    \/ d.word \notin {"schema", "directive", "type"} /\ IsNamedTypeRead(d.v)

AreDeclarationsRead(ds) == IsList(ds) /\ \A i \in DOMAIN ds : IsDeclarationRead(ds[i])

ASSUME ReadingAssumption == \A text \in Texts : AreDeclarationsRead(Reading[text])

(* The built-in schema is made like any other, of its own text.             *)
ASSUME MetaAssumption ==
  /\ AreDeclarationsRead(MetaReading)
  /\ Meta \in ResolveTypes(parseSchema(World(<<>>, NoTypes), MetaReading))

ASSUME RenamingsAssumption ==
  \A to \in Renamings : \A n \in DOMAIN to : to[n] \in ToSet(Alphabet)

-----------------------------------------------------------------------------
(* The state machine. *)

Init ==
  /\ heap = Meta.h
  /\ schema = NewSchema
  /\ ended = "ok"
  /\ texts = <<>>
  /\ plain = TRUE

(* What a text removes: a field, directive or interface name of a type that *)
(* it alters.                                                               *)
Drops(w, v) ==
  \E a \in DOMAIN w.h :
    \/ ~(Names(w.h[a].items) \subseteq Names(v.h[a].items))
    \/ ~(ToSet(w.h[a].names) \subseteq ToSet(v.h[a].names))
    \/ ~(Names(w.h[a].dirs) \subseteq Names(v.h[a].dirs))

\* What was read replaces a type or directive.
Replaces(read) ==
  \/ \E n \in DOMAIN schema.types : read.s.types[n] # schema.types[n]
  \/ \E n \in DOMAIN schema.decls : read.s.decls[n] # schema.decls[n]

Parse(text) ==
  /\ Len(texts) < MaxTexts
  /\ ended # "panic"
  /\ \E read \in {parseSchema(World(heap, schema), Reading[text])} :
       /\ \E v \in Unended({read}, ResolveTypes) :
            /\ heap' = v.h
            /\ schema' = v.s
            /\ ended' = v.end
       /\ plain' = (plain /\ read.end = "" /\ ~Replaces(read) /\ ~Drops(World(heap, schema), read))
  /\ texts' = Append(texts, text)

Rename(to) ==
  /\ Len(texts) < MaxTexts
  /\ ended = "ok"
  /\ \E v \in Renamed(World(heap, schema), to) :
       /\ heap' = v.h
       /\ schema' = v.s
  /\ texts' = Append(texts, <<>>)
  /\ plain' = FALSE
  /\ UNCHANGED ended

Next ==
  \/ \E text \in Texts : Parse(text)
  \/ \E to \in Renamings : Rename(to)

Spec == Init /\ [][Next]_vars

-----------------------------------------------------------------------------
(* Properties. *)

Now == World(heap, schema)

InputRefs(vs) == {v.type : v \in ToSet(vs)}

ItemRefs(kind, x) ==
  CASE kind = "INPUT_OBJECT"            -> {x.type}
    [] kind \in {"OBJECT", "INTERFACE"} -> {x.type} \union InputRefs(x.args)
    [] OTHER                            -> {}

Refs(t) == UNION {ItemRefs(t.kind, x) : x \in ToSet(t.items)}

CurrentTypes == {heap[a] : a \in Addresses(schema)}

TypeRefs == UNION {Refs(t) : t \in CurrentTypes}

DeclRefs == UNION {InputRefs(schema.decls[n].args) : n \in DOMAIN schema.decls}

AllRefs == TypeRefs \union DeclRefs

(* Every type is found under its own name, every address is one of the heap,*)
(* and the lists of addresses hold types of the right kind.                 *)
SchemaInv ==
  /\ \A n \in DOMAIN schema.types : heap[schema.types[n]].name = n
  /\ \A r \in AllRefs : r.to \in 0 .. Len(heap)
  /\ \A t \in CurrentTypes :
       /\ t.kind \in Kinds
       /\ \A a \in ToSet(t.interfaces) \ {0} : heap[a].kind = "INTERFACE"
       /\ \A a \in ToSet(t.possible) \ {0} : heap[a].kind = "OBJECT"

(* When Parse succeeds nothing is left to resolve: whatever order the maps  *)
(* were ranged over and whichever Parse before had failed half way, every   *)
(* reference leads somewhere, the lists of interfaces, members and entry    *)
(* points are those of the names, and an object is among the possible types *)
(* of each interface it implements (ResolveTypes).                          *)
ResolvedIsComplete ==
  (ended = "ok" /\ texts # <<>> /\ texts[Len(texts)] # <<>>) =>
    /\ \A r \in AllRefs : r.to # 0
    /\ \A op \in DOMAIN schema.entryNames : schema.entries[op] = schema.types[schema.entryNames[op]]
    /\ \A t \in CurrentTypes :
         /\ t.kind = "OBJECT" =>
              t.interfaces = [i \in DOMAIN t.names |-> schema.types[t.names[i]]]
         /\ t.kind = "UNION" => ToSet(t.possible) = {schema.types[n] : n \in ToSet(t.names)}
    /\ \A a \in Addresses(schema) : \A b \in ToSet(heap[a].interfaces) : a \in ToSet(heap[b].possible)

(* A visitor of a directive on fields or enum values finds every argument   *)
(* the directive declares, those the text left out with their defaults:     *)
(* ResolveTypes put them there, however often the type was altered or the   *)
(* directive declared anew.  It does not for the other locations.           *)
VisitorSeesDefaults ==
  (ended = "ok" /\ texts # <<>> /\ texts[Len(texts)] # <<>>) =>
    \A n \in DOMAIN schema.decls :
      \A p \in VisitDirective(Now, schema.decls[n]) :
        (p[2] # 0 /\ p[3] = 0 /\ heap[p[1]].kind # "INPUT_OBJECT") =>
          Names(schema.decls[n].args) \subseteq Names(Get(DirectivesAt(Now, p), n).args)
=============================================================================
