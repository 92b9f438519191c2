----------------------------- MODULE Selections -----------------------------
(* Which fields a validated document selects: how Execution collects and    *)
(* merges them (internal/exec), and the same for programs that look ahead   *)
(* (exec.FieldSelectionContext).                                            *)
(*                                                                          *)
(* The lists of selections are Go slices: a slice is an array and a length, *)
(* and append writes to the array in place while it has room.  mem gives    *)
(* the arrays; the list that the parser read for a field is in the array    *)
(* named by the field's id, with the room that the parser's appends left.   *)
EXTENDS Validation

CONSTANT RequestVars   \* the variables of the request: a name -> its value

-----------------------------------------------------------------------------
(* @skip and @include: skip hides include. *)

True == BasicLit("Ident", <<"true">>)
False == BasicLit("Ident", <<"false">>)

\* The directive that decides, and its argument.
Conditional(ds) == Has(ds, "skip") \/ Has(ds, "include")

IfOf(d) == Evaluate(Get(d.args, "if").value, RequestVars)

Deciding(ds) == IF Has(ds, "skip") THEN Get(ds, "skip") ELSE Get(ds, "include")

SkipByDirective(ds) ==
  Conditional(ds) /\ IfOf(Deciding(ds)) = (IF Has(ds, "skip") THEN True ELSE False)

\* The argument is null or no Boolean: that is an error, and nothing is skipped.
DirectiveFails(ds) == Conditional(ds) /\ IfOf(Deciding(ds)) \notin {True, False}

\* It is missing, or an integer too wide.
DirectivePanics(ds) ==
  Conditional(ds) /\ (~Has(Deciding(ds).args, "if") \/ Panics(Get(Deciding(ds).args, "if").value))

-----------------------------------------------------------------------------
(* Slices. *)

Free == Selection("free", 0, "", "", <<>>, "", <<>>, <<>>)

\* Appending one by one doubles the room.
Capacity(n) == IF n = 0 THEN 0 ELSE CHOOSE c \in {2 ^ k : k \in 0 .. n} : n <= c /\ c < 2 * n

RECURSIVE FieldsWithin(_)
FieldsWithin(ss) ==
  UNION {(IF s.sel = "field" THEN {s} ELSE {}) \union FieldsWithin(s.sels) : s \in ToSet(ss)}

FieldsOf(doc) == UNION {FieldsWithin(x.sels) : x \in ToSet(doc.ops) \union ToSet(doc.frags)}

Filled(ss, n) == [i \in 1 .. n |-> IF i <= Len(ss) THEN ss[i] ELSE Free]

Parsed(doc) ==
  LET fs == FieldsOf(doc)
      field(id) == CHOOSE f \in fs : f.id = id
  IN [id \in {f.id : f \in fs} |-> Filled(field(id).sels, Capacity(Len(field(id).sels)))]

ReadSlice(mem, slice) == SubSeq(mem[slice.array], 1, slice.len)

(* m is [mem, clobbered, errs]: clobbered when a slot that another slice may*)
(* show was written again with something else; errs, the kinds of errors    *)
(* that were added to the list of the execution.                            *)
AddError(m, kind) == [m EXCEPT !.errs = @ \union {kind}]

AppendTo(m, slice, xs) ==
  LET n     == slice.len + Len(xs)
      array == m.mem[slice.array]
      slots == slice.len + 1 .. n
      new   == 1 + CHOOSE k \in DOMAIN m.mem : \A j \in DOMAIN m.mem : j <= k
  IN CASE xs = <<>> -> [m |-> m, slice |-> slice]
       [] xs # <<>> /\ n <= Len(array) ->
            [slice |-> [slice EXCEPT !.len = n],
             m |-> [m EXCEPT !.mem[slice.array] =
                               [i \in DOMAIN @ |-> IF i \in slots THEN xs[i - slice.len] ELSE @[i]],
                             !.clobbered = @ \/ \E i \in slots : array[i] \notin {Free, xs[i - slice.len]}]]
       [] OTHER ->
            [slice |-> [array |-> new, len |-> n],
             m |-> [m EXCEPT !.mem = (new :> Filled(SubSeq(array, 1, slice.len) \o xs,
                                                    IF n > 2 * Len(array) THEN n ELSE 2 * Len(array))) @@ @]]

-----------------------------------------------------------------------------
(* Execution.  A value is known by its object type, to which it casts, as it*)
(* does to the interfaces and unions of that type (TryCast is the program's).*)

TryCast(obj, n) == obj \in possibleTypes(Lookup(n))

IsOn(frag, a) == frag.on = "" \/ (a # 0 /\ frag.on = W.h[a].name)

Frag(doc, s) == IF s.sel = "inline" THEN [on |-> s.on, sels |-> s.sels] ELSE Get(doc.frags, s.name)

ArgumentsPanic(s) == \E x \in ToSet(s.args) : Panics(x.value)

Entry(a, s) == [alias |-> s.alias, field |-> s, on |-> a, all |-> <<s>>,
                slice |-> [array |-> s.id, len |-> Len(s.sels)]]

(* resolveFields: x is [m, entries, end]; a is the type the selections are  *)
(* on.  A field of another type than the value's finds no resolver.         *)
RECURSIVE resolveFields(_, _, _, _, _, _)

\* Mutated form: a field that was selected before keeps its selections.
selectFieldOnce(info, x, a, s) ==
  LET f == info[s.id].field
      i == CHOOSE j \in DOMAIN x.entries : x.entries[j].alias = s.alias
  IN CASE s.id \notin DOMAIN info -> x
       [] s.id \in DOMAIN info /\ \E e \in ToSet(x.entries) : e.alias = s.alias ->
            [x EXCEPT !.entries[i].all = Append(@, s)]
       [] s.id \in DOMAIN info /\ (ArgumentsPanic(s) \/ f = NoField) -> [x EXCEPT !.end = "panic"]
       [] OTHER -> [x EXCEPT !.entries = Append(@, Entry(a, s))]

selectField(info, x, a, s) ==
  LET f == info[s.id].field
      i == CHOOSE j \in DOMAIN x.entries : x.entries[j].alias = s.alias
      grown == AppendTo(x.m, x.entries[i].slice, s.sels)
  IN CASE s.id \notin DOMAIN info -> x
       [] s.id \in DOMAIN info /\ \E e \in ToSet(x.entries) : e.alias = s.alias ->
            [x EXCEPT !.m = grown.m,
                      !.entries[i] = [@ EXCEPT !.slice = grown.slice, !.all = Append(@, s)]]
       [] s.id \in DOMAIN info /\ (ArgumentsPanic(s) \/ f = NoField) -> [x EXCEPT !.end = "panic"]
       [] OTHER -> IF Has(fields(a), s.name) \/ f.name \in MetaFields
                   THEN [x EXCEPT !.entries = Append(@, Entry(a, s))]
                   ELSE [x EXCEPT !.m = AddError(@, "resolver")]

selectFragment(doc, info, x, a, obj, frag) ==
  CASE IsOn(frag, a) -> resolveFields(doc, info, x, a, obj, frag.sels)
    [] ~IsOn(frag, a) /\ TryCast(obj, frag.on) -> resolveFields(doc, info, x, Lookup(frag.on), obj, frag.sels)
    [] OTHER -> x

resolveFields(doc, info, x0, a, obj, ss) ==
  LET Select(x, s) == IF s.sel = "field" THEN selectField(info, x, a, s)
                      ELSE selectFragment(doc, info, x, a, obj, Frag(doc, s))
      Step(x, s) ==
        CASE x.end # "" -> x
          [] x.end = "" /\ DirectivePanics(s.dirs) -> [x EXCEPT !.end = "panic"]
          [] x.end = "" /\ SkipByDirective(s.dirs) -> x
          [] x.end = "" /\ s.sel = "spread" /\ ~Has(doc.frags, s.name) -> [x EXCEPT !.end = "panic"]
          [] OTHER -> IF DirectiveFails(s.dirs) THEN Select([x EXCEPT !.m = AddError(@, "directive")], s)
                      ELSE Select(x, s)
  IN FoldLeft(Step, x0, ss)

(* The answer to a selection set on a value: the entries that were selected,*)
(* each with the answer to its own selections.  A panic among these leaves  *)
(* the entry out (executeSelected); nothing above the first entries does so.*)
(* pick tells which object the value of an interface or a union is.         *)
ObjectOf(pick, a) == IF Kind(a) = "OBJECT" THEN a ELSE pick[a]

RECURSIVE Execute(_, _, _, _, _, _, _)
Execute(doc, info, pick, m, a, obj, ss) ==
  LET x == resolveFields(doc, info, [m |-> m, entries |-> <<>>, end |-> ""], a, obj, ss)
      Answer(e, sub) == [alias |-> e.alias, name |-> e.field.name, all |-> e.all, sub |-> sub]
      Step(y, e) ==
        LET b   == info[e.field.id].field.type.to
            sub == Execute(doc, info, pick, y.m, b, ObjectOf(pick, b), ReadSlice(y.m.mem, e.slice))
        IN CASE Kind(b) \notin {"OBJECT", "INTERFACE", "UNION"} ->
                  [y EXCEPT !.data = Append(@, Answer(e, <<>>))]
             [] OTHER -> IF sub.end = "panic" THEN [y EXCEPT !.m = AddError(sub.m, "panic")]
                         ELSE [y EXCEPT !.m = sub.m, !.data = Append(@, Answer(e, sub.data))]
  IN FoldLeft(Step, [m |-> x.m, end |-> x.end, data |-> <<>>], IF x.end = "" THEN x.entries ELSE <<>>)

-----------------------------------------------------------------------------
(* FieldSelectionContext.Apply, when every cast it asks for is answered as  *)
(* the execution does.  [fields, errs, end].                                *)

RECURSIVE Apply(_, _, _, _)

\* Mutated form: a fragment on another type than the one at hand is left out.
applyOwnFragment(doc, a, obj, frag) ==
  IF IsOn(frag, a) THEN Apply(doc, a, obj, frag.sels)
  ELSE [fields |-> <<>>, errs |-> {}, end |-> ""]

applyFragment(doc, a, obj, frag) ==
  CASE IsOn(frag, a) -> Apply(doc, a, obj, frag.sels)
    [] ~IsOn(frag, a) /\ TryCast(obj, frag.on) -> Apply(doc, Lookup(frag.on), obj, frag.sels)
    [] OTHER -> [fields |-> <<>>, errs |-> {}, end |-> ""]

Apply(doc, a, obj, ss) ==
  LET failed(s) == IF DirectiveFails(s.dirs) THEN {"@if"} ELSE {}
      Select(x, s) ==
        LET rs == applyFragment(doc, a, obj, Frag(doc, s))
        IN CASE s.sel # "field" ->
                  [fields |-> x.fields \o rs.fields, errs |-> x.errs \union rs.errs, end |-> rs.end]
             [] s.sel = "field" /\ Kind(a) \notin {"OBJECT", "INTERFACE"} -> [x EXCEPT !.end = "panic"]
             [] OTHER -> IF Has(fields(a), s.name) THEN [x EXCEPT !.fields = Append(@, s)]
                         ELSE [x EXCEPT !.errs = @ \union {s.name}]
      Step(x, s) ==
        CASE x.end # "" -> x
          [] x.end = "" /\ DirectivePanics(s.dirs) -> [x EXCEPT !.end = "panic"]
          [] x.end = "" /\ SkipByDirective(s.dirs) -> x
          [] OTHER -> Select([x EXCEPT !.errs = @ \union failed(s)], s)
  IN FoldLeft(Step, [fields |-> <<>>, errs |-> {}, end |-> ""], ss)
=============================================================================
