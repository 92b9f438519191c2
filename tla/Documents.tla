------------------------------ MODULE Documents ------------------------------
(* A request on its way through Engine.ServeGraphQLStream: the document is  *)
(* parsed, the operation found, the document validated, the operation       *)
(* executed.  What the goroutines of the execution do is in module          *)
(* QueryExecution; here the fields are executed one after the other.        *)
EXTENDS Selections

CONSTANTS
  Requests,   \* the requests: [query, operation]
  MaxDepth    \* Engine.MaxDepth

VARIABLES
  request,  \* the request: its text and the name of the operation it asks for
  stage,    \* how far the request has come
  document,  \* the document
  operation, \* the operation
  verdict,  \* what Validate found
  answer    \* the error it ended with, or the data and the kinds of errors with it

vars == <<request, stage, document, operation, verdict, answer>>

-----------------------------------------------------------------------------
NoVerdict == [end |-> "", errs |-> {}, info |-> <<>>]

NoAnswer == [err |-> "", data |-> <<>>, errs |-> {}, clobbered |-> FALSE, pick |-> <<>>]

Init ==
  /\ request \in Requests
  /\ stage = "received"
  /\ document = NoDocument
  /\ operation = NoOperation
  /\ verdict = NoVerdict
  /\ answer = NoAnswer

Fail(err) == stage' = "answered" /\ answer' = [answer EXCEPT !.err = err]

ParseQuery ==
  /\ stage = "received"
  /\ LET parsed == parseDocument(NoDocument, request.query)
     IN /\ document' = parsed.doc
        /\ IF parsed.ok THEN stage' = "parsed" /\ UNCHANGED answer ELSE Fail("syntax error")
  /\ UNCHANGED <<request, operation, verdict>>

SelectOperation ==
  /\ stage = "parsed"
  /\ operation' = GetOperation(document, request.operation)
  /\ IF operation' # NoOperation THEN stage' = "selected" /\ UNCHANGED answer ELSE Fail("no operation")
  /\ UNCHANGED <<request, document, verdict>>

ValidateDocument ==
  /\ stage = "selected"
  /\ verdict' = Validate(document, MaxDepth)
  /\ CASE verdict'.end # "ended" -> Fail(verdict'.end)
       [] verdict'.end = "ended" /\ verdict'.errs # {} -> Fail("invalid")
       [] OTHER -> stage' = "valid" /\ UNCHANGED answer
  /\ UNCHANGED <<request, document, operation>>

Abstract == {a \in Addresses(W.s) : Kind(a) \in {"INTERFACE", "UNION"} /\ possibleTypes(a) # {}}

Concrete == UNION {possibleTypes(a) : a \in Abstract}

Picks == {f \in [Abstract -> Concrete] : \A a \in Abstract : f[a] \in possibleTypes(a)}

RootType == IF operation.type \in DOMAIN W.s.entries THEN W.s.entries[operation.type] ELSE 0

ExecuteOperation ==
  /\ stage = "valid"
  /\ \E pick \in Picks :
       LET m == [mem |-> Parsed(document), clobbered |-> FALSE, errs |-> {}]
           x == Execute(document, verdict.info, pick, m, RootType, RootType, operation.sels)
       IN answer' = [err |-> x.end, data |-> x.data, errs |-> x.m.errs,
                       clobbered |-> x.m.clobbered, pick |-> pick]
  /\ stage' = "answered"
  /\ UNCHANGED <<request, document, operation, verdict>>

Next == ParseQuery \/ SelectOperation \/ ValidateDocument \/ ExecuteOperation

Spec == Init /\ [][Next]_vars

-----------------------------------------------------------------------------
(* What a document means: the fields of a selection set on a value, in the  *)
(* order of the document, and the answer when those of one alias are merged.*)
(* By internal/assets/meta.graphql lines 33 and 41 a selection is included  *)
(* only when the argument of @include is true and not when that of @skip is.*)

Directives(ds, n) == {d \in ToSet(ds) : d.name = n}

NotIncluded(s) == \E d \in Directives(s.dirs, "include") : IfOf(d) # True

Hidden(s) == NotIncluded(s) \/ \E d \in Directives(s.dirs, "skip") : IfOf(d) = True

(* An @include that the code does not look at, for there is a @skip, or the *)
(* argument of which is neither true nor false.                             *)
Overlooked(s) ==
  \E d \in Directives(s.dirs, "include") : IfOf(d) # True /\ (IfOf(d) # False \/ Directives(s.dirs, "skip") # {})

RECURSIVE Collected(_, _, _), Merged(_, _, _, _)

Collected(a, obj, ss) ==
  LET Part(s) ==
        CASE Hidden(s) -> <<>>
          [] s.sel = "field" -> <<s>>
          [] OTHER -> LET f == Frag(document, s)
                      IN IF IsOn(f, a) THEN Collected(a, obj, f.sels)
                         ELSE IF TryCast(obj, f.on) THEN Collected(Lookup(f.on), obj, f.sels) ELSE <<>>
  IN FlattenSeq([i \in DOMAIN ss |-> Part(ss[i])])

Merged(pick, a, obj, ss) ==
  LET fs    == Collected(a, obj, ss)
      first == SelectSeq([i \in DOMAIN fs |-> i], LAMBDA i : \A j \in 1 .. i - 1 : fs[j].alias # fs[i].alias)
      Sub(f) ==
        LET same == SelectSeq(fs, LAMBDA g : g.alias = f.alias)
            b    == verdict.info[f.id].field.type.to
        IN Merged(pick, b, ObjectOf(pick, b), FlattenSeq([i \in DOMAIN same |-> same[i].sels]))
  IN [i \in DOMAIN first |-> [alias |-> fs[first[i]].alias, name |-> fs[first[i]].name,
                              sub |-> Sub(fs[first[i]])]]

RECURSIVE Shape(_), Depth(_), AllEntries(_)
Shape(data) ==
  [i \in DOMAIN data |-> [alias |-> data[i].alias, name |-> data[i].name, sub |-> Shape(data[i].sub)]]

Depth(data) == LET depths == {Depth(e.sub) : e \in ToSet(data)}
               IN IF data = <<>> THEN 0 ELSE 1 + (CHOOSE d \in depths : \A x \in depths : x <= d)

AllEntries(data) == ToSet(data) \union UNION {AllEntries(e.sub) : e \in ToSet(data)}

RECURSIVE SelectionsWithin(_)
SelectionsWithin(ss) == UNION {{s} \union SelectionsWithin(s.sels) : s \in ToSet(ss)}

SelectionsOf(doc) == UNION {SelectionsWithin(x.sels) : x \in ToSet(doc.ops) \union ToSet(doc.frags)}

Spreads(ss) == {s.name : s \in {x \in SelectionsWithin(ss) : x.sel = "spread"}}

\* The names of the fragments a selection set leads to.
RECURSIVE LeadsTo(_, _)
LeadsTo(ss, seen) ==
  LET new == {n \in Spreads(ss) \ seen : Has(document.frags, n)}
  IN IF new = {} THEN seen
     ELSE LeadsTo(FlattenSeq([i \in DOMAIN document.frags |->
                                IF document.frags[i].name \in new THEN document.frags[i].sels ELSE <<>>]),
                  seen \union new)

Cyclic(f) == f.name \in LeadsTo(f.sels, {})

-----------------------------------------------------------------------------
(* Properties. *)

Answered == stage = "answered" /\ answer.err \in {"", "panic"} /\ verdict.end = "ended" /\ verdict.errs = {}

Whole == answer.err = "" /\ "panic" \notin answer.errs   \* nothing was left out

(* An operation of a document that Validate accepts executes: every spread  *)
(* finds its fragment, every field a type and a resolver, every composite   *)
(* has selections and no leaf has, @skip and @include have their argument,  *)
(* which is refused only when the request gives no Boolean for a variable.  *)
(* What it does not see to is that the schema has an entry point for the    *)
(* operation, and that an integer which is the value of an ID or another    *)
(* scalar fits: the field above it is left out of the answer then.          *)
AcceptedExecutes ==
  Answered =>
    /\ "panic" \in answer.errs \union {answer.err} =>
         RootType = 0 \/ \E f \in FieldsOf(document) : ArgumentsPanic(f)
    /\ "resolver" \notin answer.errs
    /\ "directive" \in answer.errs =>
         \E s \in SelectionsOf(document) : DirectiveFails(s.dirs) /\ VariablesOf(s) # {}
    /\ \A e \in AllEntries(answer.data) :
         LET t == verdict.info[e.all[1].id].field.type
         IN hasSubfields(t) <=> (e.all[1].sels # <<>>)

(* Every variable that an accepted operation leads to is one it defines,    *)
(* but for those in fragments that markUsedFragments gave up before: they   *)
(* are not validated for this operation.                                    *)
VariablesDefined ==
  (stage = "valid" \/ Answered) =>
    \A o \in ToSet(document.ops) :
      LET led  == {f \in ToSet(document.frags) : f.name \in LeadsTo(o.sels, {})}
          all  == SelectionsWithin(o.sels) \union UNION {SelectionsWithin(f.sels) : f \in led}
      IN {f.id : f \in led} # UsedFragments(document, o) \/ \A s \in all : VariablesOf(s) \subseteq Names(o.vars)

(* The fields that are merged under one alias are one field with the same   *)
(* arguments when they were selected on the same type: what validateOverlap *)
(* promises of all pairs, also those of nested and of shared fragments.     *)
(* Variables are not told from null, nor from each other.                   *)
MergedFieldsAgree ==
  Answered =>
    \A e \in AllEntries(answer.data) : \A i, j \in DOMAIN e.all :
      verdict.info[e.all[i].id].parent = verdict.info[e.all[j].id].parent =>
        e.all[i].name = e.all[j].name /\ ~argumentsConflict(e.all[i].args, e.all[j].args)

(* The answer has the fields of the document, those of one alias merged, in *)
(* the order they come (resolveFields); unless a list of selections that was*)
(* appended to in place is one that another entry still had to read, or an  *)
(* @include is overlooked.                                                  *)
AnswerIsOfTheDocument ==
  (Answered /\ Whole) =>
    \/ answer.clobbered
    \/ \E s \in SelectionsOf(document) : Overlooked(s)
    \/ Shape(answer.data) = Merged(answer.pick, RootType, RootType, operation.sels)

(* execution.go line 166: a fragment adds its child selections to those of  *)
(* the field that was selected before.                                      *)
FragmentsOnlyAdd ==
  (Answered /\ Whole /\ ~\E s \in SelectionsOf(document) : Overlooked(s)) =>
    Shape(answer.data) = Merged(answer.pick, RootType, RootType, operation.sels)

(* Fragments that spread each other are found, before anything follows them,*)
(* unless the walk that measures the depth follows them first: then it never*)
(* ends, which takes a cycle without a field in it.  What is executed is no *)
(* deeper than MaxDepth.                                                    *)
RecursionIsBounded ==
  /\ verdict.end = "endless" => \E f \in ToSet(document.frags) : Cyclic(f)
  /\ (verdict.end = "ended" /\ "MaxDepthExceeded" \notin verdict.errs /\ ~Duplicates(document.frags)) =>
       LET walked == {f \in ToSet(document.frags) : Lookup(f.on) = 0 \/ canBeFragment(Lookup(f.on))}
       IN \/ walked # ToSet(document.frags)
          \/ ("NoFragmentCycles" \in verdict.errs) <=> \E f \in walked : Cyclic(f)
  /\ Answered /\ MaxDepth # 0 => Depth(answer.data) <= MaxDepth

RECURSIVE Anonymous(_)
Anonymous(ss) == [i \in DOMAIN ss |-> [ss[i] EXCEPT !.id = 0, !.sels = Anonymous(@)]]

Content(d) ==
  LET Vars(vs) == [i \in DOMAIN vs |-> [vs[i] EXCEPT !.dirs = <<>>]]
      Part(x) == [x EXCEPT !.id = 0, !.sels = Anonymous(@)]
  IN [ops |-> [i \in DOMAIN d.ops |-> [Part(d.ops[i]) EXCEPT !.vars = Vars(@)]],
      frags |-> [i \in DOMAIN d.frags |-> Part(d.frags[i])]]

(* A document reads back as it was written, but for an operation or fragment*)
(* without selections, an inline fragment without a type condition, and the *)
(* directives of variables.                                                 *)
DocumentRoundTrip ==
  stage # "received" =>
    LET parts == ToSet(document.ops) \union ToSet(document.frags)
        back  == parseDocument(NoDocument, WriteDocument(document))
    IN \/ back.ok /\ Content(back.doc) = Content(document)
       \/ \E x \in parts : x.sels = <<>> \/ \E s \in SelectionsWithin(x.sels) :
                                              s.sel = "inline" /\ (s.on = "" \/ s.sels = <<>>)

(* A program that looks ahead with FieldSelectionContext is told the fields *)
(* that the execution selects, each as often as it is selected, but for the *)
(* fields that every type has, which it refuses.  When an @include is       *)
(* overlooked there, it is here too.                                        *)
LookAheadAgrees ==
  (Answered /\ RootType # 0 /\ ~\E s \in SelectionsOf(document) : Overlooked(s)) =>
    \A s \in {operation} \union FieldsWithin(operation.sels) :
      LET a == IF s = operation THEN RootType ELSE verdict.info[s.id].field.type.to
      IN \A obj \in possibleTypes(a) :
           LET ahead == Apply(document, a, obj, s.sels)
               ours  == Collected(a, obj, s.sels)
               known == SelectSeq(ours, LAMBDA f : f.name \notin MetaFields)
           IN IF ahead.end = "panic" THEN known # ours
              ELSE ahead.fields = known /\ ahead.errs \ {"@if"} = Names(ours) \intersect MetaFields
=============================================================================
