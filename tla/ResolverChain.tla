---------------------------- MODULE ResolverChain ----------------------------
(***************************************************************************)
(* Resolution of fields by package resolvers: goroutines ask a chain of    *)
(* resolvers, with the dynamic one among them, for the Resolution of a     *)
(* field and run it.  They share the caches of what reflection found       *)
(* (ResolverCache).  What each resolver makes of a request is a constant   *)
(* here; it is defined in Resolvers.                                       *)
(*                                                                         *)
(* A request has the parent value, the schema type of the parent, the      *)
(* field (name, arguments and directives) and the arguments given.         *)
(***************************************************************************)
EXTENDS ResolverCache, GoValues

CONSTANTS
  Requests,     \* what the goroutines may ask for, in a sequence
  Values,       \* the Go values that are met
  TypeNames,    \* the names of the schema types that casts are for
  MaxAsked,     \* bound: how many requests there are in a run
  Before(_),    \* Before(r): what the resolvers before the dynamic one find
  After(_, _),  \* After(r, found): what those after it make of that
  Metadata(_, _),  \* Metadata(r, next), and so on: the parts of the dynamic
  Method(_, _, _), \* resolver, those with a cache given what they looked up
  Field(_, _, _),
  Map(_, _),
  NamesType(_),    \* NamesType(resolution): it is that of __typename
  Result(_, _),    \* Result(r, resolution): what any other comes to
  Dereferenced(_), \* Dereferenced(v): what v points to in the end
  CastsTo(_, _)    \* CastsTo(v, n): v, or what it points to, is an n

Nil == [by |-> "nil"]

(***************************************************************************)
(* The keys of the two caches, told apart by their Go types.  Casts share  *)
(* the cache of methods.                                                   *)
(***************************************************************************)
MethodKey(type, name) == [cache |-> "method", type |-> type, field |-> name]
CastKey(type, to) == [cache |-> "method", type |-> type, to |-> to]
FieldKey(type) == [cache |-> "field", type |-> type]

MethodKeyOf(r) == MethodKey(r.parent.type, r.field.name)
FieldKeyOf(r) == FieldKey(Dereferenced(r.parent).type)

HasStruct(r) == KindOf(Dereferenced(r.parent)) = "struct"

IsAbstract(type) == type.kind \in {"UNION", "INTERFACE"}

\* The value has a method To<name> that says yes; the cache has 0 for none.
Casts(v, name, cached) == cached # 0 /\ name \in v.is

ASSUME RequestAssumption ==
  \A i \in DOMAIN Requests :
    LET r == Requests[i]
    IN  /\ r.parent \in Values
        /\ IsValid(r.parent) => MethodKeyOf(r) \in Keys
        /\ HasStruct(r) => FieldKeyOf(r) \in Keys
        /\ IsAbstract(r.parentType) => r.parentType.possible \in Seq(TypeNames)

\* Pointers lead to values, and a value has a key for each cast.
ASSUME ValueAssumption ==
  \A v \in Values :
    /\ Points(v) => Elem(v) \in Values
    /\ \A n \in TypeNames : IsValid(v) => CastKey(v.type, n) \in Keys

\* Pointers are followed to their end.
ASSUME DereferencedAssumption ==
  \A v \in Values : Dereferenced(v) = IF Points(v) THEN Dereferenced(Elem(v)) ELSE v

\* A value can be cast as it is, or else what it points to.
ASSUME CastsToAssumption ==
  \A v \in Values : \A n \in TypeNames :
    CastsTo(v, n) <=> /\ IsValid(v)
                      /\ \/ Casts(v, n, Created[CastKey(v.type, n)])
                         \/ Points(v) /\ CastsTo(Elem(v), n)

VARIABLES
  job,    \* [Callers -> what each goroutine resolves and how far it came]
  asked   \* requests so far

vars == <<cacheVars, job, asked>>

(***************************************************************************)
(* The goroutines.  A job is idle, has asked the resolvers up to a stage,  *)
(* has a Resolution to run, looks for the i-th name of an abstract type by *)
(* a value, or is answered.                                                *)
(***************************************************************************)
Idle == [stage |-> "idle"]
Asking(stage, r, next) == [stage |-> stage, r |-> r, next |-> next]
Running(r, resolution) == [stage |-> "run", r |-> r, resolution |-> resolution]
Casting(stage, r, resolution, i, value) ==
  [stage |-> stage, r |-> r, resolution |-> resolution, i |-> i, value |-> value]
Answered(r, resolution, result) ==
  [stage |-> "answered", r |-> r, resolution |-> resolution, result |-> result]

At(g, stage) == job[g].stage = stage
Free(g) == At(g, "idle") \/ At(g, "answered")

\* The request that a goroutine works on.
Req(g) == Requests[job[g].r]

Init == CacheInit /\ job = [g \in Callers |-> Idle] /\ asked = 0

Go(g, j) == job' = [job EXCEPT ![g] = j] /\ UNCHANGED asked
Reach(g, stage) == Go(g, Asking(stage, job[g].r, job[g].next))
CastOn(g, stage, i, value) == Go(g, Casting(stage, job[g].r, job[g].resolution, i, value))

\* The list before the dynamic resolver has been asked.
Ask(g) ==
  /\ Free(g) /\ asked < MaxAsked
  /\ \E r \in DOMAIN Requests :
       job' = [job EXCEPT ![g] = Asking("metadata", r, Before(Requests[r]))]
  /\ asked' = asked + 1
  /\ UNCHANGED cacheVars

\* The dynamic resolver is through, and so are those after it.
Resolved(g, resolution) == Go(g, Running(job[g].r, After(Req(g), resolution)))

\* What is left when neither method nor field was found.
AskMap(g) == Resolved(g, Map(Req(g), job[g].next))

\* A resolution of one before it is kept by the first part already.
AskMetadata(g) ==
  /\ At(g, "metadata")
  /\ LET found == Metadata(Req(g), job[g].next)
     IN  IF found # Nil THEN Resolved(g, found)
         ELSE Reach(g, IF IsValid(Req(g).parent) THEN "method" ELSE "field")
  /\ UNCHANGED cacheVars

AskMethod(g) ==
  /\ At(g, "method")
  /\ GetOrElseUpdate(g, MethodKeyOf(Req(g)))
  /\ Reach(g, "methodFound")

MethodFound(g) ==
  /\ At(g, "methodFound") /\ Return(g)
  /\ LET found == Method(Req(g), call[g].value, job[g].next)
     IN  IF found # Nil THEN Resolved(g, found) ELSE Reach(g, "field")

AskField(g) ==
  /\ At(g, "field")
  /\ IF HasStruct(Req(g))
     THEN GetOrElseUpdate(g, FieldKeyOf(Req(g))) /\ Reach(g, "fieldFound")
     ELSE AskMap(g) /\ UNCHANGED cacheVars

FieldFound(g) ==
  /\ At(g, "fieldFound") /\ Return(g)
  /\ LET found == Field(Req(g), call[g].value, job[g].next)
     IN  IF found # Nil THEN Resolved(g, found) ELSE AskMap(g)

Answer(g, result) == Go(g, Answered(job[g].r, job[g].resolution, result))

\* The Resolution is called.  To name an abstract type starts with the first
\* possible type and the parent as it is.
Run(g) ==
  /\ At(g, "run")
  /\ IF NamesType(job[g].resolution) /\ IsAbstract(Req(g).parentType)
     THEN CastOn(g, "cast", 1, Req(g).parent)
     ELSE Answer(g, Result(Req(g), job[g].resolution))
  /\ UNCHANGED cacheVars

\* The names that are tried, and the one whose turn it is.
Possible(g) == Req(g).parentType.possible
Turn(g) == Possible(g)[job[g].i]
Left(g) == job[g].i <= Len(Possible(g))

Panic == [error |-> "panic"]

\* No possible type is left, or there is no value to ask for its type.
NoCast(g) ==
  /\ At(g, "cast")
  /\ \/ ~Left(g) /\ Answer(g, [name |-> ""])
     \/ Left(g) /\ ~IsValid(job[g].value) /\ Answer(g, Panic)
  /\ UNCHANGED cacheVars

AskCast(g) ==
  /\ At(g, "cast") /\ Left(g) /\ IsValid(job[g].value)
  /\ GetOrElseUpdate(g, CastKey(job[g].value.type, Turn(g)))
  /\ CastOn(g, "castFound", job[g].i, job[g].value)

\* Mutated form: the next type is tried with what the parent points to.
CastFoundInside(g) ==
  /\ At(g, "castFound") /\ Return(g)
  /\ LET v == job[g].value
     IN  IF Casts(v, Turn(g), call[g].value) THEN Answer(g, [name |-> Turn(g)])
         ELSE IF Points(v) THEN CastOn(g, "cast", job[g].i, Elem(v))
         ELSE CastOn(g, "cast", job[g].i + 1, v)

\* The value is cast, or what it points to is tried, or the next type.
CastFound(g) ==
  /\ At(g, "castFound") /\ Return(g)
  /\ LET v == job[g].value
     IN  IF Casts(v, Turn(g), call[g].value) THEN Answer(g, [name |-> Turn(g)])
         ELSE IF Points(v) THEN CastOn(g, "cast", job[g].i, Elem(v))
         ELSE CastOn(g, "cast", job[g].i + 1, Req(g).parent)

Cached(g) == CacheStep(g) /\ UNCHANGED <<job, asked>>

\* Everything has been asked and answered.
Finished == asked = MaxAsked /\ (\A g \in Callers : Free(g)) /\ UNCHANGED vars

Next ==
  \/ \E g \in Callers :
       \/ Ask(g) \/ AskMetadata(g) \/ AskMethod(g) \/ MethodFound(g)
       \/ AskField(g) \/ FieldFound(g) \/ Run(g)
       \/ NoCast(g) \/ AskCast(g) \/ CastFound(g) \/ Cached(g)
  \/ Finished

Spec == Init /\ [][Next]_vars

(***************************************************************************)
(* What an answer should be: a function of the request, with no cache.     *)
(***************************************************************************)
DynamicAlone(r, next) ==
  LET metadata == Metadata(r, next)
      method == IF IsValid(r.parent) THEN Method(r, Created[MethodKeyOf(r)], next) ELSE Nil
      field == IF HasStruct(r) THEN Field(r, Created[FieldKeyOf(r)], next) ELSE Nil
  IN  IF metadata # Nil THEN metadata
      ELSE IF method # Nil THEN method
      ELSE IF field # Nil THEN field
      ELSE Map(r, next)

ResolutionAlone(r) == After(r, DynamicAlone(r, Before(r)))

\* The first possible type that fits the parent; a nil pointer panics unless
\* that is the very first.
NameAlone(r) ==
  LET possible == r.parentType.possible
      fitting == {i \in DOMAIN possible : CastsTo(r.parent, possible[i])}
      first == CHOOSE i \in fitting : \A j \in fitting : i <= j
      reached == IF IsValid(Dereferenced(r.parent)) THEN fitting ELSE fitting \intersect {1}
  IN  IF reached # {} THEN [name |-> possible[first]]
      ELSE IF possible # <<>> /\ ~IsValid(Dereferenced(r.parent)) THEN Panic
      ELSE [name |-> ""]

AnswerAlone(r) ==
  IF NamesType(ResolutionAlone(r)) /\ IsAbstract(r.parentType) THEN NameAlone(r)
  ELSE Result(r, ResolutionAlone(r))

\* The Resolution and the answer of each request.
Alone ==
  [i \in DOMAIN Requests |->
     [resolution |-> ResolutionAlone(Requests[i]), result |-> AnswerAlone(Requests[i])]]

\* Whatever other goroutines look up and add to the caches at the same time, a
\* request is answered as if it were alone: with the resolution of the chain for
\* it (dynamic_resolver.go lines 10 to 28), and an abstract type is named after
\* the first possible type that fits (metadata_resolver.go lines 25 to 41).
AnsweredAsAlone ==
  \A g \in Callers : At(g, "answered") =>
    /\ job[g].resolution = Alone[job[g].r].resolution
    /\ job[g].result = Alone[job[g].r].result
=============================================================================
