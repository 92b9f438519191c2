------------------------- MODULE ResolverChainProofs -------------------------
(***************************************************************************)
(* That the answer of the resolver chain to a request does not depend on   *)
(* what others look up, for any resolvers, requests, types and caches and  *)
(* any number of goroutines.                                               *)
(***************************************************************************)
EXTENDS ResolverChain, ResolverCacheProofs

(***************************************************************************)
(* The inductive invariant: what a job has and what its call looks up are  *)
(* those of its request alone.                                             *)
(***************************************************************************)
\* The names before the i-th do not fit the parent; the i-th fits v when it fits
\* the parent, and both lead to the same value.
Trying(r, i, v) ==
  LET possible == r.parentType.possible
  IN  /\ i \in 1 .. Len(possible) + 1
      /\ \A k \in 1 .. i - 1 : ~CastsTo(r.parent, possible[k])
      /\ i > 1 => IsValid(Dereferenced(r.parent))
      /\ i <= Len(possible) =>
           /\ Dereferenced(v) = Dereferenced(r.parent)
           /\ CastsTo(v, possible[i]) <=> CastsTo(r.parent, possible[i])

LooksUp(c, key) == c # NoCall /\ c.key = key

MetadataGivesWay(r) == Metadata(r, Before(r)) = Nil
MethodGivesWay(r) == IsValid(r.parent) => Method(r, Created[MethodKeyOf(r)], Before(r)) = Nil

\* A job that asks, for the n-th request, and its call c.
AskingOK(j, c, n) ==
  LET r == Requests[n]
      Stage(stage) == j = Asking(stage, n, Before(r))
  IN  \/ Stage("metadata") /\ c = NoCall
      \/ /\ MetadataGivesWay(r) /\ IsValid(r.parent)
         /\ \/ Stage("method") /\ c = NoCall
            \/ Stage("methodFound") /\ LooksUp(c, MethodKeyOf(r))
      \/ /\ MetadataGivesWay(r) /\ MethodGivesWay(r)
         /\ \/ Stage("field") /\ c = NoCall
            \/ Stage("fieldFound") /\ HasStruct(r) /\ LooksUp(c, FieldKeyOf(r))

\* A job that looks for a name.
CastingOK(j, c, n) ==
  LET r == Requests[n]
      Stage(stage) == j = Casting(stage, n, ResolutionAlone(r), j.i, j.value)
  IN  /\ j.stage \in {"cast", "castFound"}
      /\ NamesType(ResolutionAlone(r)) /\ IsAbstract(r.parentType)
      /\ j.value \in Values /\ Trying(r, j.i, j.value)
      /\ \/ Stage("cast") /\ c = NoCall
         \/ /\ Stage("castFound") /\ IsValid(j.value)
            /\ j.i <= Len(r.parentType.possible)
            /\ LooksUp(c, CastKey(j.value.type, r.parentType.possible[j.i]))

DoneOK(j, c, n) ==
  LET r == Requests[n]
  IN  /\ c = NoCall
      /\ \/ j = Running(n, ResolutionAlone(r))
         \/ j = Answered(n, ResolutionAlone(r), AnswerAlone(r))

JobOK(j, c) ==
  \/ j = Idle /\ c = NoCall
  \/ /\ j.r \in DOMAIN Requests
     /\ AskingOK(j, c, j.r) \/ CastingOK(j, c, j.r) \/ DoneOK(j, c, j.r)

JobInv ==
  /\ job = [g \in Callers |-> job[g]]
  /\ \A g \in Callers : JobOK(job[g], call[g])

ChainInv == CacheInv /\ JobInv

(***************************************************************************)
(* What a step of the cache does to the calls.                             *)
(***************************************************************************)
\* The call of nobody but g changes.
OnlyCallOf(g) == \A h \in Callers : h # g => call'[h] = call[h]

\* A call of GetOrElseUpdate looks up its key.
LEMMA LookUpStarts ==
  ASSUME CacheInv, NEW g \in Callers, NEW k, GetOrElseUpdate(g, k)
  PROVE  LooksUp(call'[g], k) /\ OnlyCallOf(g)
<1>1. call = [c \in Callers |-> call[c]]
  BY DEF CacheInv, CallTypeOK
<1>2. call'[g] = (IF k \in DOMAIN published[CacheOf[k]]
                  THEN [at |-> "found", key |-> k, value |-> published[CacheOf[k]][k]]
                  ELSE [at |-> "create", key |-> k])
  BY <1>1 DEF GetOrElseUpdate, Becomes
<1>3. OnlyCallOf(g)
  BY <1>1 DEF GetOrElseUpdate, Becomes, OnlyCallOf
<1> QED
  BY <1>2, <1>3 DEF LooksUp, NoCall

\* It returns what is created for the key.
LEMMA LookUpReturns ==
  ASSUME CacheInv, NEW g \in Callers, Return(g)
  PROVE  /\ call[g].value = Created[call[g].key]
         /\ call'[g] = NoCall
         /\ OnlyCallOf(g)
<1>1. call = [c \in Callers |-> call[c]]
  BY DEF CacheInv, CallTypeOK
<1>2. call[g].value = Created[call[g].key]
  BY DEF Return, CacheInv, CopyInv, CallOf
<1> QED
  BY <1>1, <1>2 DEF Return, Becomes, OnlyCallOf

\* In between it keeps to the key.
LEMMA LookUpGoesOn ==
  ASSUME CacheInv, NEW g \in Callers, CacheStep(g)
  PROVE  /\ \A k : LooksUp(call[g], k) => LooksUp(call'[g], k)
         /\ call[g] # NoCall
         /\ OnlyCallOf(g)
<1>1. call = [c \in Callers |-> call[c]]
  BY DEF CacheInv, CallTypeOK
<1> DEFINE Comes(at) == call'[g].at = at /\ call'[g].key = call[g].key /\ OnlyCallOf(g)
<1>2. \/ Comes("lock") \/ Comes("copy") \/ Comes("store") \/ Comes("unlock") \/ Comes("found")
  BY <1>1 DEF CacheStep, Create, LockCache, CopyMap, StoreMap, UnlockCache, Becomes, OnlyCallOf
<1>3. call[g] # NoCall
  BY DEF CacheStep, Create, LockCache, CopyMap, StoreMap, UnlockCache, CallOf, NoCall
<1> QED
  BY <1>2, <1>3 DEF LooksUp, NoCall

(***************************************************************************)
(* What a job is at each stage.                                            *)
(***************************************************************************)
LEMMA StageOfAsking ==
  ASSUME NEW j, NEW c, JobOK(j, c),
         j.stage \in {"metadata", "method", "methodFound", "field", "fieldFound"}
  PROVE  j.r \in DOMAIN Requests /\ AskingOK(j, c, j.r)
  BY DEF JobOK, CastingOK, DoneOK, Idle, Running, Answered

LEMMA StageOfCasting ==
  ASSUME NEW j, NEW c, JobOK(j, c), j.stage \in {"cast", "castFound"}
  PROVE  j.r \in DOMAIN Requests /\ CastingOK(j, c, j.r)
  BY DEF JobOK, AskingOK, DoneOK, Idle, Asking, Running, Answered

LEMMA StageOfDone ==
  ASSUME NEW j, NEW c, JobOK(j, c), j.stage \in {"run", "answered"}
  PROVE  j.r \in DOMAIN Requests /\ DoneOK(j, c, j.r)
  BY DEF JobOK, AskingOK, CastingOK, Idle, Asking

\* A goroutine that is free looks nothing up.
LEMMA StageOfFree ==
  ASSUME NEW j, NEW c, JobOK(j, c), j.stage \in {"idle", "answered"}
  PROVE  c = NoCall
  BY DEF JobOK, AskingOK, CastingOK, DoneOK, Asking

\* A step of one goroutine leaves the jobs of the others as they are.
LEMMA OneJob ==
  ASSUME JobInv, NEW g \in Callers, NEW j, job' = [job EXCEPT ![g] = j],
         OnlyCallOf(g), JobOK(j, call'[g])
  PROVE  JobInv'
<1>1. job = [h \in Callers |-> job[h]]
  BY DEF JobInv
<1>2. job' = [h \in Callers |-> job'[h]] /\ job'[g] = j
  BY <1>1
<1>3. \A h \in Callers : h # g => job'[h] = job[h] /\ call'[h] = call[h]
  BY <1>1 DEF OnlyCallOf
<1>4. \A h \in Callers : JobOK(job'[h], call'[h])
  <2> TAKE h \in Callers
  <2>1. CASE h = g
    BY <2>1, <1>2
  <2>2. CASE h # g
    BY <2>2, <1>3 DEF JobInv
  <2> QED
    BY <2>1, <2>2
<1> QED
  BY <1>2, <1>4 DEF JobInv

(***************************************************************************)
(* Each step keeps the invariant of the jobs.                              *)
(***************************************************************************)
\* A step that leaves the caches alone leaves the calls alone.
LEMMA NoCacheStep ==
  ASSUME NEW g \in Callers, UNCHANGED cacheVars
  PROVE  call'[g] = call[g] /\ OnlyCallOf(g)
  BY DEF cacheVars, OnlyCallOf

\* A new job asks what comes before the dynamic resolver.
LEMMA AskKeeps ==
  ASSUME ChainInv, NEW g \in Callers, Ask(g)
  PROVE  JobInv'
<1>1. JobOK(job[g], call[g])
  BY DEF ChainInv, JobInv
<1>2. call[g] = NoCall
  BY <1>1, StageOfFree DEF Ask, Free, At
<1>3. PICK r \in DOMAIN Requests :
        job' = [job EXCEPT ![g] = Asking("metadata", r, Before(Requests[r]))]
  BY DEF Ask
<1>4. JobOK(Asking("metadata", r, Before(Requests[r])), NoCall)
  BY DEF JobOK, AskingOK, Asking
<1> QED
  BY <1>2, <1>3, <1>4, NoCacheStep, OneJob DEF Ask, ChainInv

\* What the dynamic resolver found goes through the rest of the list.
LEMMA ResolvedKeeps ==
  ASSUME ChainInv, NEW g \in Callers, NEW found, Resolved(g, found),
         job[g].r \in DOMAIN Requests, call'[g] = NoCall, OnlyCallOf(g),
         found = DynamicAlone(Req(g), Before(Req(g)))
  PROVE  JobInv'
<1> DEFINE n == job[g].r
           j == Running(n, ResolutionAlone(Requests[n]))
<1>1. job' = [job EXCEPT ![g] = j]
  BY DEF Resolved, Go, ResolutionAlone, Req
<1>2. JobOK(j, NoCall)
  BY DEF JobOK, DoneOK, Running
<1> HIDE DEF j
<1> QED
  BY <1>1, <1>2, OneJob DEF ChainInv

\* A job that asks on.
LEMMA ReachKeeps ==
  ASSUME ChainInv, NEW g \in Callers, NEW stage,
         stage \in {"method", "methodFound", "field", "fieldFound"},
         Reach(g, stage), OnlyCallOf(g),
         job[g].r \in DOMAIN Requests,
         AskingOK(Asking(stage, job[g].r, job[g].next), call'[g], job[g].r)
  PROVE  JobInv'
<1> DEFINE j == Asking(stage, job[g].r, job[g].next)
<1>1. j.r = job[g].r
  BY DEF Asking
<1>2. JobOK(j, call'[g])
  <2> HIDE DEF j
  <2> QED
    BY <1>1 DEF JobOK, j
<1>3. job' = [job EXCEPT ![g] = j]
  BY DEF Reach, Go
<1> HIDE DEF j
<1> QED
  BY <1>2, <1>3, OneJob DEF ChainInv

\* The job of a goroutine that asks.
LEMMA AskingJob ==
  ASSUME ChainInv, NEW g \in Callers,
         job[g].stage \in {"metadata", "method", "methodFound", "field", "fieldFound"}
  PROVE  /\ job[g].r \in DOMAIN Requests
         /\ AskingOK(job[g], call[g], job[g].r)
         /\ job[g].next = Before(Req(g))
<1>1. JobOK(job[g], call[g])
  BY DEF ChainInv, JobInv
<1>2. job[g].r \in DOMAIN Requests /\ AskingOK(job[g], call[g], job[g].r)
  BY <1>1, StageOfAsking
<1> QED
  BY <1>2 DEF AskingOK, Asking, Req

LEMMA AskMetadataKeeps ==
  ASSUME ChainInv, NEW g \in Callers, AskMetadata(g)
  PROVE  JobInv'
<1> DEFINE n == job[g].r
           r == Requests[n]
<1>1. job[g].stage = "metadata"
  BY DEF AskMetadata, At
<1>2. n \in DOMAIN Requests /\ AskingOK(job[g], call[g], n) /\ job[g].next = Before(r)
  BY <1>1, AskingJob DEF Req
<1>3. call[g] = NoCall
  BY <1>1, <1>2 DEF AskingOK, Asking
<1>4. call'[g] = NoCall /\ OnlyCallOf(g)
  BY <1>3, NoCacheStep DEF AskMetadata
<1>5. CASE Metadata(r, Before(r)) # Nil
  <2>1. Resolved(g, Metadata(r, Before(r)))
    BY <1>2, <1>5 DEF AskMetadata, Req
  <2>2. Metadata(r, Before(r)) = DynamicAlone(r, Before(r))
    BY <1>5 DEF DynamicAlone
  <2> QED
    BY <1>2, <1>4, <2>1, <2>2, ResolvedKeeps DEF Req
<1>6. CASE Metadata(r, Before(r)) = Nil /\ IsValid(r.parent)
  <2>1. Reach(g, "method")
    BY <1>2, <1>6 DEF AskMetadata, Req
  <2>2. AskingOK(Asking("method", n, job[g].next), call'[g], n)
    BY <1>2, <1>4, <1>6 DEF AskingOK, MetadataGivesWay
  <2> QED
    BY <1>2, <1>4, <2>1, <2>2, ReachKeeps
<1>7. CASE Metadata(r, Before(r)) = Nil /\ ~IsValid(r.parent)
  <2>1. Reach(g, "field")
    BY <1>2, <1>7 DEF AskMetadata, Req
  <2>2. AskingOK(Asking("field", n, job[g].next), call'[g], n)
    BY <1>2, <1>4, <1>7 DEF AskingOK, MetadataGivesWay, MethodGivesWay
  <2> QED
    BY <1>2, <1>4, <2>1, <2>2, ReachKeeps
<1> QED
  BY <1>5, <1>6, <1>7

LEMMA AskMethodKeeps ==
  ASSUME ChainInv, NEW g \in Callers, AskMethod(g)
  PROVE  JobInv'
<1> DEFINE n == job[g].r
           r == Requests[n]
<1>1. job[g].stage = "method"
  BY DEF AskMethod, At
<1>2. n \in DOMAIN Requests /\ AskingOK(job[g], call[g], n) /\ job[g].next = Before(r)
  BY <1>1, AskingJob DEF Req
<1>3. MetadataGivesWay(r) /\ IsValid(r.parent)
  BY <1>1, <1>2 DEF AskingOK, Asking
<1>4. LooksUp(call'[g], MethodKeyOf(r)) /\ OnlyCallOf(g)
  BY LookUpStarts DEF AskMethod, ChainInv, Req
<1>5. AskingOK(Asking("methodFound", n, job[g].next), call'[g], n)
  BY <1>2, <1>3, <1>4 DEF AskingOK
<1> QED
  BY <1>2, <1>4, <1>5, ReachKeeps DEF AskMethod

LEMMA MethodFoundKeeps ==
  ASSUME ChainInv, NEW g \in Callers, MethodFound(g)
  PROVE  JobInv'
<1> DEFINE n == job[g].r
           r == Requests[n]
           method == Method(r, Created[MethodKeyOf(r)], Before(r))
<1>1. job[g].stage = "methodFound"
  BY DEF MethodFound, At
<1>2. n \in DOMAIN Requests /\ AskingOK(job[g], call[g], n) /\ job[g].next = Before(r)
  BY <1>1, AskingJob DEF Req
<1>3. MetadataGivesWay(r) /\ IsValid(r.parent) /\ LooksUp(call[g], MethodKeyOf(r))
  BY <1>1, <1>2 DEF AskingOK, Asking
<1>4. call'[g] = NoCall /\ OnlyCallOf(g) /\ call[g].value = Created[MethodKeyOf(r)]
  BY <1>3, LookUpReturns DEF MethodFound, ChainInv, LooksUp
<1>5. IF method # Nil THEN Resolved(g, method) ELSE Reach(g, "field")
  BY <1>2, <1>4 DEF MethodFound, Req
<1>6. CASE method # Nil
  <2>1. method = DynamicAlone(r, Before(r))
    BY <1>3, <1>6 DEF DynamicAlone, MetadataGivesWay
  <2> QED
    BY <1>2, <1>4, <1>5, <1>6, <2>1, ResolvedKeeps DEF Req
<1>7. CASE method = Nil
  <2>1. AskingOK(Asking("field", n, job[g].next), call'[g], n)
    BY <1>2, <1>3, <1>4, <1>7 DEF AskingOK, MethodGivesWay
  <2> QED
    BY <1>2, <1>4, <1>5, <1>7, <2>1, ReachKeeps
<1> QED
  BY <1>6, <1>7

LEMMA AskFieldKeeps ==
  ASSUME ChainInv, NEW g \in Callers, AskField(g)
  PROVE  JobInv'
<1> DEFINE n == job[g].r
           r == Requests[n]
<1>1. job[g].stage = "field"
  BY DEF AskField, At
<1>2. n \in DOMAIN Requests /\ AskingOK(job[g], call[g], n) /\ job[g].next = Before(r)
  BY <1>1, AskingJob DEF Req
<1>3. MetadataGivesWay(r) /\ MethodGivesWay(r) /\ call[g] = NoCall
  BY <1>1, <1>2 DEF AskingOK, Asking
<1>4. CASE HasStruct(r)
  <2>1. GetOrElseUpdate(g, FieldKeyOf(r)) /\ Reach(g, "fieldFound")
    BY <1>4 DEF AskField, Req
  <2>2. LooksUp(call'[g], FieldKeyOf(r)) /\ OnlyCallOf(g)
    BY <2>1, LookUpStarts DEF ChainInv
  <2>3. AskingOK(Asking("fieldFound", n, job[g].next), call'[g], n)
    BY <1>2, <1>3, <1>4, <2>2 DEF AskingOK
  <2> QED
    BY <1>2, <2>1, <2>2, <2>3, ReachKeeps
<1>5. CASE ~HasStruct(r)
  <2>1. Resolved(g, Map(r, Before(r))) /\ UNCHANGED cacheVars
    BY <1>2, <1>5 DEF AskField, AskMap, Req
  <2>2. Map(r, Before(r)) = DynamicAlone(r, Before(r))
    BY <1>3, <1>5 DEF DynamicAlone, MetadataGivesWay, MethodGivesWay
  <2> QED
    BY <1>2, <1>3, <2>1, <2>2, NoCacheStep, ResolvedKeeps DEF Req
<1> QED
  BY <1>4, <1>5

LEMMA FieldFoundKeeps ==
  ASSUME ChainInv, NEW g \in Callers, FieldFound(g)
  PROVE  JobInv'
<1> DEFINE n == job[g].r
           r == Requests[n]
           field == Field(r, Created[FieldKeyOf(r)], Before(r))
           found == IF field # Nil THEN field ELSE Map(r, Before(r))
<1>1. job[g].stage = "fieldFound"
  BY DEF FieldFound, At
<1>2. n \in DOMAIN Requests /\ AskingOK(job[g], call[g], n) /\ job[g].next = Before(r)
  BY <1>1, AskingJob DEF Req
<1>3. /\ MetadataGivesWay(r) /\ MethodGivesWay(r)
      /\ HasStruct(r) /\ LooksUp(call[g], FieldKeyOf(r))
  BY <1>1, <1>2 DEF AskingOK, Asking
<1>4. call'[g] = NoCall /\ OnlyCallOf(g) /\ call[g].value = Created[FieldKeyOf(r)]
  BY <1>3, LookUpReturns DEF FieldFound, ChainInv, LooksUp
<1>5. Resolved(g, found)
  BY <1>2, <1>4 DEF FieldFound, AskMap, Req
<1>6. found = DynamicAlone(r, Before(r))
  BY <1>3 DEF DynamicAlone, MetadataGivesWay, MethodGivesWay
<1> HIDE DEF found
<1> QED
  BY <1>2, <1>4, <1>5, <1>6, ResolvedKeeps DEF Req

\* The job of a goroutine that looks for a name.
LEMMA CastingJob ==
  ASSUME ChainInv, NEW g \in Callers, job[g].stage \in {"cast", "castFound"}
  PROVE  /\ job[g].r \in DOMAIN Requests
         /\ CastingOK(job[g], call[g], job[g].r)
         /\ job[g].resolution = ResolutionAlone(Req(g))
         /\ Req(g).parentType.possible \in Seq(TypeNames)
         /\ job[g].value \in Values
         /\ Trying(Req(g), job[g].i, job[g].value)
<1>1. JobOK(job[g], call[g])
  BY DEF ChainInv, JobInv
<1>2. job[g].r \in DOMAIN Requests /\ CastingOK(job[g], call[g], job[g].r)
  BY <1>1, StageOfCasting
<1>3. /\ job[g].resolution = ResolutionAlone(Req(g))
      /\ IsAbstract(Req(g).parentType)
      /\ job[g].value \in Values
      /\ Trying(Req(g), job[g].i, job[g].value)
  BY <1>2 DEF CastingOK, Casting, Req
<1> QED
  BY <1>2, <1>3, RequestAssumption DEF Req

\* A job that looks on.
LEMMA CastOnKeeps ==
  ASSUME ChainInv, NEW g \in Callers,
         NEW stage, NEW i, NEW v, CastOn(g, stage, i, v), OnlyCallOf(g),
         job[g].r \in DOMAIN Requests, job[g].resolution = ResolutionAlone(Req(g)),
         CastingOK(Casting(stage, job[g].r, job[g].resolution, i, v), call'[g], job[g].r)
  PROVE  JobInv'
<1> DEFINE j == Casting(stage, job[g].r, job[g].resolution, i, v)
<1>1. j.r = job[g].r
  BY DEF Casting
<1>2. JobOK(j, call'[g])
  <2> HIDE DEF j
  <2> QED
    BY <1>1 DEF JobOK, j
<1>3. job' = [job EXCEPT ![g] = j]
  BY DEF CastOn, Go
<1> HIDE DEF j
<1> QED
  BY <1>2, <1>3, OneJob DEF ChainInv

\* A job that is answered as if it were alone.
LEMMA AnswerKeeps ==
  ASSUME ChainInv, NEW g \in Callers, NEW result, Answer(g, result),
         call'[g] = NoCall, OnlyCallOf(g),
         job[g].r \in DOMAIN Requests, job[g].resolution = ResolutionAlone(Req(g)),
         result = AnswerAlone(Req(g))
  PROVE  JobInv'
<1> DEFINE n == job[g].r
           j == Answered(n, ResolutionAlone(Requests[n]), AnswerAlone(Requests[n]))
<1>1. job' = [job EXCEPT ![g] = j]
  BY DEF Answer, Go, Req
<1>2. JobOK(j, NoCall)
  BY DEF JobOK, DoneOK, Answered
<1> HIDE DEF j
<1> QED
  BY <1>1, <1>2, OneJob DEF ChainInv

\* The first name is tried with the parent.
LEMMA TryingFirst ==
  ASSUME NEW r, r.parentType.possible \in Seq(TypeNames)
  PROVE  Trying(r, 1, r.parent)
<1> DEFINE possible == r.parentType.possible
<1>1. Len(possible) \in Nat
  OBVIOUS
<1> HIDE DEF possible
<1>2. 1 \in 1 .. Len(possible) + 1
  BY <1>1
<1> QED
  BY <1>2 DEF Trying, possible

LEMMA RunKeeps ==
  ASSUME ChainInv, NEW g \in Callers, Run(g)
  PROVE  JobInv'
<1> DEFINE n == job[g].r
           r == Requests[n]
           resolution == ResolutionAlone(r)
<1>1. job[g].stage = "run" /\ JobOK(job[g], call[g])
  BY DEF Run, At, ChainInv, JobInv
<1>2. n \in DOMAIN Requests /\ DoneOK(job[g], call[g], n)
  BY <1>1, StageOfDone
<1>3. job[g].resolution = resolution /\ call[g] = NoCall
  BY <1>2 DEF DoneOK, Running, Answered
<1>4. call'[g] = NoCall /\ OnlyCallOf(g)
  BY <1>3, NoCacheStep DEF Run
<1>5. CASE NamesType(resolution) /\ IsAbstract(r.parentType)
  <2>1. CastOn(g, "cast", 1, r.parent)
    BY <1>3, <1>5 DEF Run, Req
  <2>2. r.parent \in Values /\ r.parentType.possible \in Seq(TypeNames)
    BY <1>2, <1>5, RequestAssumption
  <2>3. Trying(r, 1, r.parent)
    BY <2>2, TryingFirst
  <2>4. CastingOK(Casting("cast", n, resolution, 1, r.parent), NoCall, n)
    BY <1>5, <2>2, <2>3 DEF CastingOK, Casting
  <2> QED
    BY <1>2, <1>3, <1>4, <2>1, <2>4, CastOnKeeps DEF Req
<1>6. CASE ~(NamesType(resolution) /\ IsAbstract(r.parentType))
  <2>1. Answer(g, Result(r, resolution))
    BY <1>3, <1>6 DEF Run, Req
  <2>2. Result(r, resolution) = AnswerAlone(r)
    BY <1>6 DEF AnswerAlone
  <2> QED
    BY <1>2, <1>3, <1>4, <2>1, <2>2, AnswerKeeps DEF Req
<1> QED
  BY <1>5, <1>6

\* The first that fits, when those before it do not.
LEMMA FirstFits ==
  ASSUME NEW r, r.parentType.possible \in Seq(TypeNames),
         NEW i \in 1 .. Len(r.parentType.possible),
         \A k \in 1 .. i - 1 : ~CastsTo(r.parent, r.parentType.possible[k]),
         CastsTo(r.parent, r.parentType.possible[i]),
         i > 1 => IsValid(Dereferenced(r.parent))
  PROVE  NameAlone(r) = [name |-> r.parentType.possible[i]]
<1> DEFINE possible == r.parentType.possible
           fitting == {k \in DOMAIN possible : CastsTo(r.parent, possible[k])}
           first == CHOOSE k \in fitting : \A j \in fitting : k <= j
           reached == IF IsValid(Dereferenced(r.parent)) THEN fitting ELSE fitting \intersect {1}
<1>1. DOMAIN possible = 1 .. Len(possible)
  OBVIOUS
<1>2. i \in fitting /\ \A j \in fitting : i <= j
  BY <1>1
<1>3. fitting \subseteq Int
  BY <1>1
<1>4. first = i
  <2>1. first \in fitting /\ \A j \in fitting : first <= j
    <3> HIDE DEF fitting
    <3> QED
      BY <1>2
  <2> HIDE DEF first, fitting
  <2> QED
    BY <1>2, <1>3, <2>1
<1>5. reached # {}
  BY <1>2
<1> HIDE DEF first, reached
<1> QED
  BY <1>4, <1>5 DEF NameAlone, first, reached

\* None fits, or a nil pointer is in the way.
LEMMA NoneFits ==
  ASSUME NEW r, r.parentType.possible \in Seq(TypeNames),
         \/ \A k \in 1 .. Len(r.parentType.possible) :
              ~CastsTo(r.parent, r.parentType.possible[k])
         \/ ~IsValid(Dereferenced(r.parent)) /\ r.parentType.possible # <<>>
            /\ ~CastsTo(r.parent, r.parentType.possible[1])
  PROVE  NameAlone(r) = IF r.parentType.possible # <<>> /\ ~IsValid(Dereferenced(r.parent))
                        THEN Panic ELSE [name |-> ""]
<1> DEFINE possible == r.parentType.possible
           fitting == {k \in DOMAIN possible : CastsTo(r.parent, possible[k])}
           reached == IF IsValid(Dereferenced(r.parent)) THEN fitting ELSE fitting \intersect {1}
<1>1. DOMAIN possible = 1 .. Len(possible)
  OBVIOUS
<1>2. reached = {}
  BY <1>1
<1> HIDE DEF reached
<1> QED
  BY <1>2 DEF NameAlone, reached

\* An answer to a request for the name of an abstract type.
LEMMA NameIsAnswer ==
  ASSUME ChainInv, NEW g \in Callers, job[g].stage \in {"cast", "castFound"}
  PROVE  AnswerAlone(Req(g)) = NameAlone(Req(g))
<1>1. CastingOK(job[g], call[g], job[g].r)
  BY CastingJob
<1> QED
  BY <1>1 DEF CastingOK, AnswerAlone, Req

LEMMA NoCastKeeps ==
  ASSUME ChainInv, NEW g \in Callers, NoCast(g)
  PROVE  JobInv'
<1> DEFINE r == Req(g)
           i == job[g].i
           v == job[g].value
           possible == r.parentType.possible
<1>1. job[g].stage = "cast"
  BY DEF NoCast, At
<1>2. /\ job[g].r \in DOMAIN Requests
      /\ CastingOK(job[g], call[g], job[g].r)
      /\ job[g].resolution = ResolutionAlone(r)
      /\ possible \in Seq(TypeNames)
      /\ v \in Values
      /\ Trying(r, i, v)
  BY <1>1, CastingJob
<1>3. call'[g] = NoCall /\ OnlyCallOf(g)
  <2>1. call[g] = NoCall
    BY <1>1, <1>2 DEF CastingOK, Casting
  <2> QED
    BY <2>1, NoCacheStep DEF NoCast
<1>4. AnswerAlone(r) = NameAlone(r)
  BY <1>1, NameIsAnswer
<1>5. CASE ~Left(g)
  <2>1. /\ \A k \in 1 .. Len(possible) : ~CastsTo(r.parent, possible[k])
        /\ possible # <<>> => IsValid(Dereferenced(r.parent))
    <3>1. i = Len(possible) + 1
      BY <1>2, <1>5 DEF Left, Possible, Trying
    <3>2. possible # <<>> => Len(possible) > 0
      BY <1>2
    <3> QED
      BY <1>2, <3>1, <3>2 DEF Trying
  <2>2. NameAlone(r) = [name |-> ""]
    BY <1>2, <2>1, NoneFits
  <2>3. Answer(g, [name |-> ""])
    BY <1>5 DEF NoCast
  <2> QED
    BY <1>2, <1>3, <1>4, <2>2, <2>3, AnswerKeeps
<1>6. CASE Left(g)
  <2>1. ~IsValid(v) /\ Answer(g, Panic)
    BY <1>6 DEF NoCast
  <2>2. i \in 1 .. Len(possible) /\ possible[i] \in TypeNames /\ possible # <<>>
    BY <1>2, <1>6 DEF Left, Possible, Trying
  <2>3. ~CastsTo(v, possible[i]) /\ Dereferenced(v) = v
    <3>1. ~CastsTo(v, possible[i])
      BY <1>2, <2>1, <2>2, CastsToAssumption
    <3>2. ~Points(v)
      BY <2>1 DEF Points, KindOf
    <3>3. Dereferenced(v) = v
      BY <1>2, <3>2, DereferencedAssumption
    <3> QED
      BY <3>1, <3>3
  <2>4. ~IsValid(Dereferenced(r.parent)) /\ ~CastsTo(r.parent, possible[i])
    BY <1>2, <2>1, <2>2, <2>3 DEF Trying
  <2>5. i = 1
    BY <1>2, <2>2, <2>4 DEF Trying
  <2>6. NameAlone(r) = Panic
    BY <1>2, <2>2, <2>4, <2>5, NoneFits
  <2> QED
    BY <1>2, <1>3, <1>4, <2>1, <2>6, AnswerKeeps
<1> QED
  BY <1>5, <1>6

LEMMA AskCastKeeps ==
  ASSUME ChainInv, NEW g \in Callers, AskCast(g)
  PROVE  JobInv'
<1> DEFINE n == job[g].r
           r == Requests[n]
           i == job[g].i
           v == job[g].value
           possible == r.parentType.possible
           j == Casting("castFound", n, job[g].resolution, i, v)
<1>1. job[g].stage = "cast"
  BY DEF AskCast, At
<1>2. /\ n \in DOMAIN Requests
      /\ CastingOK(job[g], call[g], n)
      /\ job[g].resolution = ResolutionAlone(r)
      /\ v \in Values
      /\ Trying(r, i, v)
  BY <1>1, CastingJob DEF Req
<1>3. LooksUp(call'[g], CastKey(v.type, possible[i])) /\ OnlyCallOf(g)
  BY LookUpStarts DEF AskCast, ChainInv, Req, Turn, Possible
<1>4. IsValid(v) /\ i <= Len(possible)
  BY DEF AskCast, Left, Possible, Req
<1>5. NamesType(ResolutionAlone(r)) /\ IsAbstract(r.parentType)
  BY <1>2 DEF CastingOK
<1>6. j.stage = "castFound" /\ j.value = v /\ j.i = i /\ j = Casting("castFound", n, ResolutionAlone(r), j.i, j.value)
  BY <1>2 DEF Casting
<1>7. CastingOK(j, call'[g], n)
  <2> HIDE DEF j
  <2> QED
    BY <1>2, <1>3, <1>4, <1>5, <1>6 DEF CastingOK
<1>8. CastOn(g, "castFound", i, v)
  BY DEF AskCast
<1> QED
  BY <1>2, <1>3, <1>7, <1>8, CastOnKeeps DEF Req

LEMMA CastFoundKeeps ==
  ASSUME ChainInv, NEW g \in Callers, CastFound(g)
  PROVE  JobInv'
<1> DEFINE n == job[g].r
           r == Requests[n]
           i == job[g].i
           v == job[g].value
           possible == r.parentType.possible
           key == CastKey(v.type, possible[i])
<1>1. job[g].stage = "castFound"
  BY DEF CastFound, At
<1>2. /\ n \in DOMAIN Requests
      /\ CastingOK(job[g], call[g], n)
      /\ job[g].resolution = ResolutionAlone(r)
      /\ possible \in Seq(TypeNames)
      /\ v \in Values
      /\ Trying(r, i, v)
  BY <1>1, CastingJob DEF Req
<1>3. /\ NamesType(ResolutionAlone(r)) /\ IsAbstract(r.parentType)
      /\ IsValid(v) /\ i <= Len(possible) /\ LooksUp(call[g], key)
  BY <1>1, <1>2 DEF CastingOK, Casting
<1>4. call'[g] = NoCall /\ OnlyCallOf(g) /\ call[g].value = Created[key]
  BY <1>3, LookUpReturns DEF CastFound, ChainInv, LooksUp
<1>5. i \in 1 .. Len(possible) /\ possible[i] \in TypeNames
  BY <1>2, <1>3 DEF Trying
<1>6. CastsTo(v, possible[i]) <=> \/ Casts(v, possible[i], Created[key])
                                  \/ Points(v) /\ CastsTo(Elem(v), possible[i])
  BY <1>2, <1>3, <1>5, CastsToAssumption
<1>7. AnswerAlone(Req(g)) = NameAlone(Req(g))
  BY <1>1, NameIsAnswer
<1>8. CASE Casts(v, possible[i], Created[key])
  <2>1. Answer(g, [name |-> possible[i]])
    BY <1>4, <1>8 DEF CastFound, Turn, Possible, Req
  <2>2. CastsTo(r.parent, possible[i])
    <3>1. CastsTo(v, possible[i])
      BY <1>6, <1>8
    <3>2. CastsTo(v, possible[i]) <=> CastsTo(r.parent, possible[i])
      BY <1>2, <1>3 DEF Trying
    <3> QED
      BY <3>1, <3>2
  <2>3. NameAlone(r) = [name |-> possible[i]]
    BY <1>2, <1>5, <2>2, FirstFits DEF Trying
  <2> QED
    BY <1>2, <1>4, <1>7, <2>1, <2>3, AnswerKeeps DEF Req
<1>9. CASE ~Casts(v, possible[i], Created[key]) /\ Points(v)
  <2>1. CastOn(g, "cast", i, Elem(v))
    BY <1>4, <1>9 DEF CastFound, Turn, Possible, Req
  <2>2. Elem(v) \in Values /\ Dereferenced(v) = Dereferenced(Elem(v))
    BY <1>2, <1>9, ValueAssumption, DereferencedAssumption
  <2>3. Trying(r, i, Elem(v))
    BY <1>2, <1>5, <1>6, <1>9, <2>2 DEF Trying
  <2>4. CastingOK(Casting("cast", n, ResolutionAlone(r), i, Elem(v)), NoCall, n)
    <3> DEFINE j == Casting("cast", n, ResolutionAlone(r), i, Elem(v))
    <3>1. j.stage = "cast" /\ j.value = Elem(v) /\ j.i = i
      BY DEF Casting
    <3> HIDE DEF j
    <3>2. j = Casting("cast", n, ResolutionAlone(r), j.i, j.value)
      BY <3>1 DEF j
    <3>3. CastingOK(j, NoCall, n)
      BY <1>3, <2>2, <2>3, <3>1, <3>2 DEF CastingOK
    <3> QED
      BY <3>3 DEF j
  <2> QED
    BY <1>2, <1>4, <2>1, <2>4, CastOnKeeps DEF Req
<1>10. CASE ~Casts(v, possible[i], Created[key]) /\ ~Points(v)
  <2>1. CastOn(g, "cast", i + 1, r.parent)
    BY <1>4, <1>10 DEF CastFound, Turn, Possible, Req
  <2>2. r.parent \in Values
    BY <1>2, RequestAssumption
  <2>3. IsValid(Dereferenced(r.parent)) /\ ~CastsTo(r.parent, possible[i])
    <3>1. Dereferenced(v) = v
      BY <1>2, <1>10, DereferencedAssumption
    <3> QED
      BY <1>2, <1>3, <1>5, <1>6, <1>10, <3>1 DEF Trying
  <2>4. Trying(r, i + 1, r.parent)
    <3>1. i + 1 \in 1 .. Len(possible) + 1
      BY <1>2, <1>5
    <3>2. \A k \in 1 .. i : ~CastsTo(r.parent, possible[k])
      <4> TAKE k \in 1 .. i
      <4>1. k = i \/ k \in 1 .. i - 1
        BY <1>5
      <4> QED
        BY <1>2, <2>3, <4>1 DEF Trying
    <3>3. (i + 1) - 1 = i
      BY <1>5
    <3> QED
      BY <2>3, <3>1, <3>2, <3>3 DEF Trying
  <2>5. CastingOK(Casting("cast", n, ResolutionAlone(r), i + 1, r.parent), NoCall, n)
    <3> DEFINE j == Casting("cast", n, ResolutionAlone(r), i + 1, r.parent)
    <3>1. j.stage = "cast" /\ j.value = r.parent /\ j.i = i + 1
      BY DEF Casting
    <3> HIDE DEF j
    <3>2. j = Casting("cast", n, ResolutionAlone(r), j.i, j.value)
      BY <3>1 DEF j
    <3>3. CastingOK(j, NoCall, n)
      BY <1>3, <2>2, <2>4, <3>1, <3>2 DEF CastingOK
    <3> QED
      BY <3>3 DEF j
  <2> QED
    BY <1>2, <1>4, <2>1, <2>5, CastOnKeeps DEF Req
<1> QED
  BY <1>8, <1>9, <1>10

\* A step of the cache itself changes no job.
LEMMA CachedKeeps ==
  ASSUME ChainInv, NEW g \in Callers, Cached(g)
  PROVE  JobInv'
<1>1. /\ \A k : LooksUp(call[g], k) => LooksUp(call'[g], k)
      /\ call[g] # NoCall
      /\ OnlyCallOf(g)
  BY LookUpGoesOn DEF Cached, ChainInv
<1>2. JobOK(job[g], call[g])
  BY DEF ChainInv, JobInv
<1>3. JobOK(job[g], call'[g])
  <2>1. CASE AskingOK(job[g], call[g], job[g].r)
    BY <1>1, <1>2, <2>1 DEF JobOK, AskingOK
  <2>2. CASE CastingOK(job[g], call[g], job[g].r)
    BY <1>1, <1>2, <2>2 DEF JobOK, CastingOK
  <2> QED
    BY <1>1, <1>2, <2>1, <2>2 DEF JobOK, DoneOK
<1>4. job' = [job EXCEPT ![g] = job[g]]
  BY DEF Cached, ChainInv, JobInv
<1> QED
  BY <1>1, <1>3, <1>4, OneJob DEF ChainInv

\* A step of the chain is one that the cache allows, or none to it.
LEMMA StepMaps ==
  ASSUME ChainInv, [Next]_vars
  PROVE  [CacheNext]_cacheVars
<1>1. ASSUME NEW g \in Callers, AskMethod(g) PROVE CacheNext
  <2>1. job[g].stage = "method"
    BY <1>1 DEF AskMethod, At
  <2>2. job[g].r \in DOMAIN Requests /\ AskingOK(job[g], call[g], job[g].r)
    BY <2>1, AskingJob
  <2>3. IsValid(Req(g).parent)
    BY <2>1, <2>2 DEF AskingOK, Asking, Req
  <2>4. MethodKeyOf(Req(g)) \in Keys
    BY <2>2, <2>3, RequestAssumption DEF Req
  <2> QED
    BY <1>1, <2>4 DEF AskMethod, CacheNext
<1>2. ASSUME NEW g \in Callers, AskField(g) PROVE [CacheNext]_cacheVars
  <2>1. job[g].stage = "field"
    BY <1>2 DEF AskField, At
  <2>2. job[g].r \in DOMAIN Requests
    BY <2>1, AskingJob
  <2>3. HasStruct(Req(g)) => FieldKeyOf(Req(g)) \in Keys
    BY <2>2, RequestAssumption DEF Req
  <2> QED
    BY <1>2, <2>3 DEF AskField, CacheNext
<1>3. ASSUME NEW g \in Callers, AskCast(g) PROVE CacheNext
  <2>1. job[g].stage = "cast"
    BY <1>3 DEF AskCast, At
  <2>2. /\ Req(g).parentType.possible \in Seq(TypeNames)
        /\ job[g].value \in Values
        /\ Trying(Req(g), job[g].i, job[g].value)
    BY <2>1, CastingJob
  <2>3. Turn(g) \in TypeNames
    BY <1>3, <2>2 DEF AskCast, Left, Possible, Turn, Trying
  <2>4. CastKey(job[g].value.type, Turn(g)) \in Keys
    BY <1>3, <2>2, <2>3, ValueAssumption DEF AskCast
  <2> QED
    BY <1>3, <2>4 DEF AskCast, CacheNext
<1>4. ASSUME NEW g \in Callers, Cached(g) PROVE CacheNext
  BY <1>4 DEF Cached, CacheNext
<1>5. ASSUME NEW g \in Callers, MethodFound(g) \/ FieldFound(g) \/ CastFound(g)
      PROVE  CacheNext
  BY <1>5 DEF MethodFound, FieldFound, CastFound, CacheNext
<1>6. ASSUME NEW g \in Callers, Ask(g) \/ AskMetadata(g) \/ Run(g) \/ NoCast(g)
      PROVE  UNCHANGED cacheVars
  BY <1>6 DEF Ask, AskMetadata, Run, NoCast
<1>7. CASE Finished \/ UNCHANGED vars
  BY <1>7 DEF Finished, vars
<1> QED
  BY <1>1, <1>2, <1>3, <1>4, <1>5, <1>6, <1>7 DEF Next

\* The invariant holds at the start.
LEMMA InitChain == Init => ChainInv
<1> SUFFICES ASSUME Init PROVE ChainInv
  OBVIOUS
<1>1. CacheInv
  BY InitInv DEF Init
<1>2. job = [g \in Callers |-> Idle] /\ call = [g \in Callers |-> NoCall]
  BY DEF Init, CacheInit
<1>3. \A g \in Callers : job[g] = Idle /\ call[g] = NoCall
  BY <1>2
<1>4. JobInv
  BY <1>2, <1>3 DEF JobInv, JobOK
<1> QED
  BY <1>1, <1>4 DEF ChainInv

\* Every step keeps it.
LEMMA StepChain ==
  ASSUME ChainInv, [Next]_vars
  PROVE  ChainInv'
<1>1. CacheInv'
  BY StepMaps, StepInv DEF ChainInv
<1>2. JobInv'
  <2>1. CASE Finished \/ UNCHANGED vars
    BY <2>1 DEF ChainInv, JobInv, Finished, vars, cacheVars
  <2>2. ASSUME NEW g \in Callers,
               \/ Ask(g) \/ AskMetadata(g) \/ AskMethod(g) \/ MethodFound(g)
               \/ AskField(g) \/ FieldFound(g) \/ Run(g)
               \/ NoCast(g) \/ AskCast(g) \/ CastFound(g) \/ Cached(g)
        PROVE  JobInv'
    BY <2>2, AskKeeps, AskMetadataKeeps, AskMethodKeeps, MethodFoundKeeps, AskFieldKeeps,
       FieldFoundKeeps, RunKeeps, NoCastKeeps, AskCastKeeps, CastFoundKeeps, CachedKeeps
  <2> QED
    BY <2>1, <2>2 DEF Next
<1> QED
  BY <1>1, <1>2 DEF ChainInv

(***************************************************************************)
(* The theorems.                                                           *)
(***************************************************************************)
\* The caches and the jobs: what a goroutine resolves (dynamic_resolver.go lines
\* 10 to 28) is at every stage what it would be with the caches to itself.
THEOREM ChainInvariant == Spec => []ChainInv
<1> QED
  BY InitChain, StepChain, PTL DEF Spec

\* The chain uses the cache as ResolverCache describes (cache.go line 13): with
\* keys of its own, one call at a time in each goroutine.
THEOREM ImplementsCache == Spec => CacheSpec
<1>1. Init => CacheInit
  BY DEF Init
<1>2. ChainInv /\ [Next]_vars => [CacheNext]_cacheVars
  BY StepMaps
<1> QED
  BY <1>1, <1>2, ChainInvariant, PTL DEF Spec, CacheSpec

\* While fields are resolved no entry of a cache is lost or changed (cache.go
\* lines 24 to 33).
THEOREM CachesKept == Spec => CachedStays
<1> QED
  BY ImplementsCache, EntriesStay, PTL

\* Every request is answered as if it were alone, whatever the other goroutines
\* resolve at the same time: with the resolution of the chain, and an abstract
\* type with the first name that fits (metadata_resolver.go lines 25 to 41).
THEOREM AnswersAlone == Spec => []AnsweredAsAlone
<1>1. ChainInv => AnsweredAsAlone
  <2> SUFFICES ASSUME ChainInv, NEW g \in Callers, At(g, "answered")
               PROVE  /\ job[g].resolution = Alone[job[g].r].resolution
                      /\ job[g].result = Alone[job[g].r].result
    BY DEF AnsweredAsAlone
  <2>1. JobOK(job[g], call[g]) /\ job[g].stage = "answered"
    BY DEF ChainInv, JobInv, At
  <2>2. job[g].r \in DOMAIN Requests /\ DoneOK(job[g], call[g], job[g].r)
    BY <2>1, StageOfDone
  <2>3. /\ job[g].resolution = ResolutionAlone(Requests[job[g].r])
        /\ job[g].result = AnswerAlone(Requests[job[g].r])
    BY <2>1, <2>2 DEF DoneOK, Running, Answered
  <2>4. Alone[job[g].r] = [resolution |-> ResolutionAlone(Requests[job[g].r]),
                           result |-> AnswerAlone(Requests[job[g].r])]
    BY <2>2 DEF Alone
  <2> QED
    BY <2>3, <2>4
<1> QED
  BY <1>1, ChainInvariant, PTL
=============================================================================
