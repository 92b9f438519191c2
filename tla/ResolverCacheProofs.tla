------------------------- MODULE ResolverCacheProofs -------------------------
(***************************************************************************)
(* The invariant of ResolverCache, and that cached entries stay, for any   *)
(* number of caches, goroutines and keys.                                  *)
(***************************************************************************)
EXTENDS ResolverCache, TLAPS

\* A map with an entry more has the entry and what it had.
LEMMA WithEntry ==
  ASSUME NEW map, NEW k, NEW v
  PROVE  /\ DOMAIN With(map, k, v) = DOMAIN map \union {k}
         /\ With(map, k, v)[k] = v
         /\ \A j \in DOMAIN map : j # k => With(map, k, v)[j] = map[j]
  BY DEF With

\* A map of what create() returns stays one with an entry more.
LEMMA WithCreated ==
  ASSUME NEW K, NEW k, NEW map, map = [j \in K |-> Created[j]]
  PROVE  With(map, k, Created[k]) = [j \in K \union {k} |-> Created[j]]
  BY DEF With

\* The invariant holds at the start.
LEMMA InitInv == CacheInit => CacheInv
  BY CacheOfAssumption, NobodyAssumption
     DEF CacheInit, CacheInv, CallTypeOK, MutexInv, MapsInv, CopyInv,
         ReturnedIsCached, CallOf, Becomes, NoCall, EmptyMap

\* Every step keeps it: only the holder of a mutex replaces that map.
LEMMA StepInv == CacheInv /\ [CacheNext]_cacheVars => CacheInv'
<1> SUFFICES ASSUME CacheInv, [CacheNext]_cacheVars PROVE CacheInv'
  OBVIOUS
<1> USE CacheOfAssumption, NobodyAssumption
<1>1. CASE UNCHANGED cacheVars
  BY <1>1 DEF cacheVars, CacheInv, CallTypeOK, MutexInv, MapsInv, CopyInv,
              ReturnedIsCached, CallOf, Becomes
<1>2. ASSUME NEW c \in Callers, Create(c) PROVE CacheInv'
  <2>1. CallTypeOK'
    BY <1>2 DEF Create, CacheInv, CallTypeOK, CallOf, Becomes, NoCall
  <2>2. MutexInv'
    BY <1>2 DEF Create, CacheInv, CallTypeOK, MutexInv, CallOf, Becomes, NoCall
  <2>3. MapsInv'
    BY <1>2 DEF Create, CacheInv, MapsInv, CallOf, Becomes
  <2>4. CopyInv'
    BY <1>2 DEF Create, CacheInv, CallTypeOK, MutexInv, CopyInv, CallOf, Becomes, NoCall
  <2>5. ReturnedIsCached'
    BY <1>2 DEF Create, CacheInv, CallTypeOK, ReturnedIsCached, CallOf, Becomes, NoCall
  <2> QED
    BY <2>1, <2>2, <2>3, <2>4, <2>5 DEF CacheInv
<1>3. ASSUME NEW c \in Callers, LockCache(c) PROVE CacheInv'
  <2>1. CallTypeOK'
    BY <1>3 DEF LockCache, CacheInv, CallTypeOK, CallOf, Becomes, NoCall
  <2>2. MutexInv'
    BY <1>3 DEF LockCache, CacheInv, CallTypeOK, MutexInv, CallOf, Becomes, NoCall
  <2>3. MapsInv'
    BY <1>3 DEF LockCache, CacheInv, MapsInv, CallOf, Becomes
  <2>4. CopyInv'
    BY <1>3 DEF LockCache, CacheInv, CallTypeOK, MutexInv, CopyInv, CallOf, Becomes, NoCall
  <2>5. ReturnedIsCached'
    BY <1>3 DEF LockCache, CacheInv, CallTypeOK, ReturnedIsCached, CallOf, Becomes, NoCall
  <2> QED
    BY <2>1, <2>2, <2>3, <2>4, <2>5 DEF CacheInv
<1>4. ASSUME NEW c \in Callers, CopyMap(c) PROVE CacheInv'
  <2>1. CallTypeOK'
    BY <1>4 DEF CopyMap, CacheInv, CallTypeOK, CallOf, Becomes, NoCall
  <2>2. MutexInv'
    BY <1>4 DEF CopyMap, CacheInv, CallTypeOK, MutexInv, CallOf, Becomes, NoCall
  <2>3. MapsInv'
    BY <1>4 DEF CopyMap, CacheInv, MapsInv, CallOf, Becomes
  <2>4. CopyInv'
    BY <1>4 DEF CopyMap, CacheInv, CallTypeOK, MutexInv, CopyInv, CallOf, Becomes, NoCall
  <2>5. ReturnedIsCached'
    BY <1>4 DEF CopyMap, CacheInv, CallTypeOK, ReturnedIsCached, CallOf, Becomes, NoCall
  <2> QED
    BY <2>1, <2>2, <2>3, <2>4, <2>5 DEF CacheInv
<1>5. ASSUME NEW c \in Callers, StoreMap(c) PROVE CacheInv'
  <2> DEFINE k == call[c].key
             m == CacheOf[k]
  <2>a. /\ k \in Keys /\ m \in Caches
        /\ call[c].value = Created[k]
        /\ DOMAIN published[m] \in SUBSET Keys
        /\ published[m] = [j \in DOMAIN published[m] |-> Created[j]]
        /\ call[c].next = With(published[m], k, Created[k])
    BY <1>5 DEF StoreMap, CacheInv, CallTypeOK, MapsInv, CopyInv, CallOf, Becomes, NoCall
  <2>b. call[c].next = [j \in DOMAIN published[m] \union {k} |-> Created[j]]
    <3> HIDE DEF k, m
    <3> QED
      BY <2>a, WithCreated
  <2>1. CallTypeOK'
    BY <1>5 DEF StoreMap, CacheInv, CallTypeOK, CallOf, Becomes, NoCall
  <2>2. MutexInv'
    BY <1>5 DEF StoreMap, CacheInv, CallTypeOK, MutexInv, CallOf, Becomes, NoCall
  <2>3. MapsInv'
    BY <1>5, <2>a, <2>b DEF StoreMap, CacheInv, MapsInv, CallOf, Becomes
  <2>4. CopyInv'
    BY <1>5 DEF StoreMap, CacheInv, CallTypeOK, MutexInv, CopyInv, CallOf, Becomes, NoCall
  <2>5. ReturnedIsCached'
    BY <1>5, <2>a, <2>b DEF StoreMap, CacheInv, CallTypeOK, MapsInv, ReturnedIsCached, CallOf, Becomes, NoCall
  <2> QED
    BY <2>1, <2>2, <2>3, <2>4, <2>5 DEF CacheInv
<1>6. ASSUME NEW c \in Callers, UnlockCache(c) PROVE CacheInv'
  <2>1. CallTypeOK'
    BY <1>6 DEF UnlockCache, CacheInv, CallTypeOK, CallOf, Becomes, NoCall
  <2>2. MutexInv'
    BY <1>6 DEF UnlockCache, CacheInv, CallTypeOK, MutexInv, CallOf, Becomes, NoCall
  <2>3. MapsInv'
    BY <1>6 DEF UnlockCache, CacheInv, MapsInv, CallOf, Becomes
  <2>4. CopyInv'
    BY <1>6 DEF UnlockCache, CacheInv, CallTypeOK, MutexInv, CopyInv, CallOf, Becomes, NoCall
  <2>5. ReturnedIsCached'
    BY <1>6 DEF UnlockCache, CacheInv, CallTypeOK, ReturnedIsCached, CallOf, Becomes, NoCall
  <2> QED
    BY <2>1, <2>2, <2>3, <2>4, <2>5 DEF CacheInv
<1>7. ASSUME NEW c \in Callers, Return(c) PROVE CacheInv'
  <2>1. CallTypeOK'
    BY <1>7 DEF Return, CacheInv, CallTypeOK, CallOf, Becomes, NoCall
  <2>2. MutexInv'
    BY <1>7 DEF Return, CacheInv, CallTypeOK, MutexInv, CallOf, Becomes, NoCall
  <2>3. MapsInv'
    BY <1>7 DEF Return, CacheInv, MapsInv, CallOf, Becomes
  <2>4. CopyInv'
    BY <1>7 DEF Return, CacheInv, CallTypeOK, MutexInv, CopyInv, CallOf, Becomes, NoCall
  <2>5. ReturnedIsCached'
    BY <1>7 DEF Return, CacheInv, CallTypeOK, ReturnedIsCached, CallOf, Becomes, NoCall
  <2> QED
    BY <2>1, <2>2, <2>3, <2>4, <2>5 DEF CacheInv
<1>8. ASSUME NEW c \in Callers, NEW k \in Keys, GetOrElseUpdate(c, k) PROVE CacheInv'
  <2>1. CallTypeOK'
    BY <1>8 DEF GetOrElseUpdate, CacheInv, CallTypeOK, MapsInv, CallOf, Becomes, NoCall
  <2>2. MutexInv'
    BY <1>8 DEF GetOrElseUpdate, CacheInv, CallTypeOK, MutexInv, CallOf, Becomes, NoCall
  <2>3. MapsInv'
    BY <1>8 DEF GetOrElseUpdate, CacheInv, MapsInv, CallOf, Becomes
  <2>4. CopyInv'
    BY <1>8 DEF GetOrElseUpdate, CacheInv, CallTypeOK, MutexInv, MapsInv, CopyInv, CallOf, Becomes, NoCall
  <2>5. ReturnedIsCached'
    BY <1>8 DEF GetOrElseUpdate, CacheInv, CallTypeOK, ReturnedIsCached, CallOf, Becomes, NoCall
  <2> QED
    BY <2>1, <2>2, <2>3, <2>4, <2>5 DEF CacheInv
<1> QED
  BY <1>1, <1>2, <1>3, <1>4, <1>5, <1>6, <1>7, <1>8 DEF CacheNext, CacheStep

\* Cache.GetOrElseUpdate (cache.go line 13): the invariant holds in every state.
THEOREM CacheInvariant == CacheSpec => []CacheInv
<1> QED
  BY InitInv, StepInv, PTL DEF CacheSpec

\* A step that keeps the invariant keeps every entry.
LEMMA StepKeepsEntries ==
  ASSUME CacheInv, [CacheNext]_cacheVars,
         NEW m \in Caches, NEW k \in DOMAIN published[m]
  PROVE  k \in DOMAIN published'[m] /\ published'[m][k] = published[m][k]
<1>1. CASE UNCHANGED published
  BY <1>1
<1>2. ASSUME NEW c \in Callers, StoreMap(c)
      PROVE  k \in DOMAIN published'[m] /\ published'[m][k] = published[m][k]
  <2> DEFINE j == call[c].key
             n == CacheOf[j]
  <2>1. /\ n \in Caches
        /\ published' = [published EXCEPT ![n] = With(published[n], j, call[c].value)]
        /\ call[c].value = Created[j]
        /\ DOMAIN published = Caches
    <3>1. j \in Keys /\ call[c].value = Created[j] /\ DOMAIN published = Caches
      BY <1>2 DEF StoreMap, CacheInv, CallTypeOK, MapsInv, CopyInv, CallOf, Becomes, NoCall
    <3>2. call[c].next = With(published[n], j, call[c].value)
      BY <1>2 DEF StoreMap, CacheInv, CopyInv, CallOf, Becomes
    <3> QED
      BY <1>2, <3>1, <3>2, CacheOfAssumption DEF StoreMap
  <2>2. CASE m # n
    BY <2>1, <2>2
  <2>3. CASE m = n
    <3>1. published[m][k] = Created[k]
      BY DEF CacheInv, MapsInv
    <3>2. published'[m] = With(published[m], j, Created[j])
      BY <2>1, <2>3
    <3>3. k \in DOMAIN published[n]
      BY <2>3
    <3> HIDE DEF j, n
    <3> QED
      BY <3>1, <3>2, <3>3, <2>3 DEF With
  <2> QED
    BY <2>2, <2>3
<1> QED
  BY <1>1, <1>2 DEF CacheNext, CacheStep, Create, LockCache, CopyMap, UnlockCache,
                    Return, GetOrElseUpdate, cacheVars

\* No entry is lost or changed, however many goroutines replace the map at the
\* same time (cache.go lines 24 to 33).
THEOREM EntriesStay == CacheSpec => CachedStays
<1>1. CacheInv /\ [CacheNext]_cacheVars =>
        [\A m \in Caches : \A k \in DOMAIN published[m] :
            k \in DOMAIN published'[m] /\ published'[m][k] = published[m][k]]_cacheVars
  BY StepKeepsEntries
<1> QED
  BY <1>1, CacheInvariant, PTL DEF CacheSpec, CachedStays

=============================================================================
