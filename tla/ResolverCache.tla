---------------------------- MODULE ResolverCache ----------------------------
(***************************************************************************)
(* Cache.GetOrElseUpdate of resolvers/cache.go: a map that is read without *)
(* a lock and replaced, never changed, by those who add to it.  The        *)
(* package has several such maps, each with its mutex, which every         *)
(* goroutine that resolves a field uses.                                   *)
(***************************************************************************)
CONSTANTS
  Caches,   \* the variables of type Cache
  Callers,  \* goroutines
  Keys,     \* what is looked up
  CacheOf,  \* [Keys -> Caches]: the cache a key is looked up in
  Created,  \* [Keys -> values]: what create() returns for a key
  Nobody    \* the mutex is free

ASSUME CacheOfAssumption == CacheOf \in [Keys -> Caches]
ASSUME NobodyAssumption == Nobody \notin Callers

VARIABLES
  published, \* [Caches -> maps]: what cache.value holds
  holder,    \* [Caches -> goroutines]: who holds cache.mu
  call       \* [Callers -> calls]: how far each call has come

cacheVars == <<published, holder, call>>

\* A map is a function on the keys that it has.
EmptyMap == [k \in {} |-> k]

\* A map with an entry more.
With(map, k, v) == [j \in DOMAIN map \union {k} |-> IF j = k THEN v ELSE map[j]]

\* No call is going on.
NoCall == [at |-> "none"]

CacheInit ==
  /\ published = [m \in Caches |-> EmptyMap]
  /\ holder = [m \in Caches |-> Nobody]
  /\ call = [c \in Callers |-> NoCall]

(***************************************************************************)
(* The steps of a call, between any two of which others may run.           *)
(***************************************************************************)
CallOf(c, steps) == call[c].at \in steps
Becomes(c, next) == call' = [call EXCEPT ![c] = next]

\* The map is loaded: an entry ends the call, its absence leads to create.
GetOrElseUpdate(c, k) ==
  /\ call[c] = NoCall
  /\ Becomes(c, IF k \in DOMAIN published[CacheOf[k]]
                THEN [at |-> "found", key |-> k, value |-> published[CacheOf[k]][k]]
                ELSE [at |-> "create", key |-> k])
  /\ UNCHANGED <<published, holder>>

\* The value is computed without the lock, perhaps by several at once.
Create(c) ==
  /\ CallOf(c, {"create"})
  /\ Becomes(c, [at |-> "lock", key |-> call[c].key, value |-> Created[call[c].key]])
  /\ UNCHANGED <<published, holder>>

\* Mutated form: nobody waits for the mutex.
LockCacheAnyway(c) ==
  /\ CallOf(c, {"lock"})
  /\ holder' = [holder EXCEPT ![CacheOf[call[c].key]] = c]
  /\ Becomes(c, [at |-> "copy", key |-> call[c].key, value |-> call[c].value])
  /\ UNCHANGED published

LockCache(c) ==
  /\ CallOf(c, {"lock"})
  /\ holder[CacheOf[call[c].key]] = Nobody
  /\ holder' = [holder EXCEPT ![CacheOf[call[c].key]] = c]
  /\ Becomes(c, [at |-> "copy", key |-> call[c].key, value |-> call[c].value])
  /\ UNCHANGED published

\* The map is loaded again, copied, and the copy gets the entry.
CopyMap(c) ==
  /\ CallOf(c, {"copy"})
  /\ Becomes(c, [at |-> "store", key |-> call[c].key, value |-> call[c].value,
                 next |-> With(published[CacheOf[call[c].key]], call[c].key, call[c].value)])
  /\ UNCHANGED <<published, holder>>

StoreMap(c) ==
  /\ CallOf(c, {"store"})
  /\ published' = [published EXCEPT ![CacheOf[call[c].key]] = call[c].next]
  /\ Becomes(c, [at |-> "unlock", key |-> call[c].key, value |-> call[c].value])
  /\ UNCHANGED holder

\* The mutex is free again, and the value computed first is returned.
UnlockCache(c) ==
  /\ CallOf(c, {"unlock"})
  /\ holder' = [holder EXCEPT ![CacheOf[call[c].key]] = Nobody]
  /\ Becomes(c, [at |-> "found", key |-> call[c].key, value |-> call[c].value])
  /\ UNCHANGED published

\* The caller goes on with the value.
Return(c) ==
  /\ CallOf(c, {"found"})
  /\ Becomes(c, NoCall)
  /\ UNCHANGED <<published, holder>>

\* A step of the cache itself.
CacheStep(c) ==
  \/ Create(c) \/ LockCache(c) \/ CopyMap(c) \/ StoreMap(c) \/ UnlockCache(c)

CacheNext ==
  \E c \in Callers : CacheStep(c) \/ Return(c) \/ \E k \in Keys : GetOrElseUpdate(c, k)

CacheSpec == CacheInit /\ [][CacheNext]_cacheVars

(***************************************************************************)
(* What could go wrong here is a write that is lost: two goroutines copy   *)
(* the same map, and the second to store takes the entry of the first out. *)
(***************************************************************************)
CallTypeOK ==
  /\ call = [c \in Callers |-> call[c]]
  /\ \A c \in Callers :
       \/ call[c] = NoCall
       \/ /\ CallOf(c, {"create", "lock", "copy", "store", "unlock", "found"})
          /\ call[c].key \in Keys

\* The holder of a mutex is exactly the call between Lock and Unlock.
MutexInv ==
  /\ holder \in [Caches -> Callers \union {Nobody}]
  /\ \A c \in Callers : \A m \in Caches :
       holder[m] = c <=> CallOf(c, {"copy", "store", "unlock"}) /\ CacheOf[call[c].key] = m

\* A map holds what create() returns for each of its keys, and only its keys.
MapsInv ==
  /\ DOMAIN published = Caches
  /\ \A m \in Caches :
       /\ \A k \in DOMAIN published[m] : k \in Keys /\ CacheOf[k] = m
       /\ published[m] = [k \in DOMAIN published[m] |-> Created[k]]

\* A call carries the value of its key, and a copy that nobody made stale.
CopyInv ==
  \A c \in Callers :
    /\ CallOf(c, {"lock", "copy", "store", "unlock", "found"}) =>
         call[c].value = Created[call[c].key]
    /\ CallOf(c, {"store"}) =>
         call[c].next = With(published[CacheOf[call[c].key]], call[c].key, call[c].value)

\* What a call returned with is in the map, for all that follow.
ReturnedIsCached ==
  \A c \in Callers : CallOf(c, {"unlock", "found"}) =>
    call[c].key \in DOMAIN published[CacheOf[call[c].key]]

\* The inductive invariant of cache.go: the mutex of a map is held by exactly
\* the call that replaces it, so that the copy it stores is of the latest map.
CacheInv == CallTypeOK /\ MutexInv /\ MapsInv /\ CopyInv /\ ReturnedIsCached

\* No step takes an entry out of a map or gives it another value, although
\* goroutines replace the whole map at the same time (cache.go lines 24 to 33).
CachedStays ==
  [][\A m \in Caches : \A k \in DOMAIN published[m] :
        k \in DOMAIN published'[m] /\ published'[m][k] = published[m][k]]_cacheVars
=============================================================================
