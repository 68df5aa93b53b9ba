--------------------------------- MODULE GasCache ---------------------------------
(***************************************************************************)
(* The cache of gas data (apps/api-service/src/gas/caching): read-through  *)
(* fills, invalidation of a key, of a chain's keys or of all, and the      *)
(* fall-back from Redis to a store in memory, whose entries expire by      *)
(* timers of their own.                                                    *)
(*                                                                         *)
(* Every round trip is a step.  Errors of the store are caught and read as *)
(* absent, ignored when writing.  Redis expires its keys by itself.        *)
(***************************************************************************)
EXTENDS Integers, FiniteSets

CONSTANTS
  CacheKeys,     \* the keys
  Fills,         \* calls of getOrFetch that may be under way at a time
  TTL,           \* time to live of what is fetched
  MaxRetry,      \* maxRetries
  MaxNow,        \* bound on the time
  MaxPurges      \* bound on the invalidations

ASSUME GasCacheAssumption ==
  /\ CacheKeys # {}
  /\ TTL \in Nat \ {0} /\ MaxRetry \in Nat /\ MaxNow \in Nat /\ MaxPurges \in Nat

\* A value stands for itself by the time it expires.
NoValue == 0
NoTimer == 0

VARIABLES
  backend,       \* the store in use: "redis" or "memory"
  connected,
  retryCount,
  reachable,     \* whether Redis can be reached
  redisStore,    \* per key: when its value expires
  memoryStore,
  timers,        \* per key: when its timer fires
  fills,         \* the calls under way
  purge,         \* the keys that an invalidation by pattern has found
  cacheNow,
  purges,        \* invalidations so far
  gone,          \* keys that an invalidation was to delete, without a fill under way
  spared         \* those of them that it did not delete

cacheVars == <<backend, connected, retryCount, reachable, redisStore, memoryStore, timers,
               fills, purge, cacheNow, purges, gone, spared>>

IdleFill == [step |-> "idle", key |-> CHOOSE k \in CacheKeys : TRUE]

CacheInit ==
  /\ reachable \in BOOLEAN
  /\ backend = IF reachable THEN "redis" ELSE "memory"
  /\ connected = TRUE /\ retryCount = 0
  /\ redisStore = [k \in CacheKeys |-> NoValue]
  /\ memoryStore = [k \in CacheKeys |-> NoValue]
  /\ timers = [k \in CacheKeys |-> NoTimer]
  /\ fills = [f \in Fills |-> IdleFill]
  /\ purge = {} /\ cacheNow = 1
  /\ purges = 0 /\ gone = {} /\ spared = {}

\* What a GET returns, and what InMemoryRedis.get leaves: an expired entry is deleted.
Answers == backend = "memory" \/ reachable
Cached(k) == IF backend = "memory" THEN memoryStore[k]
             ELSE IF reachable THEN redisStore[k] ELSE NoValue
Live(v) == v # NoValue /\ (IF backend = "memory" THEN cacheNow <= v ELSE cacheNow < v)

-----------------------------------------------------------------------------
(* CacheService.getOrFetch *)

Get(f) ==
  /\ fills[f].step = "idle"
  /\ \E k \in CacheKeys :
       /\ fills' = IF Live(Cached(k)) THEN fills
                   ELSE [fills EXCEPT ![f] = [step |-> "fetch", key |-> k]]
       /\ memoryStore' = IF backend = "memory" /\ ~Live(memoryStore[k])
                         THEN [memoryStore EXCEPT ![k] = NoValue] ELSE memoryStore
       /\ gone' = IF Live(Cached(k)) THEN gone ELSE gone \ {k}
       /\ spared' = IF Live(Cached(k)) THEN spared ELSE spared \ {k}
  /\ UNCHANGED <<backend, connected, retryCount, reachable, redisStore, timers, purge, cacheNow, purges>>

\* The fetcher answers; when it fails so does the call.
Fetch(f) ==
  /\ fills[f].step = "fetch"
  /\ \E step \in {"idle", "set"} : fills' = [fills EXCEPT ![f].step = step]
  /\ UNCHANGED <<backend, connected, retryCount, reachable, redisStore, memoryStore, timers, purge,
                 cacheNow, purges, gone, spared>>

\* setex; in memory the key's timer is replaced.
Set(f) ==
  LET k == fills[f].key IN
  /\ fills[f].step = "set"
  /\ IF backend = "memory"
     THEN /\ memoryStore' = [memoryStore EXCEPT ![k] = cacheNow + TTL]
          /\ timers' = [timers EXCEPT ![k] = cacheNow + TTL]
          /\ UNCHANGED redisStore
     ELSE /\ redisStore' = IF reachable THEN [redisStore EXCEPT ![k] = cacheNow + TTL] ELSE redisStore
          /\ UNCHANGED <<memoryStore, timers>>
  /\ fills' = [fills EXCEPT ![f] = IdleFill]
  /\ UNCHANGED <<backend, connected, retryCount, reachable, purge, cacheNow, purges, gone, spared>>

-----------------------------------------------------------------------------
(* Invalidation *)

Filling(k) == \E f \in Fills : fills[f].step # "idle" /\ fills[f].key = k

\* An invalidation of `keys` that asks the store to delete these of them; an error of the
\* store is logged and no more.
Delete(keys, asked) ==
  LET deleted == {k \in asked : Answers}
  IN  /\ memoryStore' = [k \in CacheKeys |->
           IF k \in deleted /\ backend = "memory" THEN NoValue ELSE memoryStore[k]]
      /\ timers' = [k \in CacheKeys |->
           IF k \in deleted /\ backend = "memory" THEN NoTimer ELSE timers[k]]
      /\ redisStore' = [k \in CacheKeys |->
           IF k \in deleted /\ backend = "redis" THEN NoValue ELSE redisStore[k]]
      /\ gone' = gone \cup {k \in keys : ~Filling(k)}
      /\ spared' = (spared \cup (gone' \ gone)) \ deleted

Invalidate ==
  /\ purges < MaxPurges
  /\ \E k \in CacheKeys : Delete({k}, {k})
  /\ purges' = purges + 1
  /\ UNCHANGED <<backend, connected, retryCount, reachable, fills, purge, cacheNow>>

\* flushdb
ClearAll ==
  /\ purges < MaxPurges
  /\ Delete(CacheKeys, CacheKeys)
  /\ purges' = purges + 1
  /\ UNCHANGED <<backend, connected, retryCount, reachable, fills, purge, cacheNow>>

\* invalidateChain: keys and del are two round trips.
FindKeys ==
  /\ purges < MaxPurges /\ purge = {}
  /\ Answers
  /\ \E found \in SUBSET {k \in CacheKeys : Cached(k) # NoValue} : purge' = found
  /\ purges' = purges + 1
  /\ UNCHANGED <<backend, connected, retryCount, reachable, redisStore, memoryStore, timers, fills,
                 cacheNow, gone, spared>>

\* Redis deletes all that del is given, InMemoryRedis the first of them.
DeleteFound ==
  /\ purge # {}
  /\ \/ backend = "redis" /\ Delete(purge, purge)
     \/ backend = "memory" /\ \E k \in purge : Delete(purge, {k})
  /\ purge' = {}
  /\ UNCHANGED <<backend, connected, retryCount, reachable, fills, cacheNow, purges>>

-----------------------------------------------------------------------------
(* RedisClient *)

\* 'error': the client reports that Redis is gone; also after the fall-back.
RedisError ==
  /\ ~reachable
  /\ connected' = FALSE
  /\ UNCHANGED <<backend, retryCount, reachable, redisStore, memoryStore, timers, fills, purge,
                 cacheNow, purges, gone, spared>>

\* 'reconnecting': past the retries every further attempt makes a store of its own.
Reconnecting ==
  /\ ~reachable
  /\ IF retryCount >= MaxRetry
     THEN /\ backend' = "memory" /\ connected' = TRUE
          /\ memoryStore' = [k \in CacheKeys |-> NoValue]
          /\ timers' = [k \in CacheKeys |-> NoTimer]
          /\ UNCHANGED retryCount
     ELSE /\ retryCount' = retryCount + 1
          /\ UNCHANGED <<backend, connected, memoryStore, timers>>
  /\ UNCHANGED <<reachable, redisStore, fills, purge, cacheNow, purges, gone, spared>>

\* Mutant: the reconnected client takes the place of the store in memory.
MutRedisConnects ==
  /\ reachable
  /\ connected' = TRUE /\ retryCount' = 0 /\ backend' = "redis"
  /\ UNCHANGED <<reachable, redisStore, memoryStore, timers, fills, purge, cacheNow, purges, gone, spared>>

\* 'connect'
RedisConnects ==
  /\ reachable
  /\ connected' = TRUE /\ retryCount' = 0
  /\ UNCHANGED <<backend, reachable, redisStore, memoryStore, timers, fills, purge, cacheNow,
                 purges, gone, spared>>

RedisComesOrGoes ==
  /\ reachable' = ~reachable
  /\ UNCHANGED <<backend, connected, retryCount, redisStore, memoryStore, timers, fills, purge,
                 cacheNow, purges, gone, spared>>

\* A timer fires at its time or later and deletes its key, whatever is stored there.
TimerFires ==
  /\ \E k \in CacheKeys :
       /\ timers[k] # NoTimer /\ timers[k] <= cacheNow
       /\ memoryStore' = [memoryStore EXCEPT ![k] = NoValue]
       /\ timers' = [timers EXCEPT ![k] = NoTimer]
  /\ UNCHANGED <<backend, connected, retryCount, reachable, redisStore, fills, purge, cacheNow,
                 purges, gone, spared>>

CacheTick ==
  /\ cacheNow < MaxNow /\ cacheNow' = cacheNow + 1
  /\ UNCHANGED <<backend, connected, retryCount, reachable, redisStore, memoryStore, timers, fills,
                 purge, purges, gone, spared>>

CacheNext ==
  \/ \E f \in Fills : Get(f) \/ Fetch(f) \/ Set(f)
  \/ Invalidate \/ ClearAll \/ FindKeys \/ DeleteFound
  \/ RedisError \/ Reconnecting \/ RedisConnects \/ RedisComesOrGoes
  \/ TimerFires \/ CacheTick

CacheSpec == CacheInit /\ [][CacheNext]_cacheVars

-----------------------------------------------------------------------------
(* Properties *)

CacheTypeOK ==
  /\ backend \in {"redis", "memory"} /\ connected \in BOOLEAN /\ retryCount \in 0..MaxRetry
  /\ reachable \in BOOLEAN
  /\ redisStore \in [CacheKeys -> Nat] /\ memoryStore \in [CacheKeys -> Nat]
  /\ timers \in [CacheKeys -> Nat]
  /\ fills \in [Fills -> [step : {"idle", "fetch", "set"}, key : CacheKeys]]
  /\ purge \subseteq CacheKeys /\ gone \subseteq CacheKeys /\ spared \subseteq gone
  /\ cacheNow \in Nat /\ purges \in 0..MaxPurges

TimersGuardEntries ==
  \A k \in CacheKeys : memoryStore[k] # NoValue => timers[k] = memoryStore[k]

InvalidatedStaysGone == \A k \in gone \ spared : ~Live(Cached(k))

\* InMemoryRedis keeps values and timers apart: every value has the timer that deletes
\* it when it expires and never one of a value before it, through deletions, expiries
\* found by a read, refills and stores thrown away.  A key that an invalidation was to
\* delete while nobody was filling it stays absent until a later miss, whichever store is
\* in use: what was fetched before is not served again.  Not so the keys that the
\* invalidation spared: Redis did not answer, or they are the chain's keys but one in
\* memory, which the guide beside the code says are gone (CACHING_GUIDE.md:122, :137).
NothingStaleIsServed == TimersGuardEntries /\ InvalidatedStaysGone
=================================================================================
