----------------------------- MODULE FeatureFlags -----------------------------
(***************************************************************************)
(* Feature flags come from Cloud Services and are kept in Redis by the     *)
(* aspect of @Cache and @CacheEvict (CacheAspect.java).  A request of a    *)
(* user refreshes entries that are too old (FeatureFlagServiceCEImpl), a   *)
(* scheduled task those of the tenant (FeatureFlagMigrationHelperCEImpl),  *)
(* and both mean to keep the previous flags when Cloud Services fail.      *)
(*                                                                         *)
(* The model is of one key: keys do not affect each other.  It is that of  *)
(* a user, whom all processes serve, or that of the tenant, which Crons    *)
(* refresh (one for every server) and which the others only read.          *)
(***************************************************************************)
EXTENDS FiniteSets, Naturals

CONSTANTS
    Processes,   \* each serves one request after the other
    Crons,       \* those that run the scheduled task
    Flags,       \* the maps of flags Cloud Services may give
    Empty,       \* the map without flags
    None         \* no entry

ASSUME FlagsAssumption == Empty \notin Flags /\ Crons \subseteq Processes

VARIABLES
    key,      \* "featureFlag" (of a user) or "tenantNewFeatures"
    cache,    \* the entry in Redis
    remote,   \* the flags Cloud Services have now
    down,     \* Cloud Services do not answer
    step,     \* step[p]: the next call of p to Redis or Cloud Services
    phase,    \* phase[p]: which entry p is asking for
    held,     \* held[p]: the old entry that p is to refresh
    got,      \* got[p]: the entry that p has got last; when idle, its answer
    failed,   \* Cloud Services have failed a call (for the properties)
    quiet     \* quiet[p]: nobody else wrote to the key (for the properties)

vars == <<key, cache, remote, down, step, phase, held, got, failed, quiet>>

\* CachedFlags, CachedFeatures: old once refreshedAt is beyond the time limit.
Entry == [flags : Flags \cup {Empty}, old : BOOLEAN]

ASSUME NoEntryAssumption == None \notin Entry

TypeOK ==
    /\ key \in {"featureFlag", "tenantNewFeatures"}
    /\ cache \in Entry \cup {None}
    /\ remote \in Flags /\ down \in BOOLEAN /\ failed \in BOOLEAN
    /\ step \in [Processes -> {"idle", "get", "call", "put", "evict"}]
    /\ phase \in [Processes -> {"existing", "latest", "previous"}]
    /\ held \in [Processes -> Entry \cup {None}]
    /\ got \in [Processes -> Entry \cup {None}]
    /\ quiet \in [Processes -> BOOLEAN]
    /\ \A p \in Processes :
          /\ step[p] = "put" => got[p] \in Entry
          /\ phase[p] # "existing" => held[p] \in Entry

Init ==
    /\ key \in {"featureFlag", "tenantNewFeatures"}
    /\ cache = None
    /\ remote \in Flags /\ down = FALSE /\ failed = FALSE
    /\ step = [p \in Processes |-> "idle"]
    /\ phase = [p \in Processes |-> "existing"]
    /\ held = [p \in Processes |-> None]
    /\ got = [p \in Processes |-> None]
    /\ quiet = [p \in Processes |-> TRUE]

Goto(p, s) == step' = [step EXCEPT ![p] = s]

\* p writes to the key, and disturbs the others.
Disturb(p) == quiet' = [q \in Processes |-> quiet[q] /\ q = p]

-----------------------------------------------------------------------------
(* What a process does with the entry e that a cached method gave it *)

Refreshes(p) == key = "featureFlag" \/ p \in Crons

\* Faulty: the old entry is not kept.
ExistingForgotten(p, e) ==
    /\ phase[p] = "existing"
    /\ \/ /\ ~(e.old /\ Refreshes(p))
          /\ Goto(p, "idle")
          /\ UNCHANGED <<phase, held>>
       \/ /\ e.old /\ Refreshes(p)
          /\ Goto(p, "evict")
          /\ phase' = [phase EXCEPT ![p] = "latest"]
          /\ UNCHANGED held

\* fetch...: an entry that is not too old, or is only read, is the answer.
Existing(p, e) ==
    /\ phase[p] = "existing"
    /\ \/ /\ ~(e.old /\ Refreshes(p))
          /\ Goto(p, "idle")
          /\ UNCHANGED <<phase, held>>
       \/ /\ e.old /\ Refreshes(p)
          /\ Goto(p, "evict")
          /\ phase' = [phase EXCEPT ![p] = "latest"]
          /\ held' = [held EXCEPT ![p] = e]

\* Faulty: nobody evicts before update...
LatestUnevicted(p, e) ==
    /\ phase[p] = "latest"
    /\ \/ /\ e.flags # Empty
          /\ Goto(p, "idle")
          /\ UNCHANGED phase
       \/ /\ e.flags = Empty
          /\ Goto(p, "get")
          /\ phase' = [phase EXCEPT ![p] = "previous"]
    /\ UNCHANGED held

\* Faulty: the age of the entry is taken for the failure of Cloud Services.
LatestByAge(p, e) ==
    /\ phase[p] = "latest"
    /\ \/ /\ ~e.old
          /\ Goto(p, "idle")
          /\ UNCHANGED phase
       \/ /\ e.old
          /\ Goto(p, IF key = "featureFlag" THEN "get" ELSE "evict")
          /\ phase' = [phase EXCEPT ![p] = "previous"]
    /\ UNCHANGED held

\* Evict and fetch...: without flags fall back on the previous entry.  The
\* scheduled task evicts once more before update...; a user's request does not.
Latest(p, e) ==
    /\ phase[p] = "latest"
    /\ \/ /\ e.flags # Empty
          /\ Goto(p, "idle")
          /\ UNCHANGED phase
       \/ /\ e.flags = Empty
          /\ Goto(p, IF key = "featureFlag" THEN "get" ELSE "evict")
          /\ phase' = [phase EXCEPT ![p] = "previous"]
    /\ UNCHANGED held

Fallback(p) == phase[p] = "previous" /\ Goto(p, "idle") /\ UNCHANGED <<phase, held>>

Return(p, e) == Existing(p, e) \/ Latest(p, e) \/ Fallback(p)

-----------------------------------------------------------------------------
(* CacheAspect and RedisCacheManagerImpl *)

\* A request, or the scheduled task, begins.
Ask(p) ==
    /\ step[p] = "idle"
    /\ Goto(p, "get")
    /\ phase' = [phase EXCEPT ![p] = "existing"]
    /\ held' = [held EXCEPT ![p] = None]
    /\ got' = [got EXCEPT ![p] = None]
    /\ quiet' = [quiet EXCEPT ![p] = TRUE]
    /\ UNCHANGED <<key, cache, remote, down, failed>>

\* cacheable: an entry in the cache is the result, whatever the method.
Hit(p) ==
    /\ step[p] = "get" /\ cache # None
    /\ got' = [got EXCEPT ![p] = cache]
    /\ Return(p, cache)
    /\ UNCHANGED <<key, cache, remote, down, failed, quiet>>

Miss(p) ==
    /\ step[p] = "get" /\ cache = None
    /\ Goto(p, "call")
    /\ UNCHANGED <<key, cache, remote, down, phase, held, got, failed, quiet>>

\* callMonoMethodAndCache.  The method is update..., which gives the previous
\* entry, or fetch..., which asks Cloud Services; no answer is an empty map that
\* is already old, "so that the next call reaches to CS".
Call(p) ==
    /\ step[p] = "call"
    /\ Goto(p, "put")
    /\ got' = [got EXCEPT ![p] =
          CASE phase[p] = "previous" -> held[p]
            [] OTHER -> [flags |-> IF down THEN Empty ELSE remote, old |-> down]]
    /\ failed' = (failed \/ (phase[p] # "previous" /\ down))
    /\ UNCHANGED <<key, cache, remote, down, phase, held, quiet>>

Put(p) ==
    /\ step[p] = "put"
    /\ cache' = got[p]
    /\ Return(p, got[p])
    /\ Disturb(p)
    /\ UNCHANGED <<key, remote, down, got, failed>>

\* Faulty: the key is not deleted.
EvictNothing(p) ==
    /\ step[p] = "evict"
    /\ Goto(p, "get")
    /\ UNCHANGED <<key, cache, remote, down, phase, held, got, failed, quiet>>

\* cacheEvict.
Evict(p) ==
    /\ step[p] = "evict"
    /\ cache' = None
    /\ Goto(p, "get")
    /\ Disturb(p)
    /\ UNCHANGED <<key, remote, down, phase, held, got, failed>>

Step(p) == Ask(p) \/ Hit(p) \/ Miss(p) \/ Call(p) \/ Put(p) \/ Evict(p)

-----------------------------------------------------------------------------
(* Time and Cloud Services *)

\* FEATURE_FLAG_CACHE_TIME_MIN, TENANT_FEATURES_CACHE_TIME_MIN.
Age ==
    /\ cache # None /\ ~cache.old
    /\ cache' = [cache EXCEPT !.old = TRUE]
    /\ UNCHANGED <<key, remote, down, step, phase, held, got, failed, quiet>>

CloudServices ==
    /\ \/ remote' \in Flags \ {remote} /\ UNCHANGED down
       \/ down' = ~down /\ UNCHANGED remote
    /\ UNCHANGED <<key, cache, step, phase, held, got, failed, quiet>>

Next == (\E p \in Processes : Step(p)) \/ Age \/ CloudServices

Spec == Init /\ [][Next]_vars

\* Requests keep coming and the scheduler keeps running the task; each goes on;
\* time passes.
Fairness == (\A p \in Processes : WF_vars(Step(p))) /\ WF_vars(Age)

FairSpec == Spec /\ Fairness

-----------------------------------------------------------------------------
(* Properties *)

\* p has refreshed an entry that had flags.
Refreshed(p) == step[p] = "idle" /\ held[p] # None /\ held[p].flags # Empty

\* As long as Cloud Services answer, no request, however it interleaves with the
\* others, puts old flags back into the cache or finds an entry without flags.
FallbackOnlyOnFailure ==
    ~failed => /\ cache # None => cache.flags # Empty
               /\ \A p \in Processes : phase[p] # "previous"

\* "In case the tenant is unable to fetch the latest flags save the existing
\* flags": unless another process wrote to the key meanwhile, a refresh of the
\* tenant's flags ends with flags, in its answer and in the cache.
TenantFallback ==
    \A p \in Processes :
        key = "tenantNewFeatures" /\ Refreshed(p) /\ quiet[p]
            => /\ got[p].flags # Empty
               /\ cache # None /\ cache.flags = got[p].flags

\* Whatever late writes and fallbacks there were, once Cloud Services answer and do
\* not change their mind, and requests come one at a time, the cache comes to hold
\* their flags and no others.  (While requests overlap, two can keep an entry
\* without flags alive: each evicts what the other is about to find.)
OneAtATime == Cardinality({p \in Processes : step[p] # "idle"}) <= 1

FlagsConverge ==
    \A f \in Flags :
        <>[](~down /\ remote = f /\ OneAtATime)
            => <>[](cache = None \/ cache.flags = f)

\* "In case the retrieval of the latest flags from CS encounters an error, the
\* previous flags will serve as a fallback value", for the flags of a user and a
\* request that nobody disturbs.
UserFallback ==
    \A p \in Processes :
        key = "featureFlag" /\ Refreshed(p) /\ quiet[p] => got[p].flags # Empty
===============================================================================
