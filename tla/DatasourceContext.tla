--------------------------- MODULE DatasourceContext ---------------------------
(***************************************************************************)
(* The server's cache of datasource connections                            *)
(* (DatasourceContextServiceCEImpl.java), for one cacheable key: threads   *)
(* that execute a query take the cached context without a lock, create one *)
(* under the key's monitor, and delete it, without a lock, once the plugin *)
(* reports a stale connection.  Keys do not interact: maps and monitors    *)
(* are per key.                                                            *)
(*                                                                         *)
(* A context stands for the DatasourceContext object, its cached mono and  *)
(* the one connection that mono creates.  One action is the code between   *)
(* two places where another thread can interfere with the shared maps; the *)
(* reads that make up one test are taken together.                         *)
(***************************************************************************)
EXTENDS Naturals, FiniteSets

CONSTANTS
    Callers,      \* threads that run retryOnce
    Archivers,    \* threads that delete the context of an archived datasource
    Fails,        \* whether the plugin may fail to create a connection
    MaxVersion,   \* bound: versions of the stored datasource
    MaxBreaks,    \* bound: connections the database side drops
    MaxContexts   \* bound: contexts created; a caller creates at most two

ASSUME DatasourceAssumption ==
    /\ Callers \cap Archivers = {}
    /\ Fails \in BOOLEAN
    /\ MaxVersion \in Nat \ {0} /\ MaxBreaks \in Nat /\ MaxContexts \in Nat

Threads  == Callers \cup Archivers
Contexts == 1..MaxContexts
None     == 0                       \* no entry in a map; no thread

VARIABLES
    version,   \* version of the stored datasource; updatedAt is its order
    ctxMap,    \* datasourceContextMap at the key
    monoMap,   \* datasourceContextMonoMap at the key
    monitor,   \* the threads inside synchronized (monitor)
    made,      \* number of contexts constructed so far
    mono,      \* mono[x]: how far the cached mono of context x is
    conn,      \* conn[x]: the connection of x
    born,      \* born[x]: creationTime, as the version stored at that time
    config,    \* config[x]: version of the configuration x connects with
    breaks,    \* number of connections dropped so far
    pc, seen,  \* seen[t]: version of the storage object thread t works with
    cur,       \* cur[t]: the context t was given
    del,       \* del[t]: the context t read in order to delete it
    retried    \* retried[t]: t is in the second run of its task

maps    == <<ctxMap, monoMap>>
threads == <<pc, seen, cur, del, retried>>
vars    == <<version, ctxMap, monoMap, monitor, made, mono, conn, born, config,
             breaks, pc, seen, cur, del, retried>>

CriticalSteps == {"evict", "forget", "lookup", "publish"}
FinalSteps    == {"done", "failed", "crashed"}
Steps == CriticalSteps \cup FinalSteps
             \cup {"start", "fast", "get", "enter", "await", "use", "stale",
                   "destroy", "remove"}

TypeOK ==
    /\ version \in 1..MaxVersion
    /\ made \in 0..MaxContexts /\ breaks \in 0..MaxBreaks
    /\ ctxMap \in 0..made /\ monoMap \in 0..made
    /\ monitor \subseteq Threads
    /\ mono \in [Contexts -> {"none", "building", "creating", "ready", "failed"}]
    /\ conn \in [Contexts -> {"none", "open", "broken", "closed"}]
    /\ born \in [Contexts -> 0..MaxVersion]
    /\ config \in [Contexts -> 0..MaxVersion]
    /\ pc \in [Threads -> Steps]
    /\ seen \in [Threads -> 0..MaxVersion]
    /\ cur \in [Threads -> 0..made] /\ del \in [Threads -> 0..made]
    /\ retried \in [Threads -> BOOLEAN]
    /\ \A t \in Threads : pc[t] \in {"await", "use"} => cur[t] # None

Init ==
    /\ version = 1 /\ made = 0 /\ breaks = 0
    /\ ctxMap = None /\ monoMap = None /\ monitor = {}
    /\ mono = [x \in Contexts |-> "none"]
    /\ conn = [x \in Contexts |-> "none"]
    /\ born = [x \in Contexts |-> 0]
    /\ config = [x \in Contexts |-> 0]
    /\ pc = [t \in Threads |-> "start"]
    /\ seen = [t \in Threads |-> 0]
    /\ cur = [t \in Threads |-> None]
    /\ del = [t \in Threads |-> None]
    /\ retried = [t \in Threads |-> FALSE]

Goto(t, from, to) == pc[t] = from /\ pc' = [pc EXCEPT ![t] = to]

-----------------------------------------------------------------------------
(* The tests of the code *)

\* getIsStale: updatedAt of the thread's storage is after the creationTime.
IsStale(t) == ctxMap # None /\ seen[t] > born[ctxMap]

\* getIsInErrorState: the cached mono completed exceptionally.
IsInErrorState == monoMap # None /\ mono[monoMap] = "failed"

\* isValidDatasourceContextAvailable; a connection is set once the mono is ready.
IsValid(t) == /\ ctxMap # None
              /\ mono[ctxMap] = "ready"
              /\ ~IsStale(t)
              /\ ~IsInErrorState

\* pluginExecutor.datasourceDestroy on the connection of x, if it has one.
Destroy(x) == conn' = [conn EXCEPT ![x] = IF @ = "none" THEN @ ELSE "closed"]

-----------------------------------------------------------------------------
(* A query: getDatasourceContext and the task run on the context *)

\* The thread reads the stored datasource it will work with.
Read(t) ==
    /\ t \in Callers
    /\ Goto(t, "start", "fast")
    /\ seen' = [seen EXCEPT ![t] = version]
    /\ UNCHANGED <<version, maps, monitor, made, mono, conn, born, config,
                   breaks, cur, del, retried>>

\* getDatasourceContext: without the lock, look for a valid context.
FastCheck(t) ==
    /\ Goto(t, "fast", IF IsValid(t) THEN "get" ELSE "enter")
    /\ UNCHANGED <<version, maps, monitor, made, mono, conn, born, config,
                   breaks, seen, cur, del, retried>>

\* Faulty: the second look takes whatever is there.
FastGetUnchecked(t) ==
    /\ Goto(t, "get", "use")
    /\ cur' = [cur EXCEPT ![t] = ctxMap]
    /\ UNCHANGED <<version, maps, monitor, made, mono, conn, born, config,
                   breaks, seen, del, retried>>

\* Mono.just(datasourceContextMap.get(...)): a second look at the map, which
\* throws if the entry is gone.
FastGet(t) ==
    /\ Goto(t, "get", IF ctxMap = None THEN "crashed" ELSE "use")
    /\ cur' = [cur EXCEPT ![t] = ctxMap]
    /\ UNCHANGED <<version, maps, monitor, made, mono, conn, born, config,
                   breaks, seen, del, retried>>

-----------------------------------------------------------------------------
(* getCachedDatasourceContextMono, inside synchronized (monitor) *)

\* Faulty: the critical section without its monitor.
EnterUnlocked(t) ==
    /\ Goto(t, "enter", IF IsStale(t) \/ IsInErrorState THEN "evict" ELSE "lookup")
    /\ monitor' = monitor \cup {t}
    /\ UNCHANGED <<version, maps, made, mono, conn, born, config, breaks, seen,
                   cur, del, retried>>

\* Acquire the monitor and decide whether there is something to evict.
Enter(t) ==
    /\ monitor = {}
    /\ Goto(t, "enter", IF IsStale(t) \/ IsInErrorState THEN "evict" ELSE "lookup")
    /\ monitor' = {t}
    /\ UNCHANGED <<version, maps, made, mono, conn, born, config, breaks, seen,
                   cur, del, retried>>

\* Faulty: the exception escapes without releasing the lock.
EvictKeepsLock(t) ==
    /\ Goto(t, "evict", IF ctxMap = None THEN "crashed" ELSE "forget")
    /\ IF ctxMap = None THEN UNCHANGED conn ELSE Destroy(ctxMap)
    /\ UNCHANGED <<version, maps, monitor, made, mono, born, config, breaks,
                   seen, cur, del, retried>>

\* Destroy the connection of the stale or failed context.  There is nothing to
\* look at if the context left the map: get(...).getConnection() throws.
Evict(t) ==
    /\ Goto(t, "evict", IF ctxMap = None THEN "crashed" ELSE "forget")
    /\ IF ctxMap = None
       THEN monitor' = monitor \ {t} /\ UNCHANGED conn
       ELSE Destroy(ctxMap) /\ UNCHANGED monitor
    /\ UNCHANGED <<version, maps, made, mono, born, config, breaks, seen, cur,
                   del, retried>>

\* Remove both entries.
Forget(t) ==
    /\ Goto(t, "forget", "lookup")
    /\ monoMap' = None
    /\ ctxMap' = None
    /\ UNCHANGED <<version, monitor, made, mono, conn, born, config, breaks,
                   seen, cur, del, retried>>

\* A publisher with a cached value exists: share it and leave.
Share(t) ==
    /\ monoMap # None
    /\ Goto(t, "lookup", "await")
    /\ cur' = [cur EXCEPT ![t] = monoMap]
    /\ monitor' = monitor \ {t}
    /\ UNCHANGED <<version, maps, made, mono, conn, born, config, breaks, seen,
                   del, retried>>

\* Construct a context, created now with the configuration the thread has, and
\* put it into the map before there is a mono for it.
Construct(t) ==
    /\ made < MaxContexts
    /\ LET x == made + 1 IN
       /\ made' = x
       /\ cur' = [cur EXCEPT ![t] = x]
       /\ mono' = [mono EXCEPT ![x] = "building"]
       /\ born' = [born EXCEPT ![x] = version]
       /\ config' = [config EXCEPT ![x] = seen[t]]
       /\ ctxMap' = x
    /\ UNCHANGED <<version, monoMap, monitor, conn, breaks, seen, del, retried>>

\* Faulty: a context is created whether there is a cached mono or not.
CreateAlways(t) == Goto(t, "lookup", "publish") /\ Construct(t)

Create(t) == monoMap = None /\ Goto(t, "lookup", "publish") /\ Construct(t)

\* Cache the mono and leave; the thread subscribes to it at once, which starts
\* the creation of the connection.
Publish(t) ==
    /\ Goto(t, "publish", "await")
    /\ monoMap' = cur[t]
    /\ mono' = [mono EXCEPT ![cur[t]] = "creating"]
    /\ monitor' = monitor \ {t}
    /\ UNCHANGED <<version, ctxMap, made, conn, born, config, breaks, seen, cur,
                   del, retried>>

\* The mono emits the context, or the error of the plugin.
Await(t) ==
    /\ \/ /\ Goto(t, "await", "use") /\ mono[cur[t]] = "ready"
          /\ UNCHANGED cur
       \/ /\ Goto(t, "await", "failed") /\ mono[cur[t]] = "failed"
          /\ cur' = [cur EXCEPT ![t] = None]
    /\ UNCHANGED <<version, maps, monitor, made, mono, conn, born, config,
                   breaks, seen, del, retried>>

-----------------------------------------------------------------------------
(* The task, and retryOnce around it *)

\* The task succeeds on an open connection.  On any other the plugin reports a
\* StaleConnectionException, which the first run turns into a retry; the thread
\* then no longer has the context.
Use(t) ==
    /\ Goto(t, "use", IF conn[cur[t]] = "open" THEN "done"
                      ELSE IF retried[t] THEN "failed" ELSE "stale")
    /\ cur' = [cur EXCEPT ![t] = IF conn[@] = "open" THEN @ ELSE None]
    /\ UNCHANGED <<version, maps, monitor, made, mono, conn, born, config,
                   breaks, seen, del, retried>>

\* deleteDatasourceContext: read the context; without one there is nothing to
\* do.  A caller then runs its task again, with the storage object it had.
Rerun(t) == IF t \in Callers THEN "fast" ELSE "done"

ReadToDelete(t) ==
    /\ IF t \in Callers THEN pc[t] = "stale" ELSE pc[t] = "start"
    /\ pc' = [pc EXCEPT ![t] = IF ctxMap = None THEN Rerun(t) ELSE "destroy"]
    /\ del' = [del EXCEPT ![t] = ctxMap]
    /\ retried' = [retried EXCEPT ![t] = TRUE]
    /\ UNCHANGED <<version, maps, monitor, made, mono, conn, born, config,
                   breaks, seen, cur>>

\* Once the plugin executor is there: destroy what was read, drop the mono ...
DestroyRead(t) ==
    /\ Goto(t, "destroy", "remove")
    /\ Destroy(del[t])
    /\ monoMap' = None
    /\ UNCHANGED <<version, ctxMap, monitor, made, mono, born, config, breaks,
                   seen, cur, del, retried>>

\* ... and then whatever context the key now has.
Remove(t) ==
    /\ Goto(t, "remove", Rerun(t))
    /\ ctxMap' = None
    /\ del' = [del EXCEPT ![t] = None]
    /\ UNCHANGED <<version, monoMap, monitor, made, mono, conn, born, config,
                   breaks, seen, cur, retried>>

\* The timeout of the caller cancels a thread that waits for a connection, for
\* its query, or for the plugin executor of the delete.
Timeout(t) ==
    /\ t \in Callers
    /\ pc[t] \in {"await", "use", "destroy"}
    /\ pc' = [pc EXCEPT ![t] = "failed"]
    /\ cur' = [cur EXCEPT ![t] = None]
    /\ del' = [del EXCEPT ![t] = None]
    /\ UNCHANGED <<version, maps, monitor, made, mono, conn, born, config,
                   breaks, seen, retried>>

-----------------------------------------------------------------------------
(* Around the cache *)

\* Someone edits the datasource.
Update ==
    /\ version < MaxVersion
    /\ version' = version + 1
    /\ UNCHANGED <<maps, monitor, made, mono, conn, born, config, breaks, threads>>

\* The plugin creates the connection, or fails to.
Connect(x) ==
    /\ mono[x] = "creating"
    /\ \/ /\ mono' = [mono EXCEPT ![x] = "ready"]
          /\ conn' = [conn EXCEPT ![x] = "open"]
       \/ /\ Fails
          /\ mono' = [mono EXCEPT ![x] = "failed"]
          /\ UNCHANGED conn
    /\ UNCHANGED <<version, maps, monitor, made, born, config, breaks, threads>>

\* The database drops a connection.
Break(x) ==
    /\ breaks < MaxBreaks
    /\ conn[x] = "open"
    /\ breaks' = breaks + 1
    /\ conn' = [conn EXCEPT ![x] = "broken"]
    /\ UNCHANGED <<version, maps, monitor, made, mono, born, config, threads>>

Step(t) ==
    \/ Read(t) \/ FastCheck(t) \/ FastGet(t)
    \/ Enter(t) \/ Evict(t) \/ Forget(t) \/ Share(t) \/ Create(t) \/ Publish(t)
    \/ Await(t) \/ Use(t) \/ ReadToDelete(t) \/ DestroyRead(t) \/ Remove(t)

Next == \/ \E t \in Threads : Step(t)
        \/ \E t \in Callers : Timeout(t)
        \/ Update
        \/ \E x \in Contexts : Connect(x) \/ Break(x)

Spec == Init /\ [][Next]_vars

\* Threads are scheduled and every attempt to connect ends.  A thread enters the
\* monitor only a few times, so weak fairness is enough to get in; and there are
\* finitely many contexts, so it is enough that some attempt ends.
Fairness == /\ \A t \in Threads : WF_vars(Step(t))
            /\ WF_vars(\E x \in Contexts : Connect(x))

FairSpec == Spec /\ Fairness

-----------------------------------------------------------------------------
(* Properties *)

Live(x)   == conn[x] \in {"open", "broken"}
Held(x)   == \E t \in Threads : pc[t] \notin FinalSteps /\ x \in {cur[t], del[t]}
Cached(x) == x \in {ctxMap, monoMap}

\* Nobody has started a deleteDatasourceContext yet.
NothingDeleted == \A t \in Threads : ~retried[t]

\* "... a data race condition resulting in multiple orphan connections": no
\* connection is left that neither the cache nor a thread can still destroy.
NoOrphan == \A x \in Contexts : Live(x) => Cached(x) \/ Held(x)

\* Concurrent first subscribers of a datasource nobody edits or deletes share one
\* connection: there is never a second one open or being created ("forces
\* concurrent subscriptions to re-use the cached value"), and none is orphaned.
OneConnection ==
    NothingDeleted /\ version = 1 =>
        /\ Cardinality({x \in Contexts :
                           mono[x] \in {"building", "creating"} \/ Live(x)}) <= 1
        /\ NoOrphan

\* Whatever races with it, the critical section never leaves the two maps with
\* different contexts (deletes may empty one of them).
MapsAgree == ctxMap # None /\ monoMap # None => ctxMap = monoMap

\* Every query ends: the monitor is always handed on and a retry happens once.
QueriesEnd == <>(\A t \in Threads : pc[t] \in FinalSteps)

=============================================================================
