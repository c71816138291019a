----------------------- MODULE DatasourceContext_proofs -----------------------
(***************************************************************************)
(* Proofs about DatasourceContext, for any number of threads, versions,    *)
(* dropped connections and contexts: type correctness, that the two cache  *)
(* maps never name different contexts, although deletes do not take the    *)
(* monitor, and that first subscribers share one connection.               *)
(***************************************************************************)
EXTENDS DatasourceContext, FiniteSetTheorems, TLAPS

\* The critical section has at most one thread in it, and the thread about to
\* cache a mono finds no mono and no other context in the maps.
Locked ==
    /\ \A t \in Threads : pc[t] \in CriticalSteps => monitor = {t}
    /\ \A t \in Threads : pc[t] = "publish" =>
          /\ monoMap = None
          /\ ctxMap \in {None, cur[t]}
          /\ cur[t] # None

Inv == TypeOK /\ Locked /\ MapsAgree

-----------------------------------------------------------------------------

\* A context id that exists stays one, and is an index of the context fields.
LEMMA MadeFacts ==
    ASSUME TypeOK
    PROVE  /\ \A x \in 0..made : x # None => x \in Contexts
           /\ made \in Nat /\ MaxContexts \in Nat /\ MaxVersion \in Nat
           /\ made < MaxContexts => made + 1 \in Contexts /\ made + 1 \in 0..(made + 1)
           /\ \A x \in 0..made : x \in 0..(made + 1)
  BY DatasourceAssumption DEF TypeOK, Contexts, None

\* The parts of TypeOK that concern threads, the contexts and the rest.
ThreadTypes ==
    /\ pc \in [Threads -> Steps]
    /\ seen \in [Threads -> 0..MaxVersion]
    /\ cur \in [Threads -> 0..made] /\ del \in [Threads -> 0..made]
    /\ retried \in [Threads -> BOOLEAN]
    /\ \A t \in Threads : pc[t] \in {"await", "use"} => cur[t] # None

ContextTypes ==
    /\ mono \in [Contexts -> {"none", "building", "creating", "ready", "failed"}]
    /\ conn \in [Contexts -> {"none", "open", "broken", "closed"}]
    /\ born \in [Contexts -> 0..MaxVersion]
    /\ config \in [Contexts -> 0..MaxVersion]

SharedTypes ==
    /\ version \in 1..MaxVersion
    /\ made \in 0..MaxContexts /\ breaks \in 0..MaxBreaks
    /\ ctxMap \in 0..made /\ monoMap \in 0..made
    /\ monitor \subseteq Threads

LEMMA TypeParts == TypeOK <=> SharedTypes /\ ContextTypes /\ ThreadTypes
  BY DEF TypeOK, SharedTypes, ContextTypes, ThreadTypes

\* Destroying a connection keeps the type of conn.
LEMMA DestroyType ==
    ASSUME ContextTypes, NEW x, Destroy(x)
    PROVE  conn' \in [Contexts -> {"none", "open", "broken", "closed"}]
  BY DEF ContextTypes, Destroy

\* Every variable keeps its type in every step.
LEMMA TypeStep ==
    ASSUME TypeOK, Locked, [Next]_vars
    PROVE  TypeOK'
  <1> USE MadeFacts DEF maps, threads
  <1>0. SharedTypes /\ ContextTypes /\ ThreadTypes
    BY TypeParts
  <1>1. ASSUME NEW t \in Threads,
               Read(t) \/ FastCheck(t) \/ Enter(t) \/ Forget(t) \/ Await(t) \/ Use(t)
                 \/ Remove(t)
        PROVE TypeOK'
    BY <1>1 DEF TypeOK, Read, FastCheck, Enter, Forget, Await, Use, Remove, Rerun, Goto,
                Steps, CriticalSteps, FinalSteps, None
  <1>2. ASSUME NEW t \in Threads, FastGet(t) PROVE TypeOK'
    BY <1>2 DEF TypeOK, FastGet, Goto, Steps, CriticalSteps, FinalSteps, None
  <1>3. ASSUME NEW t \in Threads, Evict(t) PROVE TypeOK'
    <2>1. ContextTypes'
      BY <1>0, <1>3, DestroyType DEF Evict, ContextTypes
    <2>2. SharedTypes' /\ ThreadTypes'
      BY <1>0, <1>3 DEF Evict, Goto, SharedTypes, ThreadTypes, Steps, CriticalSteps,
                        FinalSteps, None
    <2> QED BY <2>1, <2>2, TypeParts DEF TypeOK, SharedTypes, ContextTypes, ThreadTypes
  <1>4. ASSUME NEW t \in Threads, Share(t) PROVE TypeOK'
    BY <1>4 DEF TypeOK, Share, Goto, Steps, CriticalSteps, FinalSteps, None
  <1>5. ASSUME NEW t \in Threads, Create(t) PROVE TypeOK'
    <2>1. made' = made + 1 /\ made + 1 \in Contexts /\ made < MaxContexts
      BY <1>5 DEF Create, Construct, TypeOK
    <2>2. ContextTypes'
      BY <1>0, <1>5, <2>1 DEF Create, Construct, ContextTypes, SharedTypes, ThreadTypes
    <2>3. SharedTypes'
      BY <1>0, <1>5, <2>1 DEF Create, Construct, SharedTypes, Contexts
    <2>4. ThreadTypes'
      BY <1>0, <1>5, <2>1 DEF Create, Construct, Goto, ThreadTypes, Steps, CriticalSteps,
                              FinalSteps, Contexts, None
    <2> QED BY <2>2, <2>3, <2>4 DEF TypeOK, SharedTypes, ContextTypes, ThreadTypes
  <1>6. ASSUME NEW t \in Threads, Publish(t) PROVE TypeOK'
    <2>1. cur[t] \in 0..made /\ cur[t] # None
      BY <1>6 DEF TypeOK, Publish, Goto, Locked
    <2>2. ContextTypes'
      BY <1>0, <1>6 DEF Publish, ContextTypes
    <2>3. SharedTypes'
      BY <1>0, <1>6, <2>1 DEF Publish, SharedTypes
    <2>4. ThreadTypes'
      BY <1>0, <1>6, <2>1 DEF Publish, Goto, ThreadTypes, Steps, CriticalSteps, FinalSteps,
                              None
    <2> QED BY <2>2, <2>3, <2>4 DEF TypeOK, SharedTypes, ContextTypes, ThreadTypes
  <1>7. ASSUME NEW t \in Threads, ReadToDelete(t) PROVE TypeOK'
    BY <1>7 DEF TypeOK, ReadToDelete, Rerun, Steps, CriticalSteps, FinalSteps, None
  <1>8. ASSUME NEW t \in Threads, DestroyRead(t) PROVE TypeOK'
    <2>1. ContextTypes'
      BY <1>0, <1>8, DestroyType DEF DestroyRead, ContextTypes
    <2>2. SharedTypes' /\ ThreadTypes'
      BY <1>0, <1>8 DEF DestroyRead, Goto, SharedTypes, ThreadTypes, Steps, CriticalSteps,
                        FinalSteps, None
    <2> QED BY <2>1, <2>2 DEF TypeOK, SharedTypes, ContextTypes, ThreadTypes
  <1>9. ASSUME NEW t \in Callers, Timeout(t) PROVE TypeOK'
    BY <1>9 DEF TypeOK, Timeout, Threads, Steps, CriticalSteps, FinalSteps, None
  <1>10. CASE Update
    BY <1>10 DEF TypeOK, Update
  <1>11. ASSUME NEW x \in Contexts, Connect(x) \/ Break(x) PROVE TypeOK'
    <2>1. ContextTypes'
      BY <1>0, <1>11 DEF Connect, Break, ContextTypes
    <2>2. breaks' \in 0..MaxBreaks
      BY <1>0, <1>11, DatasourceAssumption DEF Connect, Break, SharedTypes
    <2>3. SharedTypes' /\ ThreadTypes'
      BY <1>0, <1>11, <2>2 DEF Connect, Break, SharedTypes, ThreadTypes
    <2> QED BY <2>1, <2>3 DEF TypeOK, SharedTypes, ContextTypes, ThreadTypes
  <1>12. CASE UNCHANGED vars
    BY <1>12 DEF TypeOK, vars
  <1> QED
    BY <1>1, <1>2, <1>3, <1>4, <1>5, <1>6, <1>7, <1>8, <1>9, <1>10, <1>11, <1>12
       DEF Next, Step

-----------------------------------------------------------------------------

\* In every step of the critical section the monitor is the thread's, and the
\* other threads are outside.
LEMMA Alone ==
    ASSUME Locked, NEW t \in Threads, pc[t] \in CriticalSteps
    PROVE  /\ monitor = {t}
           /\ \A u \in Threads : pc[u] \in CriticalSteps => u = t
  BY DEF Locked

\* The monitor excludes, and whoever is about to cache a mono finds the maps
\* empty but for its own context: deletes can only take entries away.
LEMMA LockedStep ==
    ASSUME TypeOK, Locked, [Next]_vars
    PROVE  Locked'
  <1> USE DEF CriticalSteps, maps, threads
  <1>0. pc \in [Threads -> Steps] /\ cur \in [Threads -> 0..made]
    BY DEF TypeOK
  <1>1. ASSUME NEW t \in Threads,
               Read(t) \/ FastCheck(t) \/ FastGet(t) \/ Await(t) \/ Use(t)
        PROVE Locked'
    BY <1>0, <1>1 DEF Locked, Read, FastCheck, FastGet, Await, Use, Goto
  <1>2. ASSUME NEW t \in Threads, Enter(t) PROVE Locked'
    BY <1>0, <1>2 DEF Locked, Enter, Goto
  <1>3. ASSUME NEW t \in Threads, Evict(t) \/ Forget(t) PROVE Locked'
    <2>1. \A u \in Threads : pc[u] \in CriticalSteps => u = t
      BY <1>3, Alone DEF Evict, Forget, Goto
    <2> QED BY <1>0, <1>3, <2>1 DEF Locked, Evict, Forget, Goto
  <1>4. ASSUME NEW t \in Threads, Share(t) PROVE Locked'
    <2>1. \A u \in Threads : pc[u] \in CriticalSteps => u = t
      BY <1>4, Alone DEF Share, Goto
    <2> QED BY <1>0, <1>4, <2>1 DEF Locked, Share, Goto
  <1>5. ASSUME NEW t \in Threads, Create(t) PROVE Locked'
    <2>1. \A u \in Threads : pc[u] \in CriticalSteps => u = t
      BY <1>5, Alone DEF Create, Goto
    <2>2. made \in Nat
      BY MadeFacts
    <2> QED BY <1>0, <1>5, <2>1, <2>2 DEF Locked, Create, Construct, Goto, None
  <1>6. ASSUME NEW t \in Threads, Publish(t) PROVE Locked'
    <2>1. \A u \in Threads : pc[u] \in CriticalSteps => u = t
      BY <1>6, Alone DEF Publish, Goto
    <2> QED BY <1>0, <1>6, <2>1 DEF Locked, Publish, Goto
  <1>7. ASSUME NEW t \in Threads, ReadToDelete(t) PROVE Locked'
    BY <1>0, <1>7 DEF Locked, ReadToDelete, Rerun
  <1>8. ASSUME NEW t \in Threads, DestroyRead(t) \/ Remove(t) PROVE Locked'
    BY <1>0, <1>8 DEF Locked, DestroyRead, Remove, Rerun, Goto
  <1>9. ASSUME NEW t \in Callers, Timeout(t) PROVE Locked'
    BY <1>0, <1>9 DEF Locked, Timeout, Threads
  <1>10. CASE Update \/ (\E x \in Contexts : Connect(x) \/ Break(x)) \/ UNCHANGED vars
    BY <1>10 DEF Locked, Update, Connect, Break, vars
  <1> QED
    BY <1>1, <1>2, <1>3, <1>4, <1>5, <1>6, <1>7, <1>8, <1>9, <1>10 DEF Next, Step

\* No step makes the two maps name different contexts.
LEMMA AgreeStep ==
    ASSUME Locked, MapsAgree, [Next]_vars
    PROVE  MapsAgree'
  <1> USE DEF MapsAgree, maps, threads
  <1>1. ASSUME NEW t \in Threads, Publish(t) PROVE MapsAgree'
    BY <1>1 DEF Locked, Publish, Goto
  <1>2. ASSUME NEW t \in Threads, Create(t) PROVE MapsAgree'
    BY <1>2 DEF Create, Construct
  <1>3. ASSUME NEW t \in Threads, Forget(t) \/ DestroyRead(t) \/ Remove(t)
        PROVE MapsAgree'
    BY <1>3 DEF Forget, DestroyRead, Remove
  <1>4. ASSUME NEW t \in Threads,
               Read(t) \/ FastCheck(t) \/ FastGet(t) \/ Enter(t) \/ Evict(t) \/ Share(t)
                 \/ Await(t) \/ Use(t) \/ ReadToDelete(t)
        PROVE MapsAgree'
    BY <1>4 DEF Read, FastCheck, FastGet, Enter, Evict, Share, Await, Use, ReadToDelete
  <1>5. CASE \/ \E t \in Callers : Timeout(t)
             \/ Update
             \/ \E x \in Contexts : Connect(x) \/ Break(x)
             \/ UNCHANGED vars
    BY <1>5 DEF Timeout, Update, Connect, Break, vars
  <1> QED BY <1>1, <1>2, <1>3, <1>4, <1>5 DEF Next, Step

LEMMA InvInit == Init => Inv
  BY DatasourceAssumption
     DEF Init, Inv, TypeOK, Locked, MapsAgree, CriticalSteps, FinalSteps, Steps, None

LEMMA InvStep == Inv /\ [Next]_vars => Inv'
  BY TypeStep, LockedStep, AgreeStep DEF Inv

LEMMA InvHolds == Spec => []Inv
  BY InvInit, InvStep, PTL DEF Spec

\* Type correctness of the cache, and that a thread which waits for a connection
\* or runs its task has been given a context.
THEOREM TypeCorrect == Spec => []TypeOK
  <1>1. Inv => TypeOK
    BY DEF Inv
  <1> QED BY <1>1, InvHolds, PTL

\* datasourceContextMap and datasourceContextMonoMap never name different
\* contexts for a key, although deleteDatasourceContext clears them one after
\* the other and without the monitor that getCachedDatasourceContextMono holds.
THEOREM MapsNeverDiverge == Spec => []MapsAgree
  <1>1. Inv => MapsAgree
    BY DEF Inv
  <1> QED BY <1>1, InvHolds, PTL

-----------------------------------------------------------------------------
(* One connection, as long as nobody deletes or edits anything              *)

Quiet == NothingDeleted /\ version = 1
Active(x) == mono[x] \in {"building", "creating"} \/ Live(x)

\* Only the context in the map is active; it has a mono unless its creator is
\* about to cache it, and what is evicted has failed: nothing is stale.
QuietInv ==
    Quiet =>
        /\ \A x \in Contexts : Active(x) => x = ctxMap
        /\ \A x \in Contexts : Live(x) => mono[x] = "ready"
        /\ monoMap # None => ctxMap = monoMap
        /\ ctxMap # None /\ monoMap = None => \E t \in Threads : pc[t] = "publish"
        /\ \A t \in Threads :
              /\ pc[t] = "publish" => ctxMap = cur[t] /\ mono[cur[t]] = "building"
              /\ pc[t] \in {"evict", "forget"} => monoMap # None /\ mono[monoMap] = "failed"
              /\ pc[t] \notin {"destroy", "remove"}
              /\ seen[t] <= 1
        /\ \A x \in 1..made : born[x] >= 1

\* What was deleted or edited once is not undone.
LEMMA QuietBefore ==
    ASSUME TypeOK, [Next]_vars, Quiet'
    PROVE  Quiet /\ version' = version /\ retried' = retried
  <1> USE DEF Quiet, NothingDeleted, TypeOK
  <1>1. ASSUME NEW t \in Threads, ReadToDelete(t) PROVE FALSE
    BY <1>1 DEF ReadToDelete
  <1>2. ASSUME Update PROVE FALSE
    BY <1>2 DEF Update
  <1>3. ASSUME NEW t \in Threads,
               Read(t) \/ FastCheck(t) \/ FastGet(t) \/ Enter(t) \/ Evict(t) \/ Forget(t)
                 \/ Share(t) \/ Create(t) \/ Publish(t) \/ Await(t) \/ Use(t)
                 \/ DestroyRead(t) \/ Remove(t)
        PROVE Quiet /\ version' = version /\ retried' = retried
    BY <1>3 DEF Read, FastCheck, FastGet, Enter, Evict, Forget, Share, Create, Construct,
                Publish, Await, Use, DestroyRead, Remove
  <1>4. CASE \/ \E t \in Callers : Timeout(t)
             \/ \E x \in Contexts : Connect(x) \/ Break(x)
             \/ UNCHANGED vars
    BY <1>4 DEF Timeout, Connect, Break, vars, threads
  <1> QED BY <1>1, <1>2, <1>3, <1>4 DEF Next, Step

\* In quiet, no context is stale.
LEMMA NothingStale ==
    ASSUME TypeOK, QuietInv, Quiet, NEW t \in Threads
    PROVE  ~IsStale(t)
  <1>1. ctxMap # None => ctxMap \in 1..made
    BY MadeFacts DEF TypeOK, None
  <1>2. ASSUME NEW x \in 1..made PROVE born[x] >= 1 /\ born[x] \in Nat
    <2>1. x \in Contexts
      BY MadeFacts DEF None
    <2> QED BY <2>1, MadeFacts DEF TypeOK, QuietInv
  <1> QED BY <1>1, <1>2, MadeFacts DEF IsStale, QuietInv, TypeOK

LEMMA QuietStep ==
    ASSUME TypeOK, Locked, QuietInv, [Next]_vars
    PROVE  QuietInv'
  <1> SUFFICES ASSUME Quiet' PROVE QuietInv'
    BY DEF QuietInv
  <1> USE DEF maps, threads, Active, Live
  <1>0. /\ Quiet /\ version = 1 /\ version' = version
        /\ pc \in [Threads -> Steps] /\ cur \in [Threads -> 0..made]
        /\ mono \in [Contexts -> {"none", "building", "creating", "ready", "failed"}]
        /\ conn \in [Contexts -> {"none", "open", "broken", "closed"}]
        /\ seen \in [Threads -> 0..MaxVersion]
        /\ born \in [Contexts -> 0..MaxVersion]
        /\ monoMap \in 0..made /\ made \in Nat /\ ctxMap \in 0..made
    BY QuietBefore, MadeFacts DEF Quiet, TypeOK
  <1>a. \A x \in 0..made : x # None => x \in Contexts
    BY MadeFacts
  <1>1. ASSUME NEW t \in Threads,
               Read(t) \/ FastCheck(t) \/ FastGet(t) \/ Await(t) \/ Use(t)
        PROVE QuietInv'
    BY <1>0, <1>1 DEF QuietInv, Read, FastCheck, FastGet, Await, Use, Goto
  <1>2. ASSUME NEW t \in Threads, Enter(t) PROVE QuietInv'
    BY <1>0, <1>2, NothingStale DEF QuietInv, Enter, Goto, IsInErrorState
  <1>3. ASSUME NEW t \in Threads, Evict(t) PROVE QuietInv'
    <2>1. /\ \A x \in Contexts : conn'[x] \in {"open", "broken"} => conn'[x] = conn[x]
          /\ UNCHANGED <<maps, made, mono, born, seen, cur>>
      BY <1>0, <1>3 DEF Evict, Destroy
    <2>2. /\ pc[t] = "evict" /\ pc'[t] \in {"crashed", "forget"}
          /\ \A u \in Threads : u # t => pc'[u] = pc[u]
      BY <1>0, <1>3 DEF Evict, Goto
    <2> QED BY <1>0, <2>1, <2>2 DEF QuietInv
  <1>4. ASSUME NEW t \in Threads, Forget(t) PROVE QuietInv'
    <2>1. \A u \in Threads : pc[u] \in CriticalSteps => u = t
      BY <1>4, Alone DEF Forget, Goto, CriticalSteps
    <2>2. \A x \in Contexts : ~Active(x)
      BY <1>0, <1>4 DEF QuietInv, Forget, Goto
    <2> QED BY <1>0, <1>4, <2>1, <2>2 DEF QuietInv, Forget, Goto, CriticalSteps
  <1>5. ASSUME NEW t \in Threads, Share(t) PROVE QuietInv'
    BY <1>0, <1>5 DEF QuietInv, Share, Goto
  <1>6. ASSUME NEW t \in Threads, Create(t) PROVE QuietInv'
    <2>1. \A u \in Threads : pc[u] \in CriticalSteps => u = t
      BY <1>6, Alone DEF Create, Goto, CriticalSteps
    <2>2. /\ ctxMap' = made + 1 /\ monoMap' = monoMap /\ monoMap = None /\ made' = made + 1
          /\ cur' = [cur EXCEPT ![t] = made + 1] /\ pc[t] = "lookup"
          /\ pc' = [pc EXCEPT ![t] = "publish"] /\ mono' = [mono EXCEPT ![made + 1] = "building"]
          /\ born' = [born EXCEPT ![made + 1] = 1] /\ conn' = conn /\ seen' = seen
          /\ made + 1 \in Contexts
      BY <1>0, <1>6, MadeFacts DEF Create, Construct, Goto
    <2>3. ctxMap = None
      BY <1>0, <2>1, <2>2 DEF QuietInv, CriticalSteps
    <2>4. \A x \in Contexts : ~Active(x)
      BY <1>0, <2>3 DEF QuietInv, Contexts, None
    <2>5. \A x \in 1..made' : born'[x] >= 1
      BY <1>0, <2>2, MadeFacts DEF QuietInv, Contexts
    <2> QED BY <1>0, <2>1, <2>2, <2>3, <2>4, <2>5 DEF QuietInv, CriticalSteps, None
  <1>7. ASSUME NEW t \in Threads, Publish(t) PROVE QuietInv'
    <2>1. \A u \in Threads : pc[u] \in CriticalSteps => u = t
      BY <1>7, Alone DEF Publish, Goto, CriticalSteps
    <2>2. ctxMap = cur[t] /\ cur[t] # None /\ cur[t] \in Contexts
      BY <1>0, <1>a, <1>7 DEF QuietInv, Publish, Goto, Locked
    <2> QED BY <1>0, <1>7, <2>1, <2>2 DEF QuietInv, Publish, Goto, CriticalSteps
  <1>8. ASSUME NEW t \in Threads, ReadToDelete(t) PROVE FALSE
    BY <1>0, <1>8 DEF ReadToDelete, Quiet, NothingDeleted, TypeOK
  <1>9. ASSUME NEW t \in Threads, DestroyRead(t) \/ Remove(t) PROVE FALSE
    BY <1>0, <1>9 DEF QuietInv, DestroyRead, Remove, Goto
  <1>10. ASSUME NEW t \in Callers, Timeout(t) PROVE QuietInv'
    BY <1>0, <1>10 DEF QuietInv, Timeout, Threads
  <1>11. ASSUME Update PROVE FALSE
    BY <1>0, <1>11 DEF Update
  <1>12. ASSUME NEW x \in Contexts, Connect(x) PROVE QuietInv'
    BY <1>0, <1>a, <1>12 DEF QuietInv, Connect
  <1>13. ASSUME NEW x \in Contexts, Break(x) PROVE QuietInv'
    BY <1>0, <1>13 DEF QuietInv, Break
  <1>14. CASE UNCHANGED vars
    BY <1>0, <1>14 DEF QuietInv, vars
  <1> QED
    BY <1>1, <1>2, <1>3, <1>4, <1>5, <1>6, <1>7, <1>8, <1>9, <1>10, <1>11, <1>12, <1>13, <1>14
       DEF Next, Step

\* Concurrent first subscribers share one connection, and none is orphaned, as
\* long as nobody edits or deletes the datasource: for any number of them, with
\* connections that fail and that the database drops.
THEOREM SubscribersShare == Spec => []OneConnection
  <1>1. Init => QuietInv
    BY DEF Init, QuietInv, Active, Live, None
  <1>2. Inv /\ QuietInv /\ [Next]_vars => QuietInv'
    BY QuietStep DEF Inv
  <1>3. Inv /\ QuietInv => OneConnection
    <2> SUFFICES ASSUME QuietInv, Quiet
                 PROVE  Cardinality({x \in Contexts : Active(x)}) <= 1 /\ NoOrphan
      BY DEF OneConnection, Quiet, Active
    <2> DEFINE A == {x \in Contexts : Active(x)}
    <2>1. A \subseteq {ctxMap}
      BY DEF QuietInv
    <2>2. Cardinality(A) <= 1
      <3> HIDE DEF A
      <3>1. IsFiniteSet({ctxMap}) /\ Cardinality({ctxMap}) = 1
        BY FS_Singleton
      <3> QED BY <2>1, <3>1, FS_Subset
    <2>3. NoOrphan
      BY DEF QuietInv, NoOrphan, Active, Cached
    <2> QED BY <2>2, <2>3
  <1> QED BY <1>1, <1>2, <1>3, InvHolds, PTL DEF Spec
=============================================================================
