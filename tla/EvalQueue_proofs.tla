--------------------------- MODULE EvalQueue_proofs ---------------------------
(***************************************************************************)
(* Proofs about EvalQueue, for every set of JS objects and every number of *)
(* changes, triggers and page fetches: its type invariant, that the worker *)
(* runs the bodies of its tree, that the canvas shows whole trees, that    *)
(* post-eval actions wait for the tree they came with and are in one place *)
(* until then, and that the canvas is current when nothing is on its way.  *)
(***************************************************************************)
EXTENDS EvalQueue, SequenceTheorems, FiniteSetTheorems, TLAPS

-----------------------------------------------------------------------------
(* Queues *)

\* Taking the head of a queue, and adding to its end, keep the type; what the
\* elements of the new queue are.
LEMMA DequeueFacts ==
    ASSUME NEW S, NEW s \in Seq(S), s # <<>>
    PROVE  /\ Len(s) \in Nat /\ Len(s) > 0
           /\ Head(s) \in S /\ Head(s) = s[1]
           /\ Tail(s) \in Seq(S) /\ Len(Tail(s)) = Len(s) - 1
           /\ \A i \in 1..Len(Tail(s)) : Tail(s)[i] = s[i + 1]
  BY HeadTailProperties

LEMMA EnqueueFacts ==
    ASSUME NEW S, NEW s \in Seq(S), NEW e \in S
    PROVE  /\ Len(s) \in Nat
           /\ Append(s, e) \in Seq(S) /\ Append(s, e) # <<>>
           /\ Len(Append(s, e)) = Len(s) + 1
           /\ \A i \in 1..Len(s) : Append(s, e)[i] = s[i]
           /\ Append(s, e)[Len(s) + 1] = e
  BY AppendProperties

-----------------------------------------------------------------------------
(* Type correctness *)

\* Every change but those of arriving pages counts against MaxChanges, and a
\* page can only arrive once per fetch.
Bounded ==
    /\ store.seq <= MaxChanges + fetches
    /\ page \in {"fetching", "clearing"} =>
          fetches > 0 /\ store.seq < MaxChanges + fetches

TypeInv == TypeOK /\ Bounded

Actions == [evaluates : BOOLEAN, affected : SUBSET JSObjects,
            force : BOOLEAN, post : SUBSET Versions]

\* Requests and answers have their types.
LEMMA MessageFacts ==
    /\ \A t \in Trees, a \in Actions, w \in BOOLEAN :
          EvalRequest(t, a, w) \in Requests
    /\ \A t \in Trees : [kind |-> "trigger", tree |-> t] \in Requests
    /\ \A f \in 1..MaxFetches :
          /\ [kind |-> "clear", fetch |-> f] \in Requests
          /\ [kind |-> "cleared", fetch |-> f] \in Replies
    /\ TypeOK => \A t \in Trees, p \in SUBSET Versions, w \in BOOLEAN,
                    f \in BOOLEAN : Reply(t, p, w, f) \in Replies
    /\ \A r \in Requests :
          \/ /\ r.kind = "eval" /\ r.tree \in Trees /\ r.force \in BOOLEAN
             /\ r.affected \in SUBSET JSObjects /\ r.post \in SUBSET Versions
             /\ r.awaited \in BOOLEAN
          \/ r.kind = "trigger" /\ r.tree \in Trees
          \/ r.kind = "clear" /\ r.fetch \in 1..MaxFetches
    /\ \A m \in Replies :
          \/ /\ m.kind = "tree" /\ m.newTree \in BOOLEAN /\ m.base \in Versions
             /\ m.version \in Versions /\ m.post \in SUBSET Versions
             /\ m.awaited \in BOOLEAN
          \/ m.kind = "cleared" /\ m.fetch \in 1..MaxFetches
  <1>1. TypeOK => \A t \in Trees, p \in SUBSET Versions, w \in BOOLEAN,
                     f \in BOOLEAN : Reply(t, p, w, f) \in Replies
    BY DEF TypeOK, Reply, Replies, Trees
  <1>2. \A t \in Trees, a \in Actions, w \in BOOLEAN :
          EvalRequest(t, a, w) \in Requests
    BY DEF EvalRequest, Requests, Actions
  <1> QED  BY <1>1, <1>2 DEF Requests, Replies

\* An action that reaches the listener leaves the types alone.
LEMMA DeliverType ==
    ASSUME TypeOK, NEW t \in Trees, NEW a \in Actions, Deliver(t, a)
    PROVE  /\ listener' \in {"start", "config", "taking", "evaluating",
                             "finishing"}
           /\ buffer' \in [canTake : BOOLEAN, post : SUBSET Versions,
                           affected : SUBSET JSObjects]
           /\ toWorker' \in Seq(Requests)
           /\ accepted' \subseteq Versions
  <1>1. CASE listener \in {"start", "config"}
    BY <1>1 DEF Deliver, TypeOK
  <1>2. CASE listener = "taking"
    <2>1. EvalRequest(t, a, TRUE) \in Requests
      BY MessageFacts
    <2>2. toWorker' \in {toWorker, Append(toWorker, EvalRequest(t, a, TRUE))}
      BY <1>2 DEF Deliver
    <2>3. toWorker' \in Seq(Requests)
      <3>1. toWorker \in Seq(Requests)
        BY DEF TypeOK
      <3>2. Append(toWorker, EvalRequest(t, a, TRUE)) \in Seq(Requests)
        BY <2>1, <3>1, EnqueueFacts
      <3> QED  BY <2>2, <3>1, <3>2
    <2> QED  BY <1>2, <2>3 DEF Deliver, TypeOK, Actions
  <1>3. CASE listener \in {"evaluating", "finishing"}
    <2>1. /\ buffer' = Merge(buffer, a) /\ accepted' = accepted \cup a.post
          /\ UNCHANGED <<listener, toWorker>>
      BY <1>3 DEF Deliver
    <2>2. Merge(buffer, a) \in [canTake : BOOLEAN, post : SUBSET Versions,
                                affected : SUBSET JSObjects]
      BY DEF Merge, TypeOK, Actions
    <2> QED  BY <2>1, <2>2 DEF TypeOK, Actions
  <1> QED  BY <1>1, <1>2, <1>3 DEF TypeOK

\* A change keeps the types of what it touches.
LEMMA DispatchType ==
    ASSUME TypeInv, NEW b \in Bodies, NEW aff \in SUBSET JSObjects,
           NEW ev \in BOOLEAN, NEW fo \in BOOLEAN, NEW po \in SUBSET Versions,
           Dispatch(b, aff, ev, fo, po),
           saving' \in [JSObjects -> SUBSET Versions]
    PROVE  TypeInv'
  <1> USE EvalAssumption
  <1>1. store.seq \in Nat /\ fetches \in Nat /\ store.seq < MaxChanges
    BY DEF TypeInv, TypeOK, Trees, Versions, Dispatch
  <1>2. Change(b) \in Trees /\ Change(b).seq = store.seq + 1
    BY <1>1 DEF Change, Trees, Versions
  <1>3. Action(ev, aff, fo, po) \in Actions
    BY DEF Action, Actions
  <1>4. Deliver(Change(b), Action(ev, aff, fo, po))
    BY DEF Dispatch
  <1>5. /\ listener' \in {"start", "config", "taking", "evaluating",
                          "finishing"}
        /\ buffer' \in [canTake : BOOLEAN, post : SUBSET Versions,
                        affected : SUBSET JSObjects]
        /\ toWorker' \in Seq(Requests)
        /\ accepted' \subseteq Versions
    <2> HIDE DEF Change
    <2> QED  BY <1>2, <1>3, <1>4, DeliverType DEF TypeInv
  <1>6. TypeOK'
    BY <1>2, <1>5 DEF TypeInv, TypeOK, Dispatch, pageVars
  <1>7. Bounded'
    BY <1>1, <1>2 DEF TypeInv, TypeOK, Bounded, Dispatch, pageVars
  <1> QED  BY <1>6, <1>7 DEF TypeInv

\* The number and the bodies of the next change.
LEMMA NextChange ==
    ASSUME TypeInv, store.seq < MaxChanges
    PROVE  /\ store.seq + 1 \in Versions
           /\ store.body \in Bodies
           /\ \A j \in JSObjects, v \in Versions :
                 [store.body EXCEPT ![j] = v] \in Bodies
  <1>1. store.seq + 1 \in Versions
    BY EvalAssumption DEF TypeInv, TypeOK, Trees, Versions
  <1> QED  BY <1>1 DEF TypeInv, TypeOK, Trees, Bodies

\* Appending to one of the two queues keeps its type.
LEMMA ToWorkerType ==
    ASSUME TypeOK, NEW r \in Requests, toWorker' = Append(toWorker, r)
    PROVE  toWorker' \in Seq(Requests)
  <1>1. toWorker \in Seq(Requests)
    BY DEF TypeOK
  <1> QED  BY <1>1, EnqueueFacts

LEMMA ToMainType ==
    ASSUME TypeOK, NEW m \in Replies, toMain' = Append(toMain, m)
    PROVE  toMain' \in Seq(Replies)
  <1>1. toMain \in Seq(Replies)
    BY DEF TypeOK
  <1> QED  BY <1>1, EnqueueFacts

\* What the heads of the two queues are, if there is one.
LEMMA HeadTypes ==
    ASSUME TypeOK
    PROVE  /\ toWorker # <<>> => /\ Head(toWorker) \in Requests
                                 /\ Tail(toWorker) \in Seq(Requests)
           /\ toMain # <<>> => /\ Head(toMain) \in Replies
                               /\ Tail(toMain) \in Seq(Replies)
  <1>1. toWorker \in Seq(Requests) /\ toMain \in Seq(Replies)
    BY DEF TypeOK
  <1>2. toWorker # <<>> => /\ Head(toWorker) \in Requests
                           /\ Tail(toWorker) \in Seq(Requests)
    BY <1>1, DequeueFacts
  <1>3. toMain # <<>> => /\ Head(toMain) \in Replies
                         /\ Tail(toMain) \in Seq(Replies)
    BY <1>1, DequeueFacts
  <1> QED  BY <1>2, <1>3

\* Every variable keeps its type in every step.
LEMMA TypeStep ==
    ASSUME TypeInv, [Next]_vars
    PROVE  TypeInv'
  <1> USE EvalAssumption
  <1>0. TypeOK /\ Bounded
    BY DEF TypeInv
  <1>1. CASE Edit
    <2>1. store.seq < MaxChanges /\ {store.seq + 1} \in SUBSET Versions
      BY <1>1, NextChange DEF Edit, Dispatch
    <2>2. saving' \in [JSObjects -> SUBSET Versions]
      BY <1>0, <1>1 DEF Edit, TypeOK
    <2> QED  BY <1>1, <2>1, <2>2, NextChange, DispatchType DEF Edit
  <1>2. CASE Library
    <2>1. store.seq < MaxChanges
      BY <1>2 DEF Library, Dispatch
    <2>2. saving' \in [JSObjects -> SUBSET Versions]
      BY <1>0, <1>2 DEF Library, TypeOK
    <2>3. Dispatch(store.body, {}, TRUE, TRUE, {}) /\ store.body \in Bodies
      BY <1>2, <2>1, NextChange DEF Library
    <2>4. {} \in SUBSET JSObjects /\ {} \in SUBSET Versions
      OBVIOUS
    <2> QED  BY <2>2, <2>3, <2>4, DispatchType
  <1>3. ASSUME NEW j \in JSObjects \ Typed, JSChange(j) PROVE TypeInv'
    <2>1. store.seq < MaxChanges /\ store.seq + 1 \in Versions
      BY <1>3, NextChange DEF JSChange, Dispatch
    <2>2. saving' \in [JSObjects -> SUBSET Versions]
      BY <1>0, <1>3 DEF JSChange, TypeOK
    <2>3. [store.body EXCEPT ![j] = store.seq + 1] \in Bodies
      BY <2>1, NextChange
    <2>4. Dispatch([store.body EXCEPT ![j] = store.seq + 1], {j}, TRUE, FALSE, {})
      BY <1>3 DEF JSChange
    <2>5. {j} \in SUBSET JSObjects /\ {} \in SUBSET Versions
      OBVIOUS
    <2> QED  BY <2>2, <2>3, <2>4, <2>5, DispatchType
  <1>4. ASSUME NEW j \in Typed, Type(j) PROVE TypeInv'
    <2>1. store.seq < MaxChanges /\ store.seq + 1 \in Versions
      BY <1>4, NextChange DEF Type, Dispatch
    <2>2. saving' \in [JSObjects -> SUBSET Versions]
      BY <1>0, <1>4, <2>1 DEF Type, TypeOK
    <2>3. [store.body EXCEPT ![j] = store.seq + 1] \in Bodies
      BY <2>1, NextChange
    <2>4. Dispatch([store.body EXCEPT ![j] = store.seq + 1], {}, FALSE, FALSE, {})
      BY <1>4 DEF Type
    <2>5. {} \in SUBSET JSObjects /\ {} \in SUBSET Versions
      OBVIOUS
    <2> QED  BY <2>2, <2>3, <2>4, <2>5, DispatchType
  <1>5. ASSUME NEW j \in Typed, NEW v \in Versions, Saved(j, v) PROVE TypeInv'
    <2>1. store.seq < MaxChanges
      BY <1>5 DEF Saved, Dispatch
    <2>2. saving' \in [JSObjects -> SUBSET Versions]
      BY <1>0, <1>5 DEF Saved, TypeOK
    <2>3. [store.body EXCEPT ![j] = v] \in Bodies
      BY <2>1, NextChange
    <2>4. Dispatch([store.body EXCEPT ![j] = v], {j}, TRUE, FALSE, {})
      BY <1>5 DEF Saved
    <2>5. {j} \in SUBSET JSObjects /\ {} \in SUBSET Versions
      OBVIOUS
    <2> QED  BY <2>2, <2>3, <2>4, <2>5, DispatchType
  <1>6. CASE Trigger
    <2>1. [kind |-> "trigger", tree |-> store] \in Requests
      BY <1>0, MessageFacts DEF TypeOK
    <2>2. toWorker' \in Seq(Requests)
      BY <1>0, <1>6, <2>1, ToWorkerType DEF Trigger
    <2>3. triggers' \in 0..MaxTriggers
      BY <1>0, <1>6 DEF Trigger, TypeOK
    <2> QED  BY <1>0, <1>6, <2>2, <2>3
             DEF Trigger, TypeInv, TypeOK, Bounded, queueVars, pageVars
  <1>7. CASE FetchPage
    <2>1. fetches' \in 0..MaxFetches /\ fetches' = fetches + 1
      BY <1>0, <1>7 DEF FetchPage, TypeOK
    <2>2. shown' \in [version : Versions, whole : BOOLEAN,
                    stale : SUBSET Versions]
      BY <1>7 DEF FetchPage, EmptyTree, Versions
    <2>3. Bounded'
      BY <1>0, <1>7, <2>1 DEF FetchPage, TypeOK, Bounded, Trees, Versions
    <2> QED  BY <1>0, <1>7, <2>1, <2>2, <2>3
             DEF FetchPage, TypeInv, TypeOK, queueVars, threadVars
  <1>8. CASE PageArrives
    <2>1. fetches \in 1..MaxFetches
      BY <1>0, <1>8 DEF PageArrives, TypeOK, Bounded
    <2>2. [kind |-> "clear", fetch |-> fetches] \in Requests
      BY <2>1, MessageFacts
    <2>3. toWorker' \in Seq(Requests)
      BY <1>0, <1>8, <2>2, ToWorkerType DEF PageArrives
    <2> QED  BY <1>0, <1>8, <2>3
             DEF PageArrives, TypeInv, TypeOK, Bounded, queueVars
  <1>9. CASE PageFails
    BY <1>0, <1>9
    DEF PageFails, TypeInv, TypeOK, Bounded, queueVars, threadVars
  <1>10. CASE PageReady
    <2>1. store.seq \in Nat /\ fetches \in 0..MaxFetches
          /\ store.seq < MaxChanges + fetches
      BY <1>0, <1>10 DEF PageReady, TypeOK, Bounded, Trees, Versions
    <2>2. /\ Change(store.body) \in Trees /\ store.seq + 1 \in Versions
          /\ Change(store.body).seq = store.seq + 1
      BY <1>0, <2>1 DEF Change, TypeOK, Trees, Versions
    <2>3. Action(TRUE, JSObjects, FALSE, {store.seq + 1}) \in Actions
      BY <2>2 DEF Action, Actions
    <2>4. /\ listener' \in {"start", "config", "taking", "evaluating",
                            "finishing"}
          /\ buffer' \in [canTake : BOOLEAN, post : SUBSET Versions,
                          affected : SUBSET JSObjects]
          /\ toWorker' \in Seq(Requests)
          /\ accepted' \subseteq Versions
          /\ initAction' \subseteq Versions
      <3>1. CASE listener = "start"
        BY <1>0, <1>10, <2>2, <3>1 DEF PageReady, TypeOK
      <3>2. CASE listener # "start"
        <4>1. Deliver(Change(store.body),
                      Action(TRUE, JSObjects, FALSE, {store.seq + 1}))
              /\ UNCHANGED initAction
          BY <1>10, <3>2 DEF PageReady
        <4> HIDE DEF Change, Action
        <4> QED  BY <1>0, <2>2, <2>3, <4>1, DeliverType DEF TypeOK
      <3> QED  BY <3>1, <3>2
    <2>5. toMain' \in Seq(Replies)
      BY <1>0, <1>10, HeadTypes DEF PageReady
    <2>6. shown' \in [version : Versions, whole : BOOLEAN,
                    stale : SUBSET Versions]
      BY <1>10 DEF PageReady, EmptyTree, Versions
    <2>7. store' = Change(store.body) /\ page' = "idle"
          /\ UNCHANGED <<saving, fetches, triggers, evaluator, done>>
      BY <1>10 DEF PageReady
    <2>8. Bounded'
      BY <2>1, <2>2, <2>7 DEF Bounded
    <2> QED  BY <1>0, <2>2, <2>4, <2>5, <2>6, <2>7, <2>8 DEF TypeInv, TypeOK
  <1>11. CASE IgnoreCleared
    <2>1. toMain' \in Seq(Replies)
      BY <1>0, <1>11, HeadTypes DEF IgnoreCleared
    <2> QED  BY <1>0, <1>11, <2>1
             DEF IgnoreCleared, TypeInv, TypeOK, Bounded, mainVars, pageVars,
                 queueVars
  <1>12. CASE FirstEvaluation
    <2>1. Action(TRUE, JSObjects, FALSE, initAction) \in Actions
      BY <1>0 DEF TypeOK, Action, Actions
    <2>2. EvalRequest(store, Action(TRUE, JSObjects, FALSE, initAction), FALSE)
            \in Requests
      BY <1>0, <2>1, MessageFacts DEF TypeOK
    <2>3. toWorker' \in Seq(Requests)
      BY <1>0, <1>12, <2>2, ToWorkerType DEF FirstEvaluation
    <2> QED  BY <1>0, <1>12, <2>3
             DEF FirstEvaluation, TypeInv, TypeOK, Bounded, pageVars
  <1>13. CASE TakeBuffered
    <2>1. Buffered(buffer) \in Actions
      BY <1>0 DEF TypeOK, Buffered, Action, Actions
    <2>2. EvalRequest(store, Buffered(buffer), TRUE) \in Requests
      BY <1>0, <2>1, MessageFacts DEF TypeOK
    <2>3. toWorker' \in Seq(Requests)
      BY <1>0, <1>13, <2>2, ToWorkerType DEF TakeBuffered
    <2> QED  BY <1>0, <1>13, <2>3
             DEF TakeBuffered, TypeInv, TypeOK, Bounded, pageVars, EmptyBuffer
  <1>14. CASE WaitForAction
    BY <1>0, <1>14
    DEF WaitForAction, TypeInv, TypeOK, Bounded, pageVars, threadVars
  <1>15. CASE EvalTree
    <2>1. /\ Head(toWorker) \in Requests /\ toWorker' \in Seq(Requests)
          /\ Head(toWorker).kind = "eval"
      BY <1>0, <1>15, HeadTypes DEF EvalTree
    <2>2. /\ Head(toWorker).tree \in Trees
          /\ Head(toWorker).affected \in SUBSET JSObjects
          /\ Head(toWorker).post \in SUBSET Versions
          /\ Head(toWorker).awaited \in BOOLEAN
          /\ Head(toWorker).force \in BOOLEAN
      BY <2>1, MessageFacts
    <2>3. toMain' \in Seq(Replies)
      BY <1>0, <1>15, <2>2, MessageFacts, ToMainType DEF EvalTree
    <2>4. Parsed(Head(toWorker).tree, Head(toWorker).affected) \in Bodies
      BY <1>0, <2>2 DEF Parsed, TypeOK, Trees, Bodies
    <2>5. evaluator' \in [exists : BOOLEAN, tree : Trees, parsed : Bodies]
      BY <1>15, <2>2, <2>4 DEF EvalTree, Trees
    <2> QED  BY <1>0, <1>15, <2>1, <2>3, <2>5
             DEF EvalTree, TypeInv, TypeOK, Bounded, mainVars, pageVars,
                 queueVars
  <1>16. CASE EvalTrigger
    <2>1. /\ Head(toWorker) \in Requests /\ toWorker' \in Seq(Requests)
          /\ Head(toWorker).kind = "trigger"
      BY <1>0, <1>16, HeadTypes DEF EvalTrigger
    <2>2. Head(toWorker).tree \in Trees
      BY <2>1, MessageFacts
    <2>3. toMain' \in Seq(Replies)
      <3>1. Reply(Head(toWorker).tree, {}, FALSE, FALSE) \in Replies
        BY <1>0, <2>2, MessageFacts
      <3>2. toMain' = toMain
            \/ toMain' = Append(toMain, Reply(Head(toWorker).tree, {}, FALSE, FALSE))
        BY <1>16 DEF EvalTrigger
      <3> QED  BY <1>0, <3>1, <3>2, ToMainType DEF TypeOK
    <2>4. Parsed(Head(toWorker).tree, JSObjects) \in Bodies
      BY <1>0, <2>2 DEF Parsed, TypeOK, Trees, Bodies
    <2>5. evaluator' \in [exists : BOOLEAN, tree : Trees, parsed : Bodies]
      <3>1. CASE ~evaluator.exists
        BY <1>0, <1>16, <3>1 DEF EvalTrigger, TypeOK
      <3>2. CASE evaluator.exists
        <4>1. evaluator' = [exists |-> TRUE, tree |-> Head(toWorker).tree,
                            parsed |-> Parsed(Head(toWorker).tree, JSObjects)]
          BY <1>16, <3>2 DEF EvalTrigger
        <4> QED  BY <2>2, <2>4, <4>1
      <3> QED  BY <3>1, <3>2
    <2> QED  BY <1>0, <1>16, <2>1, <2>3, <2>5
             DEF EvalTrigger, TypeInv, TypeOK, Bounded, mainVars, pageVars,
                 queueVars
  <1>17. CASE ClearCache
    <2>1. /\ Head(toWorker) \in Requests /\ toWorker' \in Seq(Requests)
          /\ Head(toWorker).kind = "clear"
      BY <1>0, <1>17, HeadTypes DEF ClearCache
    <2>2. Head(toWorker).fetch \in 1..MaxFetches
      BY <2>1, MessageFacts
    <2>3. toMain' \in Seq(Replies)
      BY <1>0, <1>17, <2>2, MessageFacts, ToMainType DEF ClearCache
    <2>4. evaluator' \in [exists : BOOLEAN, tree : Trees, parsed : Bodies]
      BY <1>17 DEF ClearCache, NoTree, Trees, Bodies, Versions
    <2> QED  BY <1>0, <1>17, <2>1, <2>3, <2>4
             DEF ClearCache, TypeInv, TypeOK, Bounded, mainVars, pageVars,
                 queueVars
  <1>18. CASE ReceiveTree
    <2>1. /\ Head(toMain) \in Replies /\ toMain' \in Seq(Replies)
          /\ Head(toMain).kind = "tree"
      BY <1>0, <1>18, HeadTypes DEF ReceiveTree
    <2> DEFINE m == Head(toMain)
               T == [version : Versions, whole : BOOLEAN,
                     stale : SUBSET Versions]
    <2>2. m.version \in Versions /\ m.post \in SUBSET Versions
      BY <2>1, MessageFacts
    <2>3. shown' \in T
      <3>1. shown \in T /\ shown' = Apply(m)
        BY <1>0, <1>18 DEF ReceiveTree, TypeOK
      <3>2. (shown.version + 1)..m.version \subseteq Versions
        BY <2>2, <3>1 DEF Versions
      <3>3. /\ [version |-> m.version, whole |-> TRUE, stale |-> {}] \in T
            /\ [shown EXCEPT !.version = m.version,
                   !.stale = @ \cup (shown.version + 1)..m.version] \in T
            /\ [shown EXCEPT !.version = m.version,
                   !.whole = @ /\ shown.version = m.base] \in T
        <4> HIDE DEF m
        <4> QED  BY <2>2, <3>1, <3>2
      <3> QED  BY <3>1, <3>3 DEF Apply
    <2>4. done' \subseteq Versions
      BY <1>0, <1>18, <2>2 DEF ReceiveTree, PostOf, TypeOK
    <2> QED  BY <1>0, <1>18, <2>1, <2>3, <2>4
             DEF ReceiveTree, TypeInv, TypeOK, Bounded, pageVars
  <1>19. CASE UNCHANGED vars
    BY <1>0, <1>19
    DEF TypeInv, TypeOK, Bounded, vars, mainVars, threadVars, pageVars,
        queueVars
  <1> QED
    BY <1>1, <1>2, <1>3, <1>4, <1>5, <1>6, <1>7, <1>8, <1>9, <1>10, <1>11,
       <1>12, <1>13, <1>14, <1>15, <1>16, <1>17, <1>18, <1>19 DEF Next

LEMMA TypeInit == Init => TypeInv
  <1> SUFFICES ASSUME Init PROVE TypeInv
    OBVIOUS
  <1>1. toWorker \in Seq(Requests) /\ toMain \in Seq(Replies)
    BY EmptySeq DEF Init
  <1>2. NoTree \in Trees /\ NoTree.seq = 0 /\ NoTree.body \in Bodies
    BY EvalAssumption DEF NoTree, Trees, Bodies, Versions
  <1>3. /\ EmptyTree \in [version : Versions, whole : BOOLEAN,
                    stale : SUBSET Versions]
        /\ EmptyBuffer \in [canTake : BOOLEAN, post : SUBSET Versions,
                            affected : SUBSET JSObjects]
    BY EvalAssumption DEF EmptyTree, EmptyBuffer, Versions
  <1>4. TypeOK
    BY <1>1, <1>2, <1>3, EvalAssumption DEF Init, TypeOK
  <1>5. Bounded
    BY <1>2, EvalAssumption DEF Init, Bounded
  <1> QED  BY <1>4, <1>5 DEF TypeInv

THEOREM TypeInvariant == Spec => []TypeInv
  BY TypeInit, TypeStep, PTL DEF Spec

\* Every variable keeps its type, for any number of changes and page fetches.
THEOREM TypeCorrect == Spec => []TypeOK
  <1>1. TypeInv => TypeOK
    BY DEF TypeInv
  <1> QED  BY <1>1, TypeInvariant, PTL

-----------------------------------------------------------------------------
(* The canvas *)

IsTree(k) == toMain[k].kind = "tree"

\* Differences follow the tree they were computed against.
RepliesFollow ==
    \A k \in 2..Len(toMain) : IsTree(k) /\ ~toMain[k].newTree =>
        IsTree(k - 1) /\ toMain[k - 1].version = toMain[k].base

\* Unless a page is fetched, the canvas shows all of the tree with number v.
OnCanvas(v) == page = "idle" => shown.whole /\ shown.version = v

\* The differences that arrive first fit the canvas.
FirstReplyFits ==
    toMain # <<>> /\ IsTree(1) /\ ~toMain[1].newTree => OnCanvas(toMain[1].base)

\* The worker's tree is the last one that was posted, or it is on the canvas.
EvaluatorFits ==
    evaluator.exists =>
        IF toMain = <<>> THEN OnCanvas(evaluator.tree.seq)
        ELSE /\ IsTree(Len(toMain))
             /\ toMain[Len(toMain)].version = evaluator.tree.seq

ShownWhole == page = "idle" => shown.whole

CanvasInv == RepliesFollow /\ FirstReplyFits /\ EvaluatorFits /\ ShownWhole

canvasVars == <<page, shown, toMain, evaluator>>

\* The facts about toMain that the steps of this section use.
LEMMA ToMainFacts ==
    ASSUME TypeOK
    PROVE  /\ Len(toMain) \in Nat
           /\ Len(toMain) = 0 <=> toMain = <<>>
           /\ toMain # <<>> =>
                 /\ Head(toMain) = toMain[1]
                 /\ Len(Tail(toMain)) = Len(toMain) - 1
                 /\ \A k \in 1..Len(Tail(toMain)) :
                       Tail(toMain)[k] = toMain[k + 1]
                 /\ Tail(toMain) = <<>> <=> Len(toMain) = 1
           /\ \A m \in Replies :
                 /\ Len(Append(toMain, m)) = Len(toMain) + 1
                 /\ Append(toMain, m) # <<>>
                 /\ \A k \in 1..Len(toMain) : Append(toMain, m)[k] = toMain[k]
                 /\ Append(toMain, m)[Len(toMain) + 1] = m
  <1>1. toMain \in Seq(Replies)
    BY DEF TypeOK
  <1>2. Len(toMain) \in Nat /\ (Len(toMain) = 0 <=> toMain = <<>>)
    BY <1>1, EmptySeq, LenProperties
  <1>3. ASSUME toMain # <<>>
        PROVE  /\ Head(toMain) = toMain[1]
               /\ Len(Tail(toMain)) = Len(toMain) - 1
               /\ \A k \in 1..Len(Tail(toMain)) : Tail(toMain)[k] = toMain[k + 1]
               /\ Tail(toMain) = <<>> <=> Len(toMain) = 1
    <2>1. Tail(toMain) \in Seq(Replies) /\ Len(Tail(toMain)) = Len(toMain) - 1
      BY <1>1, <1>3, DequeueFacts
    <2>2. Tail(toMain) = <<>> <=> Len(Tail(toMain)) = 0
      BY <2>1, EmptySeq, LenProperties
    <2> QED  BY <1>1, <1>2, <1>3, <2>1, <2>2, DequeueFacts
  <1> QED  BY <1>1, <1>2, <1>3, EnqueueFacts

\* What becomes of the canvas when an answer comes.
LEMMA ApplyFacts ==
    ASSUME TypeOK, NEW m
    PROVE  /\ m.newTree \/ shown.version = m.base =>
                 Apply(m).version = m.version
           /\ m.newTree \/ (shown.whole /\ shown.version = m.base) =>
                 Apply(m).whole
           /\ m.newTree => Apply(m).stale = {}
           /\ ~m.newTree /\ m.anew =>
                 Apply(m).stale =
                    shown.stale \cup (shown.version + 1)..m.version
           /\ ~m.newTree /\ ~m.anew => Apply(m).stale = shown.stale
  <1>1. CASE m.newTree
    BY <1>1 DEF Apply
  <1>2. CASE ~m.newTree /\ m.anew
    <2>1. PICK t : t = (shown.version + 1)..m.version
      OBVIOUS
    <2>2. Apply(m) = [shown EXCEPT !.version = m.version, !.stale = @ \cup t]
      BY <1>2, <2>1 DEF Apply
    <2>3. shown = [version |-> shown.version, whole |-> shown.whole,
                   stale |-> shown.stale]
      BY DEF TypeOK
    <2>4. /\ Apply(m).version = m.version /\ Apply(m).whole = shown.whole
          /\ Apply(m).stale = shown.stale \cup t
      BY <2>2, <2>3
    <2> QED  BY <1>2, <2>1, <2>4
  <1>3. CASE ~m.newTree /\ ~m.anew /\ m.base = m.version
    BY <1>3 DEF Apply
  <1>4. CASE ~m.newTree /\ ~m.anew /\ m.base # m.version
    <2>1. PICK w \in BOOLEAN : w = (shown.whole /\ shown.version = m.base)
      OBVIOUS
    <2>2. shown = [version |-> shown.version, whole |-> shown.whole,
                   stale |-> shown.stale]
      BY DEF TypeOK
    <2>3. Apply(m) = [version |-> m.version, whole |-> w, stale |-> shown.stale]
      BY <1>4, <2>1, <2>2 DEF Apply
    <2>4. /\ Apply(m).version = m.version /\ Apply(m).whole = w
          /\ Apply(m).stale = shown.stale
      BY <2>3
    <2> QED  BY <1>4, <2>1, <2>4, Zenon
  <1> QED  BY <1>1, <1>2, <1>3, <1>4

\* An evaluation posts a tree that follows the last one.
LEMMA AnswerFits ==
    ASSUME TypeOK, CanvasInv, NEW t \in Trees, NEW p \in SUBSET Versions,
           NEW w \in BOOLEAN, NEW f \in BOOLEAN,
           toMain' = Append(toMain, Reply(t, p, w, f)),
           evaluator'.tree = t, UNCHANGED <<page, shown>>
    PROVE  CanvasInv'
  <1> DEFINE m == Reply(t, p, w, f)
             n == Len(toMain)
  <1>1. /\ n \in Nat /\ (n = 0 <=> toMain = <<>>)
        /\ Len(toMain') = n + 1 /\ toMain' # <<>> /\ toMain'[n + 1] = m
        /\ \A k \in 1..n : toMain'[k] = toMain[k]
    BY MessageFacts, ToMainFacts
  <1>2. /\ m.kind = "tree" /\ m.version = t.seq
        /\ ~m.newTree => evaluator.exists /\ m.base = evaluator.tree.seq
    BY DEF Reply
  <1> HIDE DEF m
  <1>3. RepliesFollow'
    BY <1>1, <1>2 DEF CanvasInv, RepliesFollow, EvaluatorFits, IsTree
  <1>4. FirstReplyFits'
    BY <1>1, <1>2
    DEF CanvasInv, FirstReplyFits, EvaluatorFits, IsTree, OnCanvas
  <1>5. EvaluatorFits'
    BY <1>1, <1>2 DEF EvaluatorFits, IsTree
  <1> QED  BY <1>3, <1>4, <1>5 DEF CanvasInv, ShownWhole

\* The canvas after the first message fits the next one.
LEMMA ReceiveFits ==
    ASSUME TypeOK, CanvasInv, ReceiveTree
    PROVE  /\ CanvasInv'
           /\ page = "idle" => shown'.version = Head(toMain).version
  <1> DEFINE n == Len(toMain)
  <1>1. /\ n \in Nat /\ n >= 1 /\ toMain # <<>>
        /\ Head(toMain) = toMain[1] /\ toMain[1].kind = "tree"
        /\ Len(toMain') = n - 1 /\ (toMain' = <<>> <=> n = 1)
        /\ \A k \in 1..n - 1 : toMain'[k] = toMain[k + 1]
    BY ToMainFacts DEF ReceiveTree
  <1>2. /\ shown' = Apply(toMain[1])
        /\ UNCHANGED <<page, evaluator>>
    BY <1>1 DEF ReceiveTree, pageVars
  <1>3. page = "idle" => shown'.whole /\ shown'.version = toMain[1].version
    <2> DEFINE m == toMain[1]
    <2>1. shown' = Apply(m)
      BY <1>2
    <2>2. page = "idle" => /\ shown.whole
                           /\ ~m.newTree => shown.version = m.base
      BY <1>1 DEF CanvasInv, FirstReplyFits, ShownWhole, IsTree, OnCanvas
    <2> HIDE DEF m
    <2> QED  BY <2>1, <2>2, ApplyFacts DEF m
  <1>4. RepliesFollow'
    <2> SUFFICES ASSUME NEW k \in 2..n - 1,
                        toMain[k + 1].kind = "tree", ~toMain[k + 1].newTree
                 PROVE  /\ toMain[k].kind = "tree"
                        /\ toMain[k].version = toMain[k + 1].base
      BY <1>1 DEF RepliesFollow, IsTree
    <2>1. k + 1 \in 2..n /\ (k + 1) - 1 = k
      BY <1>1
    <2> QED  BY <2>1 DEF CanvasInv, RepliesFollow, IsTree
  <1>5. FirstReplyFits'
    <2> SUFFICES ASSUME n > 1, toMain[2].kind = "tree", ~toMain[2].newTree,
                        page = "idle"
                 PROVE  shown'.whole /\ shown'.version = toMain[2].base
      BY <1>1, <1>2 DEF FirstReplyFits, IsTree, OnCanvas
    <2>1. toMain[1].version = toMain[2].base
      <3>1. 2 \in 2..n /\ 2 - 1 = 1
        BY <1>1
      <3> QED  BY <3>1 DEF CanvasInv, RepliesFollow, IsTree
    <2> QED  BY <1>3, <2>1
  <1>6. EvaluatorFits'
    BY <1>1, <1>2, <1>3 DEF CanvasInv, EvaluatorFits, IsTree, OnCanvas
  <1>7. ShownWhole'
    BY <1>2, <1>3 DEF ShownWhole
  <1> QED  BY <1>1, <1>3, <1>4, <1>5, <1>6, <1>7 DEF CanvasInv

\* Taking a "cleared" message off the queue: no differences come next.
LEMMA ClearedFits ==
    ASSUME TypeOK, CanvasInv, toMain # <<>>, Head(toMain).kind = "cleared",
           toMain' = Tail(toMain), UNCHANGED evaluator, ShownWhole'
    PROVE  CanvasInv'
  <1> DEFINE n == Len(toMain)
  <1>1. /\ n \in Nat /\ n >= 1
        /\ toMain[1].kind = "cleared"
        /\ Len(toMain') = n - 1 /\ (toMain' = <<>> <=> n = 1)
        /\ \A k \in 1..n - 1 : toMain'[k] = toMain[k + 1]
    BY ToMainFacts
  <1>2. RepliesFollow'
    BY <1>1 DEF CanvasInv, RepliesFollow, IsTree
  <1>3. FirstReplyFits'
    <2> SUFFICES ASSUME n > 1, toMain[2].kind = "tree", ~toMain[2].newTree
                 PROVE  FALSE
      BY <1>1 DEF FirstReplyFits, IsTree
    <2>1. 2 \in 2..n /\ 2 - 1 = 1
      BY <1>1
    <2> QED  BY <1>1, <2>1 DEF CanvasInv, RepliesFollow, IsTree
  <1>4. EvaluatorFits'
    BY <1>1 DEF CanvasInv, EvaluatorFits, IsTree
  <1> QED  BY <1>2, <1>3, <1>4 DEF CanvasInv

LEMMA CanvasStep ==
    ASSUME TypeOK, CanvasInv, [Next]_vars
    PROVE  CanvasInv'
  <1>1. CASE UNCHANGED canvasVars
    BY <1>1 DEF canvasVars, CanvasInv, RepliesFollow, FirstReplyFits,
                EvaluatorFits, ShownWhole, IsTree, OnCanvas
  <1>2. CASE FetchPage \/ PageArrives \/ PageFails
    <2>1. page' # "idle" /\ UNCHANGED <<toMain, evaluator>>
      BY <1>2 DEF FetchPage, PageArrives, PageFails, threadVars
    <2> QED  BY <2>1 DEF CanvasInv, RepliesFollow, FirstReplyFits,
                         EvaluatorFits, ShownWhole, IsTree, OnCanvas
  <1>3. CASE PageReady
    <2>1. ShownWhole'
      BY <1>3 DEF PageReady, ShownWhole, EmptyTree
    <2> QED  BY <1>3, <2>1, ClearedFits DEF PageReady
  <1>4. CASE IgnoreCleared
    <2>1. ShownWhole'
      BY <1>4 DEF IgnoreCleared, CanvasInv, ShownWhole, mainVars, pageVars
    <2> QED  BY <1>4, <2>1, ClearedFits DEF IgnoreCleared
  <1>5. CASE EvalTree
    <2>1. /\ Head(toWorker).tree \in Trees
          /\ Head(toWorker).post \in SUBSET Versions
          /\ Head(toWorker).awaited \in BOOLEAN
          /\ Head(toWorker).force \in BOOLEAN
      BY <1>5, HeadTypes, MessageFacts DEF EvalTree
    <2>2. /\ toMain' = Append(toMain,
                  Reply(Head(toWorker).tree, Head(toWorker).post,
                        Head(toWorker).awaited, Head(toWorker).force))
          /\ evaluator'.tree = Head(toWorker).tree
          /\ UNCHANGED <<page, shown>>
      BY <1>5 DEF EvalTree, mainVars, pageVars
    <2> QED  BY <2>1, <2>2, AnswerFits
  <1>6. CASE EvalTrigger /\ evaluator.exists
    <2>1. Head(toWorker).tree \in Trees
      BY <1>6, HeadTypes, MessageFacts DEF EvalTrigger
    <2>2. /\ toMain' = Append(toMain, Reply(Head(toWorker).tree, {}, FALSE, FALSE))
          /\ evaluator'.tree = Head(toWorker).tree
          /\ UNCHANGED <<page, shown>>
      <3>1. EvalTrigger /\ evaluator.exists
        BY <1>6
      <3>2. /\ evaluator' = [exists |-> TRUE, tree |-> Head(toWorker).tree,
                             parsed |-> Parsed(Head(toWorker).tree, JSObjects)]
            /\ toMain' = Append(toMain, Reply(Head(toWorker).tree, {}, FALSE, FALSE))
            /\ UNCHANGED mainVars
        BY <3>1, Zenon DEF EvalTrigger
      <3> QED  BY <3>2 DEF mainVars, pageVars
    <2> QED  BY <2>1, <2>2, AnswerFits
  <1>7. CASE ClearCache
    <2>1. Head(toWorker).fetch \in 1..MaxFetches
      BY <1>7, HeadTypes, MessageFacts DEF ClearCache
    <2> DEFINE m == [kind |-> "cleared", fetch |-> Head(toWorker).fetch]
    <2>2. /\ m.kind = "cleared" /\ Len(toMain) \in Nat
          /\ Len(toMain') = Len(toMain) + 1 /\ toMain' # <<>>
          /\ \A k \in 1..Len(toMain) : toMain'[k] = toMain[k]
          /\ toMain'[Len(toMain) + 1] = m
          /\ Len(toMain) = 0 <=> toMain = <<>>
      BY <1>7, <2>1, MessageFacts, ToMainFacts DEF ClearCache
    <2> HIDE DEF m
    <2>3. ~evaluator'.exists /\ UNCHANGED <<page, shown>>
      BY <1>7 DEF ClearCache, mainVars, pageVars
    <2>4. RepliesFollow'
      BY <2>2 DEF CanvasInv, RepliesFollow, IsTree
    <2>5. FirstReplyFits'
      BY <2>2, <2>3 DEF CanvasInv, FirstReplyFits, IsTree, OnCanvas
    <2> QED  BY <2>3, <2>4, <2>5
             DEF CanvasInv, EvaluatorFits, ShownWhole
  <1>8. CASE ReceiveTree
    BY <1>8, ReceiveFits
  <1>9. CASE EvalTrigger /\ ~evaluator.exists
    BY <1>1, <1>9 DEF EvalTrigger, canvasVars, mainVars, pageVars
  <1>10. CASE \/ Edit \/ Library \/ Trigger \/ FirstEvaluation \/ TakeBuffered
              \/ WaitForAction \/ UNCHANGED vars
              \/ \E j \in JSObjects \ Typed : JSChange(j)
              \/ \E j \in Typed : Type(j)
              \/ \E j \in Typed, v \in Versions : Saved(j, v)
    <2>1. UNCHANGED canvasVars
      BY <1>10 DEF Edit, Library, Trigger, FirstEvaluation, TakeBuffered,
                   WaitForAction, JSChange, Type, Saved, Dispatch, canvasVars,
                   vars, mainVars, threadVars, pageVars
    <2> QED  BY <1>1, <2>1
  <1> QED
    BY <1>2, <1>3, <1>4, <1>5, <1>6, <1>7, <1>8, <1>9, <1>10 DEF Next

LEMMA CanvasInit == Init => CanvasInv
  BY EmptySeq
  DEF Init, CanvasInv, RepliesFollow, FirstReplyFits, EvaluatorFits,
      ShownWhole, EmptyTree

-----------------------------------------------------------------------------
(* Post-eval actions *)

\* A post-eval action travels with a tree that has the change it came with.
RequestPosts ==
    \A i \in 1..Len(toWorker) :
        toWorker[i].kind = "eval" =>
            toWorker[i].post \subseteq 0..toWorker[i].tree.seq
ReplyPosts ==
    \A i \in 1..Len(toMain) :
        IsTree(i) => toMain[i].post \subseteq 0..toMain[i].version
ListenerPosts ==
    buffer.post \subseteq 0..store.seq /\ initAction \subseteq 0..store.seq

PostsInv == RequestPosts /\ ReplyPosts /\ ListenerPosts

\* The facts about toWorker that the steps of the next sections use.
LEMMA ToWorkerFacts ==
    ASSUME TypeOK
    PROVE  /\ Len(toWorker) \in Nat
           /\ \A i \in 1..Len(toWorker) : toWorker[i] \in Requests
           /\ toWorker # <<>> =>
                 /\ Len(toWorker) >= 1 /\ Head(toWorker) = toWorker[1]
                 /\ Len(Tail(toWorker)) = Len(toWorker) - 1
                 /\ \A k \in 1..Len(toWorker) - 1 :
                       Tail(toWorker)[k] = toWorker[k + 1]
           /\ \A r \in Requests :
                 /\ Len(Append(toWorker, r)) = Len(toWorker) + 1
                 /\ \A k \in 1..Len(toWorker) :
                       Append(toWorker, r)[k] = toWorker[k]
                 /\ Append(toWorker, r)[Len(toWorker) + 1] = r
  <1>1. toWorker \in Seq(Requests)
    BY DEF TypeOK
  <1>2. Len(toWorker) \in Nat /\ \A i \in 1..Len(toWorker) : toWorker[i] \in Requests
    BY <1>1, ElementOfSeq, LenProperties
  <1>3. toWorker # <<>> =>
           /\ Len(toWorker) >= 1 /\ Head(toWorker) = toWorker[1]
           /\ Len(Tail(toWorker)) = Len(toWorker) - 1
           /\ \A k \in 1..Len(toWorker) - 1 : Tail(toWorker)[k] = toWorker[k + 1]
    BY <1>1, DequeueFacts
  <1> QED  BY <1>1, <1>2, <1>3, EnqueueFacts

\* Sending a request whose post-eval actions its tree has.
LEMMA RequestPostsKept ==
    ASSUME TypeOK, RequestPosts, NEW r \in Requests,
           toWorker' = Append(toWorker, r),
           r.kind = "eval" => r.post \subseteq 0..r.tree.seq
    PROVE  RequestPosts'
  BY ToWorkerFacts DEF RequestPosts

\* An action is delivered with the state it led to.
LEMMA DeliverPosts ==
    ASSUME TypeOK, PostsInv, NEW t \in Trees, NEW a \in Actions, Deliver(t, a),
           t.seq = store.seq + 1, store' = t, a.post \subseteq 0..t.seq,
           initAction' \subseteq 0..t.seq
    PROVE  RequestPosts' /\ ListenerPosts'
  <1>1. store.seq \in Nat
    BY DEF TypeOK, Trees, Versions
  <1>2. buffer'.post \subseteq 0..t.seq
    <2>1. buffer' = buffer \/ buffer' = Merge(buffer, a)
      BY DEF Deliver
    <2>2. buffer'.post \subseteq buffer.post \cup a.post
      BY <2>1 DEF Merge
    <2> QED  BY <1>1, <2>2 DEF PostsInv, ListenerPosts
  <1>3. RequestPosts'
    <2>1. CASE toWorker' = toWorker
      BY <2>1 DEF PostsInv, RequestPosts
    <2>2. CASE toWorker' = Append(toWorker, EvalRequest(t, a, TRUE))
      <3>1. /\ EvalRequest(t, a, TRUE) \in Requests
            /\ EvalRequest(t, a, TRUE).post = a.post
            /\ EvalRequest(t, a, TRUE).tree = t
        BY MessageFacts DEF EvalRequest
      <3> QED  BY <2>2, <3>1, RequestPostsKept DEF PostsInv
    <2> QED  BY <2>1, <2>2 DEF Deliver
  <1> QED  BY <1>2, <1>3 DEF ListenerPosts

LEMMA DispatchPosts ==
    ASSUME TypeInv, PostsInv,
           NEW b \in Bodies, NEW aff \in SUBSET JSObjects, NEW ev \in BOOLEAN,
           NEW fo \in BOOLEAN, NEW po \in SUBSET {store.seq + 1},
           Dispatch(b, aff, ev, fo, po)
    PROVE  PostsInv'
  <1>1. TypeOK /\ store.seq \in Nat /\ store.seq + 1 \in Versions
    <2>1. store.seq + 1 \in Versions
      BY NextChange DEF Dispatch
    <2>2. TypeOK /\ store \in Trees
      BY DEF TypeInv, TypeOK
    <2> QED  BY <2>1, <2>2 DEF Trees, Versions
  <1>2. Change(b) \in Trees /\ Change(b).seq = store.seq + 1
    BY <1>1 DEF Change, Trees
  <1>3. /\ Action(ev, aff, fo, po) \in Actions
        /\ Action(ev, aff, fo, po).post \subseteq 0..store.seq + 1
    BY <1>1 DEF Action, Actions
  <1>4. /\ Deliver(Change(b), Action(ev, aff, fo, po))
        /\ store' = Change(b) /\ UNCHANGED <<initAction, toMain>>
    BY DEF Dispatch
  <1>5. initAction' \subseteq 0..store.seq + 1
    BY <1>1, <1>4 DEF PostsInv, ListenerPosts
  <1>6. RequestPosts' /\ ListenerPosts'
    <2> HIDE DEF Change, Action
    <2> QED  BY <1>1, <1>2, <1>3, <1>4, <1>5, DeliverPosts
  <1>7. ReplyPosts'
    BY <1>4 DEF PostsInv, ReplyPosts, IsTree
  <1> QED  BY <1>6, <1>7 DEF PostsInv

\* What the user and the server change is dispatched with the number of the
\* change, and what is not evaluated has no post-eval actions.
LEMMA ChangesDispatch ==
    ASSUME TypeInv,
           \/ Edit \/ Library
           \/ \E j \in JSObjects \ Typed : JSChange(j)
           \/ \E j \in Typed : Type(j)
           \/ \E j \in Typed, v \in Versions : Saved(j, v)
    PROVE  \E b \in Bodies, aff \in SUBSET JSObjects, ev \in BOOLEAN,
              fo \in BOOLEAN, po \in SUBSET {store.seq + 1} :
                /\ Dispatch(b, aff, ev, fo, po)
                /\ (ev \/ po = {}) /\ (fo => po = {})
  <1>1. store.seq < MaxChanges
    BY DEF Edit, Library, JSChange, Type, Saved, Dispatch
  <1>2. /\ store.body \in Bodies /\ store.seq + 1 \in Versions
        /\ \A j \in JSObjects, v \in Versions :
              [store.body EXCEPT ![j] = v] \in Bodies
    BY <1>1, NextChange
  <1>3. /\ {} \in SUBSET JSObjects /\ {} \in SUBSET {store.seq + 1}
        /\ {store.seq + 1} \in SUBSET {store.seq + 1}
        /\ \A j \in JSObjects : {j} \in SUBSET JSObjects
    OBVIOUS
  <1> DEFINE Dispatched == \E b \in Bodies, aff \in SUBSET JSObjects, ev \in BOOLEAN,
                              fo \in BOOLEAN, po \in SUBSET {store.seq + 1} :
                                /\ Dispatch(b, aff, ev, fo, po)
                                /\ (ev \/ po = {}) /\ (fo => po = {})
  <1>4. CASE Edit
    BY <1>2, <1>3, <1>4 DEF Edit
  <1>5. CASE Library
    BY <1>2, <1>3, <1>5 DEF Library
  <1>6. ASSUME NEW j \in JSObjects \ Typed, JSChange(j)
        PROVE  Dispatched
    <2>1. Dispatch([store.body EXCEPT ![j] = store.seq + 1], {j}, TRUE, FALSE, {})
      BY <1>6 DEF JSChange
    <2> QED  BY <1>2, <1>3, <2>1
  <1>7. ASSUME NEW j \in Typed, Type(j)
        PROVE  Dispatched
    <2>1. Dispatch([store.body EXCEPT ![j] = store.seq + 1], {}, FALSE, FALSE, {})
      BY <1>7 DEF Type
    <2> QED  BY <1>2, <1>3, <2>1, EvalAssumption
  <1>8. ASSUME NEW j \in Typed, NEW v \in Versions, Saved(j, v)
        PROVE  Dispatched
    <2>1. Dispatch([store.body EXCEPT ![j] = v], {j}, TRUE, FALSE, {})
      BY <1>8 DEF Saved
    <2> QED  BY <1>2, <1>3, <2>1, EvalAssumption
  <1> QED  BY <1>4, <1>5, <1>6, <1>7, <1>8

LEMMA PostsStep ==
    ASSUME TypeInv, PostsInv, [Next]_vars
    PROVE  PostsInv'
  <1>0. TypeOK /\ RequestPosts /\ ReplyPosts /\ ListenerPosts
    BY DEF TypeInv, PostsInv
  <1>1. CASE \/ Edit \/ Library
             \/ \E j \in JSObjects \ Typed : JSChange(j)
             \/ \E j \in Typed : Type(j)
             \/ \E j \in Typed, v \in Versions : Saved(j, v)
    <2>1. PICK b \in Bodies, aff \in SUBSET JSObjects, ev \in BOOLEAN,
               fo \in BOOLEAN, po \in SUBSET {store.seq + 1} :
                 Dispatch(b, aff, ev, fo, po)
      BY <1>1, ChangesDispatch
    <2> QED  BY <2>1, DispatchPosts
  <1>2. CASE Trigger
    <2>1. [kind |-> "trigger", tree |-> store] \in Requests
      BY <1>0, MessageFacts DEF TypeOK
    <2>2. RequestPosts'
      BY <1>0, <1>2, <2>1, RequestPostsKept DEF Trigger
    <2> QED  BY <1>0, <1>2, <2>2
             DEF Trigger, PostsInv, ReplyPosts, ListenerPosts, IsTree, queueVars
  <1>3. CASE PageArrives
    <2>1. [kind |-> "clear", fetch |-> fetches] \in Requests
      <3>1. fetches \in 1..MaxFetches
        BY <1>0, <1>3, EvalAssumption DEF TypeInv, TypeOK, Bounded, PageArrives
      <3> QED  BY <3>1, MessageFacts
    <2>2. RequestPosts'
      BY <1>0, <1>3, <2>1, RequestPostsKept DEF PageArrives
    <2> QED  BY <1>0, <1>3, <2>2
             DEF PageArrives, PostsInv, ReplyPosts, ListenerPosts, IsTree,
                 queueVars
  <1>4. CASE PageReady
    <2>1. store.seq \in Nat /\ store.seq + 1 \in Versions
      BY <1>4, EvalAssumption
      DEF TypeInv, TypeOK, Bounded, PageReady, Trees, Versions
    <2>2. Change(store.body) \in Trees /\ Change(store.body).seq = store.seq + 1
      BY <1>0, <2>1 DEF Change, TypeOK, Trees
    <2>3. ReplyPosts'
      BY <1>0, <1>4, ToMainFacts DEF PageReady, ReplyPosts, IsTree
    <2>4. CASE listener = "start"
      <3>1. /\ store' = Change(store.body) /\ initAction' = {store.seq + 1}
            /\ UNCHANGED <<buffer, toWorker>>
        BY <1>4, <2>4 DEF PageReady
      <3>2. ListenerPosts'
        BY <1>0, <2>1, <2>2, <3>1 DEF ListenerPosts
      <3> QED  BY <1>0, <2>3, <3>1, <3>2 DEF PostsInv, RequestPosts
    <2>5. CASE listener # "start"
      <3> DEFINE a == Action(TRUE, JSObjects, FALSE, {store.seq + 1})
      <3>1. a \in Actions /\ a.post \subseteq 0..store.seq + 1
        BY <2>1 DEF Action, Actions
      <3>2. /\ store' = Change(store.body) /\ UNCHANGED initAction
            /\ Deliver(Change(store.body), a)
        BY <1>4, <2>5 DEF PageReady
      <3>3. initAction' \subseteq 0..store.seq + 1
        BY <1>0, <2>1, <3>2 DEF ListenerPosts
      <3> HIDE DEF a, Change
      <3>4. RequestPosts' /\ ListenerPosts'
        BY <1>0, <2>2, <3>1, <3>2, <3>3, DeliverPosts
      <3> QED  BY <2>3, <3>4 DEF PostsInv
    <2> QED  BY <2>4, <2>5
  <1>5. CASE IgnoreCleared
    <2>1. ReplyPosts'
      BY <1>0, <1>5, ToMainFacts DEF IgnoreCleared, ReplyPosts, IsTree
    <2> QED  BY <1>0, <1>5, <2>1
             DEF IgnoreCleared, PostsInv, RequestPosts, ListenerPosts, mainVars,
                 queueVars
  <1>6. CASE FirstEvaluation
    <2> DEFINE a == Action(TRUE, JSObjects, FALSE, initAction)
               r == EvalRequest(store, a, FALSE)
    <2>1. a \in Actions
      BY <1>0 DEF TypeOK, Action, Actions
    <2>2. r \in Requests
      <3> HIDE DEF a
      <3> QED  BY <1>0, <2>1, MessageFacts DEF TypeOK
    <2>3. r.tree = store /\ r.post = initAction
      BY DEF EvalRequest, Action
    <2>4. toWorker' = Append(toWorker, r) /\ initAction' = {}
          /\ UNCHANGED <<store, buffer, toMain>>
      BY <1>6 DEF FirstEvaluation
    <2> HIDE DEF r
    <2>5. RequestPosts'
      BY <1>0, <2>2, <2>3, <2>4, RequestPostsKept DEF ListenerPosts
    <2> QED  BY <1>0, <2>4, <2>5
             DEF PostsInv, ReplyPosts, ListenerPosts, IsTree
  <1>7. CASE TakeBuffered
    <2> DEFINE r == EvalRequest(store, Buffered(buffer), TRUE)
    <2>1. Buffered(buffer) \in Actions /\ Buffered(buffer).post = buffer.post
      BY <1>0 DEF TypeOK, Buffered, Action, Actions
    <2>2. r \in Requests
      BY <1>0, <2>1, MessageFacts DEF TypeOK
    <2>3. r.tree = store /\ r.post = buffer.post
      BY <2>1 DEF EvalRequest
    <2>4. toWorker' = Append(toWorker, r) /\ buffer'.post = {}
          /\ UNCHANGED <<store, initAction, toMain>>
      BY <1>7 DEF TakeBuffered, EmptyBuffer
    <2> HIDE DEF r
    <2>5. RequestPosts'
      BY <1>0, <2>2, <2>3, <2>4, RequestPostsKept DEF ListenerPosts
    <2> QED  BY <1>0, <2>4, <2>5
             DEF PostsInv, ReplyPosts, ListenerPosts, IsTree
  <1>8. CASE EvalTree
    <2> DEFINE r == Head(toWorker)
               m == Reply(r.tree, r.post, r.awaited, r.force)
    <2>1. /\ r = toWorker[1] /\ r \in Requests /\ r.kind = "eval"
          /\ r.post \subseteq 0..r.tree.seq
      BY <1>0, <1>8, ToWorkerFacts DEF EvalTree, RequestPosts
    <2>2. m \in Replies
      BY <1>0, <2>1, MessageFacts
    <2>3. m.post = r.post /\ m.version = r.tree.seq
      BY DEF Reply
    <2>4. toMain' = Append(toMain, m) /\ toWorker' = Tail(toWorker)
          /\ UNCHANGED mainVars
      BY <1>8 DEF EvalTree
    <2>5. RequestPosts'
      BY <1>0, <1>8, <2>4, ToWorkerFacts DEF EvalTree, RequestPosts
    <2>6. ReplyPosts'
      <3> HIDE DEF m
      <3> QED  BY <1>0, <2>1, <2>2, <2>3, <2>4, ToMainFacts
               DEF ReplyPosts, IsTree
    <2> QED  BY <1>0, <2>4, <2>5, <2>6
             DEF PostsInv, ListenerPosts, mainVars, queueVars
  <1>9. CASE EvalTrigger
    <2> DEFINE r == Head(toWorker)
               m == Reply(r.tree, {}, FALSE, FALSE)
    <2>1. r \in Requests /\ r.kind = "trigger"
      BY <1>0, <1>9, ToWorkerFacts, HeadTypes DEF EvalTrigger
    <2>2. m \in Replies
      BY <1>0, <2>1, MessageFacts
    <2>3. m.post = {}
      BY DEF Reply
    <2>4. /\ toMain' = toMain \/ toMain' = Append(toMain, m)
          /\ toWorker # <<>> /\ toWorker' = Tail(toWorker)
          /\ UNCHANGED mainVars
      BY <1>9 DEF EvalTrigger
    <2>5. RequestPosts'
      BY <1>0, <2>4, ToWorkerFacts DEF RequestPosts
    <2>6. ReplyPosts'
      <3> HIDE DEF m
      <3>1. CASE toMain' = toMain
        BY <1>0, <3>1 DEF ReplyPosts, IsTree
      <3>2. CASE toMain' = Append(toMain, m)
        BY <1>0, <2>2, <2>3, <3>2, ToMainFacts DEF ReplyPosts, IsTree
      <3> QED  BY <2>4, <3>1, <3>2
    <2> QED  BY <1>0, <2>4, <2>5, <2>6
             DEF PostsInv, ListenerPosts, mainVars, queueVars
  <1>10. CASE ClearCache
    <2> DEFINE m == [kind |-> "cleared", fetch |-> Head(toWorker).fetch]
    <2>1. m \in Replies /\ m.kind = "cleared"
      BY <1>0, <1>10, HeadTypes, MessageFacts DEF ClearCache
    <2>2. /\ toMain' = Append(toMain, m)
          /\ toWorker # <<>> /\ toWorker' = Tail(toWorker)
          /\ UNCHANGED mainVars
      BY <1>10 DEF ClearCache
    <2>3. RequestPosts'
      BY <1>0, <2>2, ToWorkerFacts DEF RequestPosts
    <2>4. ReplyPosts'
      <3> HIDE DEF m
      <3> QED  BY <1>0, <2>1, <2>2, ToMainFacts DEF ReplyPosts, IsTree
    <2> QED  BY <1>0, <2>2, <2>3, <2>4
             DEF PostsInv, ListenerPosts, mainVars, queueVars
  <1>11. CASE ReceiveTree
    <2>1. ReplyPosts'
      BY <1>0, <1>11, ToMainFacts DEF ReceiveTree, ReplyPosts, IsTree
    <2> QED  BY <1>0, <1>11, <2>1
             DEF ReceiveTree, PostsInv, RequestPosts, ListenerPosts
  <1>12. CASE FetchPage \/ PageFails \/ WaitForAction \/ UNCHANGED vars
    BY <1>0, <1>12
    DEF FetchPage, PageFails, WaitForAction, vars, mainVars, threadVars,
        queueVars, PostsInv, RequestPosts, ReplyPosts, ListenerPosts, IsTree
  <1> QED
    BY <1>1, <1>2, <1>3, <1>4, <1>5, <1>6, <1>7, <1>8, <1>9, <1>10, <1>11,
       <1>12 DEF Next

LEMMA PostsInit == Init => PostsInv
  BY EmptySeq
  DEF Init, PostsInv, RequestPosts, ReplyPosts, ListenerPosts, IsTree,
      EmptyBuffer

\* Only an answer dispatches post-eval actions, after its tree.
LEMMA PostsWait ==
    ASSUME TypeInv, CanvasInv, PostsInv, Next
    PROVE  page = "idle" => \A p \in done' \ done : shown'.version >= p
  <1>0. TypeOK
    BY DEF TypeInv
  <1>1. CASE ReceiveTree
    <2> SUFFICES ASSUME page = "idle", NEW p \in done' \ done
                 PROVE  shown'.version >= p
      OBVIOUS
    <2>1. /\ Head(toMain) = toMain[1] /\ IsTree(1) /\ 1 \in 1..Len(toMain)
          /\ Head(toMain).version \in Versions
      BY <1>0, <1>1, ToMainFacts, HeadTypes, MessageFacts
      DEF ReceiveTree, IsTree
    <2>2. p \in 0..Head(toMain).version
      BY <1>1, <2>1 DEF ReceiveTree, PostOf, PostsInv, ReplyPosts
    <2>3. shown'.version = Head(toMain).version
      BY <1>0, <1>1, ReceiveFits
    <2> QED  BY <2>1, <2>2, <2>3 DEF Versions
  <1>2. CASE ~ReceiveTree
    <2>1. done' = done
      BY <1>2
      DEF Next, Edit, Library, JSChange, Type, Saved, Dispatch, Trigger,
          FetchPage, PageArrives, PageFails, PageReady, IgnoreCleared,
          FirstEvaluation, TakeBuffered, WaitForAction, EvalTree, EvalTrigger,
          ClearCache, mainVars
    <2> QED  BY <2>1
  <1> QED  BY <1>1, <1>2

\* A post-eval action is dispatched after the canvas has the change it came
\* with, unless a page is being fetched.
THEOREM PostEvalWaits == Spec => PostEvalAfterTree
  <1>1. TypeInv => TypeOK
    BY DEF TypeInv
  <1>2. Spec => []CanvasInv
    BY <1>1, CanvasInit, CanvasStep, TypeInvariant, PTL DEF Spec
  <1>3. Spec => []PostsInv
    BY PostsInit, PostsStep, TypeInvariant, PTL DEF Spec
  <1>4. TypeInv /\ CanvasInv /\ PostsInv /\ [Next]_vars =>
           [page = "idle" => \A p \in done' \ done : shown'.version >= p]_vars
    BY PostsWait
  <1> QED
    BY <1>2, <1>3, <1>4, TypeInvariant, PTL DEF Spec, PostEvalAfterTree

-----------------------------------------------------------------------------
(* The bodies the worker runs *)

Untyped == JSObjects \ Typed

\* The JS objects whose body an evaluation compares or parses.
Reparsed(r) ==
    {j \in JSObjects : \/ r.kind = "trigger"
                       \/ r.kind = "eval" /\ (r.force \/ j \in r.affected)}

\* The trees of evaluator e and of the requests of queue q, in order.
HasTree(e, q, i) == IF i = 0 THEN e.exists ELSE q[i].kind # "clear"
BodyOf(e, q, i, j) == IF i = 0 THEN e.tree.body[j] ELSE q[i].tree.body[j]

\* A request of q after the i-th, up to the k-th, names j.
Named(q, i, k, j) == \E m \in i + 1..k : j \in Reparsed(q[m])

\* Between two trees, every changed body is named.
Chain(e, q) ==
    \A k \in 1..Len(q) : \A i \in 0..k - 1, j \in Untyped :
        /\ HasTree(e, q, i) /\ HasTree(e, q, k)
        /\ BodyOf(e, q, i, j) # BodyOf(e, q, k, j)
        => Named(q, i, k, j)

\* Between a tree and the bodies b, those in x excepted.
Reaches(e, q, b, x) ==
    \A i \in 0..Len(q), j \in Untyped :
        HasTree(e, q, i) /\ BodyOf(e, q, i, j) # b[j] =>
            j \in x \/ Named(q, i, Len(q), j)

Starting == listener \in {"start", "config"}

NothingYet ==
    Starting => /\ ~evaluator.exists
                /\ \A i \in 1..Len(toWorker) : toWorker[i].kind # "eval"
                /\ \A i \in 1..Len(toMain) : toMain[i].kind = "cleared"

BufferEmpty ==
    Starting \/ listener = "taking" \/ ~buffer.canTake => buffer = EmptyBuffer

RequestsName == Chain(evaluator, toWorker)

\* What no request names yet, the buffer does.
StoreNamed ==
    ~Starting => Reaches(evaluator, toWorker, store.body, buffer.affected)

NamingInv ==
    NothingYet /\ BufferEmpty /\ RequestsName /\ StoreNamed /\ JSParsed

\* A request that is appended names what it brings.
LEMMA PostNames ==
    ASSUME NEW e, NEW q \in Seq(Requests), NEW r \in Requests,
           r.kind # "clear", Chain(e, q),
           Reaches(e, q, r.tree.body, Reparsed(r))
    PROVE  /\ Chain(e, Append(q, r))
           /\ Reaches(e, Append(q, r), r.tree.body, {})
  <1> DEFINE n == Len(q)
             p == Append(q, r)
  <1>1. /\ n \in Nat /\ Len(p) = n + 1 /\ p[n + 1] = r
        /\ \A k \in 1..n : p[k] = q[k]
    BY EnqueueFacts
  <1> HIDE DEF p
  <1>2. ASSUME NEW i \in 0..n
        PROVE  /\ HasTree(e, p, i) <=> HasTree(e, q, i)
               /\ \A j \in Untyped : BodyOf(e, p, i, j) = BodyOf(e, q, i, j)
    BY <1>1 DEF HasTree, BodyOf
  <1>3. \A j \in Untyped : BodyOf(e, p, n + 1, j) = r.tree.body[j]
    BY <1>1 DEF BodyOf
  <1>4. ASSUME NEW i \in 0..n, NEW k \in 0..n, NEW j \in Untyped,
               Named(q, i, k, j)
        PROVE  Named(p, i, k, j)
    BY <1>1, <1>4 DEF Named
  <1>5. ASSUME NEW i \in 0..n, NEW j \in Untyped,
               j \in Reparsed(r) \/ Named(q, i, n, j)
        PROVE  Named(p, i, n + 1, j)
    <2>1. n + 1 \in i + 1..n + 1 /\ \A m \in i + 1..n : m \in i + 1..n + 1
      BY <1>1
    <2>2. \A m \in i + 1..n : p[m] = q[m]
      BY <1>1
    <2> QED  BY <1>1, <1>5, <2>1, <2>2 DEF Named
  <1>6. ASSUME NEW i \in 0..n + 1, NEW j \in Untyped,
               HasTree(e, p, i), BodyOf(e, p, i, j) # r.tree.body[j]
        PROVE  Named(p, i, n + 1, j)
    <2>1. i \in 0..n
      BY <1>1, <1>3, <1>6
    <2>2. HasTree(e, q, i) /\ BodyOf(e, q, i, j) # r.tree.body[j]
      BY <1>2, <1>6, <2>1
    <2>3. j \in Reparsed(r) \/ Named(q, i, n, j)
      BY <2>1, <2>2 DEF Reaches
    <2> QED  BY <1>5, <2>1, <2>3
  <1>7. ASSUME NEW k \in 1..n + 1, NEW i \in 0..k - 1, NEW j \in Untyped,
               HasTree(e, p, i), HasTree(e, p, k),
               BodyOf(e, p, i, j) # BodyOf(e, p, k, j)
        PROVE  Named(p, i, k, j)
    <2>1. CASE k = n + 1
      <3>1. i \in 0..n + 1 /\ BodyOf(e, p, k, j) = r.tree.body[j]
        BY <1>1, <1>3, <2>1
      <3> QED  BY <1>6, <1>7, <2>1, <3>1
    <2>2. CASE k \in 1..n
      <3>1. i \in 0..n /\ k \in 0..n
        BY <1>1, <2>2
      <3>2. /\ HasTree(e, q, i) /\ HasTree(e, q, k)
            /\ BodyOf(e, q, i, j) # BodyOf(e, q, k, j)
        BY <1>2, <1>7, <3>1
      <3>3. Named(q, i, k, j)
        BY <2>2, <3>2 DEF Chain
      <3> QED  BY <1>4, <3>1, <3>3
    <2> QED  BY <1>1, <2>1, <2>2
  <1>8. Chain(e, p)
    BY <1>1, <1>7 DEF Chain
  <1>9. Reaches(e, p, r.tree.body, {})
    BY <1>1, <1>6 DEF Reaches
  <1> QED  BY <1>8, <1>9 DEF p

\* A request to clear the cache brings nothing and names nothing.
LEMMA ClearNames ==
    ASSUME NEW e, NEW q \in Seq(Requests), NEW r \in Requests,
           r.kind = "clear", Chain(e, q), NEW b, NEW x
    PROVE  /\ Chain(e, Append(q, r))
           /\ Reaches(e, q, b, x) => Reaches(e, Append(q, r), b, x)
  <1> DEFINE n == Len(q)
             p == Append(q, r)
  <1>1. /\ n \in Nat /\ Len(p) = n + 1 /\ p[n + 1] = r
        /\ \A k \in 1..n : p[k] = q[k]
    BY EnqueueFacts
  <1> HIDE DEF p
  <1>2. ASSUME NEW i \in 0..n
        PROVE  /\ HasTree(e, p, i) <=> HasTree(e, q, i)
               /\ \A j \in Untyped : BodyOf(e, p, i, j) = BodyOf(e, q, i, j)
    BY <1>1 DEF HasTree, BodyOf
  <1>3. ~HasTree(e, p, n + 1)
    BY <1>1 DEF HasTree
  <1>4. ASSUME NEW i \in 0..n, NEW k \in 0..n, NEW j \in Untyped,
               Named(q, i, k, j)
        PROVE  Named(p, i, k, j) /\ Named(p, i, n + 1, j)
    BY <1>1, <1>4 DEF Named
  <1>5. ASSUME NEW k \in 1..n + 1, NEW i \in 0..k - 1, NEW j \in Untyped,
               HasTree(e, p, i), HasTree(e, p, k),
               BodyOf(e, p, i, j) # BodyOf(e, p, k, j)
        PROVE  Named(p, i, k, j)
    <2>1. k \in 1..n /\ i \in 0..n /\ k \in 0..n
      BY <1>1, <1>3, <1>5
    <2>2. /\ HasTree(e, q, i) /\ HasTree(e, q, k)
          /\ BodyOf(e, q, i, j) # BodyOf(e, q, k, j)
      BY <1>2, <1>5, <2>1
    <2>3. Named(q, i, k, j)
      BY <2>1, <2>2 DEF Chain
    <2> QED  BY <1>4, <2>1, <2>3
  <1>6. ASSUME Reaches(e, q, b, x), NEW i \in 0..n + 1, NEW j \in Untyped,
               HasTree(e, p, i), BodyOf(e, p, i, j) # b[j]
        PROVE  j \in x \/ Named(p, i, n + 1, j)
    <2>1. i \in 0..n /\ n \in 0..n
      BY <1>1, <1>3, <1>6
    <2>2. HasTree(e, q, i) /\ BodyOf(e, q, i, j) # b[j]
      BY <1>2, <1>6, <2>1
    <2>3. j \in x \/ Named(q, i, n, j)
      BY <1>6, <2>1, <2>2 DEF Reaches
    <2> QED  BY <1>4, <2>1, <2>3
  <1>7. Chain(e, p)
    BY <1>1, <1>5 DEF Chain
  <1>8. Reaches(e, q, b, x) => Reaches(e, p, b, x)
    BY <1>1, <1>6 DEF Reaches
  <1> QED  BY <1>7, <1>8 DEF p

\* The worker takes a request: the trees move up by one.
LEMMA ConsumeNames ==
    ASSUME NEW e, NEW f, NEW q \in Seq(Requests), q # <<>>, Chain(e, q),
           f.exists => q[1].kind # "clear" /\ f.tree = q[1].tree,
           NEW b, NEW x
    PROVE  /\ Chain(f, Tail(q))
           /\ Reaches(e, q, b, x) => Reaches(f, Tail(q), b, x)
  <1> DEFINE n == Len(q)
             p == Tail(q)
  <1>1. /\ n \in Nat /\ n >= 1 /\ Len(p) = n - 1
        /\ \A k \in 1..n - 1 : p[k] = q[k + 1]
    BY DequeueFacts
  <1> HIDE DEF p
  <1>2. ASSUME NEW i \in 0..n - 1, HasTree(f, p, i)
        PROVE  /\ i + 1 \in 1..n /\ HasTree(e, q, i + 1)
               /\ \A j \in Untyped : BodyOf(f, p, i, j) = BodyOf(e, q, i + 1, j)
    BY <1>1, <1>2 DEF HasTree, BodyOf
  <1>3. ASSUME NEW i \in 0..n - 1, NEW k \in 0..n - 1, NEW j \in Untyped,
               Named(q, i + 1, k + 1, j)
        PROVE  Named(p, i, k, j)
    <2>1. PICK m \in i + 1 + 1..k + 1 : j \in Reparsed(q[m])
      BY <1>3 DEF Named
    <2>2. /\ m - 1 \in 1..n - 1 /\ m - 1 \in i + 1..k /\ (m - 1) + 1 = m
      BY <1>1
    <2>3. p[m - 1] = q[m]
      BY <1>1, <2>2
    <2> QED  BY <2>1, <2>2, <2>3 DEF Named
  <1>4. ASSUME NEW k \in 1..n - 1, NEW i \in 0..k - 1, NEW j \in Untyped,
               HasTree(f, p, i), HasTree(f, p, k),
               BodyOf(f, p, i, j) # BodyOf(f, p, k, j)
        PROVE  Named(p, i, k, j)
    <2>1. i \in 0..n - 1 /\ k \in 0..n - 1 /\ k + 1 \in 1..n
          /\ i + 1 \in 0..(k + 1) - 1
      BY <1>1
    <2>2. /\ HasTree(e, q, i + 1) /\ HasTree(e, q, k + 1)
          /\ BodyOf(e, q, i + 1, j) # BodyOf(e, q, k + 1, j)
      BY <1>2, <1>4, <2>1
    <2>3. Named(q, i + 1, k + 1, j)
      BY <2>1, <2>2 DEF Chain
    <2> QED  BY <1>3, <2>1, <2>3
  <1>5. ASSUME Reaches(e, q, b, x), NEW i \in 0..n - 1, NEW j \in Untyped,
               HasTree(f, p, i), BodyOf(f, p, i, j) # b[j]
        PROVE  j \in x \/ Named(p, i, n - 1, j)
    <2>1. /\ i + 1 \in 0..n /\ HasTree(e, q, i + 1)
          /\ BodyOf(e, q, i + 1, j) # b[j]
      BY <1>1, <1>2, <1>5
    <2>2. j \in x \/ Named(q, i + 1, n, j)
      BY <1>5, <2>1 DEF Reaches
    <2>3. n - 1 \in 0..n - 1 /\ (n - 1) + 1 = n
      BY <1>1
    <2> QED  BY <1>3, <2>2, <2>3
  <1>6. Chain(f, p)
    BY <1>1, <1>4 DEF Chain
  <1>7. Reaches(e, q, b, x) => Reaches(f, p, b, x)
    BY <1>1, <1>5 DEF Reaches
  <1> QED  BY <1>6, <1>7 DEF p

\* Other bodies are reached if what differs is excepted.
LEMMA ReachesFrom ==
    ASSUME NEW e, NEW q, NEW b, NEW x, NEW c, NEW y, Reaches(e, q, b, x),
           \A j \in Untyped : j \in x \/ c[j] # b[j] => j \in y
    PROVE  Reaches(e, q, c, y)
  BY DEF Reaches

\* An action is delivered that names every body it changed; one that asks for
\* linting alone changed none.
LEMMA DeliverNames ==
    ASSUME TypeOK, NamingInv, NEW t \in Trees, NEW a \in Actions,
           Deliver(t, a), store' = t, UNCHANGED evaluator,
           \A j \in Untyped : t.body[j] # store.body[j] =>
              a.evaluates /\ j \in a.affected
    PROVE  /\ RequestsName' /\ StoreNamed' /\ BufferEmpty'
           /\ Starting' <=> Starting
           /\ Starting => toWorker' = toWorker
  <1>0. toWorker \in Seq(Requests)
    BY DEF TypeOK
  <1>1. CASE Starting
    <2>1. UNCHANGED <<listener, buffer, toWorker>>
      BY <1>1 DEF Deliver, Starting
    <2> QED  BY <1>1, <2>1
             DEF NamingInv, RequestsName, StoreNamed, BufferEmpty, Starting
  <1>2. CASE listener = "taking" /\ a.evaluates
    <2> DEFINE r == EvalRequest(t, a, TRUE)
    <2>1. /\ r \in Requests /\ r.kind = "eval" /\ r.tree = t
          /\ r.affected = a.affected
      BY MessageFacts DEF EvalRequest
    <2>2. toWorker' = Append(toWorker, r) /\ listener' = "evaluating"
          /\ buffer' = buffer /\ buffer = EmptyBuffer
      BY <1>2 DEF Deliver, NamingInv, BufferEmpty
    <2> HIDE DEF r
    <2>3. Reaches(evaluator, toWorker, store.body, {})
      BY <1>2, <2>2 DEF NamingInv, StoreNamed, Starting, EmptyBuffer
    <2>4. \A j \in Untyped : j \in {} \/ r.tree.body[j] # store.body[j] =>
             j \in Reparsed(r)
      BY <2>1 DEF Reparsed, Untyped
    <2>5. Reaches(evaluator, toWorker, r.tree.body, Reparsed(r))
      BY <2>3, <2>4, ReachesFrom
    <2>6. /\ Chain(evaluator, toWorker')
          /\ Reaches(evaluator, toWorker', r.tree.body, {})
      BY <1>0, <2>1, <2>2, <2>5, PostNames DEF NamingInv, RequestsName
    <2>7. RequestsName' /\ StoreNamed'
      BY <2>1, <2>2, <2>6 DEF RequestsName, StoreNamed, EmptyBuffer
    <2> QED  BY <1>2, <2>2, <2>7 DEF BufferEmpty, Starting
  <1>3. CASE listener = "taking" /\ ~a.evaluates
    <2>1. /\ toWorker' = toWorker /\ buffer' = buffer
          /\ listener' = "finishing" /\ buffer = EmptyBuffer
      BY <1>3 DEF Deliver, NamingInv, BufferEmpty
    <2>2. Reaches(evaluator, toWorker, store.body, buffer.affected)
      BY <1>3 DEF NamingInv, StoreNamed, Starting
    <2>3. Reaches(evaluator, toWorker, t.body, buffer.affected)
      BY <1>3, <2>2, ReachesFrom
    <2> QED  BY <1>3, <2>1, <2>3
             DEF NamingInv, RequestsName, StoreNamed, BufferEmpty, Starting
  <1>4. CASE listener \in {"evaluating", "finishing"}
    <2>1. /\ toWorker' = toWorker /\ buffer' = Merge(buffer, a)
          /\ listener' = listener
      BY <1>4 DEF Deliver
    <2>2. buffer'.canTake /\ buffer'.affected = buffer.affected \cup a.affected
      BY <2>1 DEF Merge
    <2>3. Reaches(evaluator, toWorker, store.body, buffer.affected)
      BY <1>4 DEF NamingInv, StoreNamed, Starting
    <2>4. Reaches(evaluator, toWorker, t.body, buffer'.affected)
      BY <2>2, <2>3, ReachesFrom
    <2> QED  BY <1>4, <2>1, <2>2, <2>4
             DEF NamingInv, RequestsName, StoreNamed, BufferEmpty, Starting
  <1> QED  BY <1>1, <1>2, <1>3, <1>4 DEF TypeOK, Starting

LEMMA DispatchNames ==
    ASSUME TypeInv, NamingInv,
           NEW b \in Bodies, NEW aff \in SUBSET JSObjects, NEW ev \in BOOLEAN,
           NEW fo \in BOOLEAN, NEW po \in SUBSET Versions,
           Dispatch(b, aff, ev, fo, po),
           \A j \in Untyped : b[j] # store.body[j] => ev /\ j \in aff
    PROVE  NamingInv'
  <1>1. TypeOK /\ store.seq + 1 \in Versions
    BY NextChange DEF TypeInv, Dispatch
  <1>2. Change(b) \in Trees /\ Change(b).body = b
    BY <1>1 DEF Change, Trees
  <1>3. /\ Action(ev, aff, fo, po) \in Actions
        /\ Action(ev, aff, fo, po).evaluates = ev
        /\ Action(ev, aff, fo, po).affected = aff
    BY DEF Action, Actions
  <1>4. /\ Deliver(Change(b), Action(ev, aff, fo, po))
        /\ store' = Change(b) /\ UNCHANGED <<evaluator, toMain>>
    BY DEF Dispatch
  <1>5. /\ RequestsName' /\ StoreNamed' /\ BufferEmpty'
        /\ Starting' <=> Starting
        /\ Starting => toWorker' = toWorker
    <2> HIDE DEF Change, Action
    <2> QED  BY <1>1, <1>2, <1>3, <1>4, DeliverNames
  <1>6. NothingYet'
    BY <1>4, <1>5 DEF NamingInv, NothingYet
  <1> QED  BY <1>4, <1>5, <1>6 DEF NamingInv, JSParsed

\* The worker evaluates request r: what r does not name has not changed.
LEMMA ParsedNamed ==
    ASSUME TypeOK, NamingInv, toWorker # <<>>, NEW r, r = toWorker[1],
           r.kind # "clear", evaluator.exists, NEW j \in Untyped,
           r.tree.body[j] # evaluator.tree.body[j]
    PROVE  j \in Reparsed(r)
  <1>1. Len(toWorker) \in Nat /\ Len(toWorker) >= 1
    BY ToWorkerFacts
  <1>2. 1 \in 1..Len(toWorker) /\ 0 \in 0..1 - 1
    BY <1>1
  <1>3. /\ HasTree(evaluator, toWorker, 0) /\ HasTree(evaluator, toWorker, 1)
        /\ BodyOf(evaluator, toWorker, 0, j) # BodyOf(evaluator, toWorker, 1, j)
    BY DEF HasTree, BodyOf
  <1>4. Named(toWorker, 0, 1, j)
    BY <1>2, <1>3 DEF NamingInv, RequestsName, Chain
  <1> QED  BY <1>4 DEF Named

LEMMA NamingStep ==
    ASSUME TypeInv, NamingInv, [Next]_vars
    PROVE  NamingInv'
  <1>0. /\ TypeOK /\ NothingYet /\ BufferEmpty /\ RequestsName /\ StoreNamed
        /\ JSParsed /\ toWorker \in Seq(Requests) /\ toMain \in Seq(Replies)
    BY DEF TypeInv, TypeOK, NamingInv
  <1>1. CASE \/ Edit \/ Library
             \/ \E j \in JSObjects \ Typed : JSChange(j)
             \/ \E j \in Typed : Type(j)
             \/ \E j \in Typed, v \in Versions : Saved(j, v)
    <2>1. store.seq < MaxChanges
      BY <1>1 DEF Edit, Library, JSChange, Type, Saved, Dispatch
    <2>2. /\ store.body \in Bodies /\ store.seq + 1 \in Versions
          /\ \A j \in JSObjects, v \in Versions :
                [store.body EXCEPT ![j] = v] \in Bodies
      BY <2>1, NextChange
    <2>3. /\ {} \in SUBSET JSObjects /\ {} \in SUBSET Versions
          /\ {store.seq + 1} \in SUBSET Versions
          /\ \A j \in JSObjects : {j} \in SUBSET JSObjects
      BY <2>2
    <2>4. \A j \in JSObjects, v \in Versions, i \in Untyped :
             [store.body EXCEPT ![j] = v][i] # store.body[i] => i = j
      BY <2>2 DEF Bodies, Untyped
    <2>5. CASE Edit
      BY <2>2, <2>3, <2>5, DispatchNames DEF Edit
    <2>6. CASE Library
      BY <2>2, <2>3, <2>6, DispatchNames DEF Library
    <2>7. ASSUME NEW j \in JSObjects \ Typed, JSChange(j) PROVE NamingInv'
      <3> DEFINE b == [store.body EXCEPT ![j] = store.seq + 1]
      <3>1. Dispatch(b, {j}, TRUE, FALSE, {})
        BY <2>7 DEF JSChange
      <3>2. j \in JSObjects
        OBVIOUS
      <3>3. b \in Bodies /\ {j} \in SUBSET JSObjects
        BY <2>2, <3>2
      <3>4. \A i \in Untyped : b[i] # store.body[i] => TRUE /\ i \in {j}
        BY <2>2, <2>4, <3>2 DEF Untyped
      <3> HIDE DEF b
      <3> QED  BY <2>3, <3>1, <3>3, <3>4, DispatchNames
    <2>8. ASSUME NEW j \in Typed, Type(j) PROVE NamingInv'
      <3> DEFINE b == [store.body EXCEPT ![j] = store.seq + 1]
      <3>1. Dispatch(b, {}, FALSE, FALSE, {})
        BY <2>8 DEF Type
      <3>2. j \in JSObjects
        BY EvalAssumption
      <3>3. b \in Bodies /\ {} \in SUBSET JSObjects
        BY <2>2, <3>2
      <3>4. \A i \in Untyped : b[i] # store.body[i] => FALSE /\ i \in {}
        BY <2>2, <2>4, <3>2 DEF Untyped
      <3> HIDE DEF b
      <3> QED  BY <2>3, <3>1, <3>3, <3>4, DispatchNames
    <2>9. ASSUME NEW j \in Typed, NEW v \in Versions, Saved(j, v)
          PROVE  NamingInv'
      <3> DEFINE b == [store.body EXCEPT ![j] = v]
      <3>1. Dispatch(b, {j}, TRUE, FALSE, {})
        BY <2>9 DEF Saved
      <3>2. j \in JSObjects
        BY EvalAssumption
      <3>3. b \in Bodies /\ {j} \in SUBSET JSObjects
        BY <2>2, <3>2
      <3>4. \A i \in Untyped : b[i] # store.body[i] => TRUE /\ i \in {j}
        BY <2>2, <2>4, <3>2 DEF Untyped
      <3> HIDE DEF b
      <3> QED  BY <2>3, <3>1, <3>3, <3>4, DispatchNames
    <2> QED  BY <1>1, <2>5, <2>6, <2>7, <2>8, <2>9
  <1>2. CASE Trigger
    <2> DEFINE r == [kind |-> "trigger", tree |-> store]
    <2>1. r \in Requests /\ r.kind = "trigger" /\ r.tree = store
      BY <1>0, MessageFacts DEF TypeOK
    <2>2. /\ toWorker' = Append(toWorker, r)
          /\ UNCHANGED <<store, evaluator, toMain, listener, buffer>>
      BY <1>2 DEF Trigger, queueVars
    <2> HIDE DEF r
    <2>3. Reaches(evaluator, toWorker, r.tree.body, Reparsed(r))
      BY <2>1 DEF Reaches, Reparsed, Untyped
    <2>4. /\ Chain(evaluator, toWorker')
          /\ Reaches(evaluator, toWorker', store.body, {})
      BY <1>0, <2>1, <2>2, <2>3, PostNames DEF RequestsName
    <2>5. Reaches(evaluator, toWorker', store.body, buffer.affected)
      BY <2>4, ReachesFrom
    <2>6. NothingYet'
      BY <1>0, <2>1, <2>2, ToWorkerFacts DEF NothingYet, Starting
    <2> QED  BY <1>0, <2>2, <2>4, <2>5, <2>6
             DEF NamingInv, RequestsName, StoreNamed, BufferEmpty, JSParsed,
                 Starting
  <1>3. CASE PageArrives
    <2> DEFINE r == [kind |-> "clear", fetch |-> fetches]
    <2>1. fetches \in 1..MaxFetches
      BY <1>0, <1>3, EvalAssumption DEF TypeInv, TypeOK, Bounded, PageArrives
    <2>2. r \in Requests /\ r.kind = "clear"
      BY <2>1, MessageFacts
    <2>3. /\ toWorker' = Append(toWorker, r)
          /\ UNCHANGED <<store, evaluator, toMain, listener, buffer>>
      BY <1>3 DEF PageArrives, queueVars
    <2> HIDE DEF r
    <2>4. /\ Chain(evaluator, toWorker')
          /\ Reaches(evaluator, toWorker, store.body, buffer.affected) =>
                Reaches(evaluator, toWorker', store.body, buffer.affected)
      BY <1>0, <2>2, <2>3, ClearNames DEF RequestsName
    <2>5. NothingYet'
      BY <1>0, <2>2, <2>3, ToWorkerFacts DEF NothingYet, Starting
    <2> QED  BY <1>0, <2>3, <2>4, <2>5
             DEF NamingInv, RequestsName, StoreNamed, BufferEmpty, JSParsed,
                 Starting
  <1>4. CASE PageReady
    <2>1. store.seq \in Nat /\ store.seq + 1 \in Versions
      BY <1>4, EvalAssumption
      DEF TypeInv, TypeOK, Bounded, PageReady, Trees, Versions
    <2>2. /\ Change(store.body) \in Trees
          /\ Change(store.body).body = store.body
      BY <1>0, <2>1 DEF Change, TypeOK, Trees
    <2>3. store' = Change(store.body) /\ UNCHANGED evaluator
      BY <1>4 DEF PageReady
    <2>4. /\ RequestsName' /\ StoreNamed' /\ BufferEmpty'
          /\ Starting' <=> Starting
          /\ Starting => toWorker' = toWorker
      <3>1. CASE listener = "start"
        <4>1. listener' = "config" /\ UNCHANGED <<buffer, toWorker>>
          BY <1>4, <3>1 DEF PageReady
        <4> QED  BY <1>0, <2>3, <3>1, <4>1
                 DEF RequestsName, StoreNamed, BufferEmpty, Starting
      <3>2. CASE listener # "start"
        <4> DEFINE a == Action(TRUE, JSObjects, FALSE, {store.seq + 1})
        <4>1. a \in Actions
          BY <2>1 DEF Action, Actions
        <4>2. Deliver(Change(store.body), a)
          BY <1>4, <3>2 DEF PageReady
        <4> HIDE DEF a, Change
        <4> QED  BY <1>0, <2>2, <2>3, <4>1, <4>2, DeliverNames
      <3> QED  BY <3>1, <3>2
    <2>5. NothingYet'
      BY <1>0, <1>4, <2>3, <2>4, ToMainFacts DEF PageReady, NothingYet
    <2> QED  BY <1>0, <2>3, <2>4, <2>5 DEF NamingInv, JSParsed
  <1>5. CASE IgnoreCleared
    <2>1. /\ toMain # <<>> /\ toMain' = Tail(toMain)
          /\ UNCHANGED <<store, listener, buffer, toWorker, evaluator>>
      BY <1>5 DEF IgnoreCleared, mainVars, queueVars
    <2>2. NothingYet'
      BY <1>0, <2>1, ToMainFacts DEF NothingYet, Starting
    <2> QED  BY <1>0, <2>1, <2>2
             DEF NamingInv, RequestsName, StoreNamed, BufferEmpty, JSParsed,
                 Starting
  <1>6. CASE FirstEvaluation
    <2> DEFINE a == Action(TRUE, JSObjects, FALSE, initAction)
               r == EvalRequest(store, a, FALSE)
    <2>1. a \in Actions /\ a.affected = JSObjects
      BY <1>0 DEF TypeOK, Action, Actions
    <2>2. r.kind = "eval" /\ r.tree = store /\ r.affected = JSObjects
      BY <2>1 DEF EvalRequest
    <2>3. r \in Requests
      <3> HIDE DEF a
      <3> QED  BY <1>0, <2>1, MessageFacts DEF TypeOK
    <2>4. /\ toWorker' = Append(toWorker, r) /\ listener' = "taking"
          /\ UNCHANGED <<store, buffer, evaluator, toMain>>
          /\ buffer = EmptyBuffer
      BY <1>0, <1>6 DEF FirstEvaluation, BufferEmpty, Starting
    <2> HIDE DEF r
    <2>5. Reaches(evaluator, toWorker, r.tree.body, Reparsed(r))
      BY <2>2 DEF Reaches, Reparsed, Untyped
    <2>6. /\ Chain(evaluator, toWorker')
          /\ Reaches(evaluator, toWorker', store.body, {})
      BY <1>0, <2>2, <2>3, <2>4, <2>5, PostNames DEF RequestsName
    <2> QED  BY <1>0, <2>4, <2>6
             DEF NamingInv, NothingYet, RequestsName, StoreNamed, BufferEmpty,
                 JSParsed, Starting, EmptyBuffer
  <1>7. CASE TakeBuffered
    <2> DEFINE r == EvalRequest(store, Buffered(buffer), TRUE)
    <2>1. /\ Buffered(buffer) \in Actions
          /\ Buffered(buffer).affected = buffer.affected
      BY <1>0 DEF TypeOK, Buffered, Action, Actions
    <2>2. /\ r \in Requests /\ r.kind = "eval" /\ r.tree = store
          /\ r.affected = buffer.affected
      BY <1>0, <2>1, MessageFacts DEF TypeOK, EvalRequest
    <2>3. /\ toWorker' = Append(toWorker, r) /\ listener' = "evaluating"
          /\ buffer' = EmptyBuffer /\ listener = "finishing"
          /\ UNCHANGED <<store, evaluator, toMain>>
      BY <1>7 DEF TakeBuffered
    <2> HIDE DEF r
    <2>4. Reaches(evaluator, toWorker, store.body, buffer.affected)
      BY <1>0, <2>3 DEF StoreNamed, Starting
    <2>5. \A j \in Untyped :
             j \in buffer.affected \/ r.tree.body[j] # store.body[j] =>
                j \in Reparsed(r)
      BY <2>2 DEF Reparsed, Untyped
    <2>6. Reaches(evaluator, toWorker, r.tree.body, Reparsed(r))
      BY <2>4, <2>5, ReachesFrom
    <2>7. /\ Chain(evaluator, toWorker')
          /\ Reaches(evaluator, toWorker', store.body, {})
      BY <1>0, <2>2, <2>3, <2>6, PostNames DEF RequestsName
    <2> QED  BY <1>0, <2>3, <2>7
             DEF NamingInv, NothingYet, RequestsName, StoreNamed, BufferEmpty,
                 JSParsed, Starting, EmptyBuffer
  <1>8. CASE WaitForAction
    BY <1>0, <1>8
    DEF WaitForAction, NamingInv, NothingYet, RequestsName, StoreNamed,
        BufferEmpty, JSParsed, Starting, threadVars
  <1>9. CASE EvalTree
    <2> DEFINE r == Head(toWorker)
    <2>1. /\ toWorker # <<>> /\ r = toWorker[1] /\ r \in Requests
          /\ r.kind = "eval" /\ Len(toWorker) >= 1 /\ Len(toWorker) \in Nat
      BY <1>0, <1>9, ToWorkerFacts, HeadTypes DEF EvalTree
    <2>2. /\ toWorker' = Tail(toWorker)
          /\ evaluator' = [exists |-> TRUE, tree |-> r.tree,
                           parsed |-> IF evaluator.exists /\ ~r.force
                                      THEN Parsed(r.tree, r.affected)
                                      ELSE r.tree.body]
          /\ UNCHANGED <<store, listener, buffer>>
      BY <1>9 DEF EvalTree, mainVars, queueVars
    <2>3. /\ Chain(evaluator', Tail(toWorker))
          /\ Reaches(evaluator, toWorker, store.body, buffer.affected) =>
                Reaches(evaluator', Tail(toWorker), store.body, buffer.affected)
      BY <1>0, <2>1, <2>2, ConsumeNames DEF RequestsName
    <2>4. NothingYet'
      <3>1. ~Starting
        BY <1>0, <2>1 DEF NothingYet
      <3> QED  BY <2>2, <3>1 DEF NothingYet, Starting
    <2>5. JSParsed'
      <3> SUFFICES ASSUME NEW j \in Untyped
                   PROVE  evaluator'.parsed[j] = r.tree.body[j]
        BY <2>2 DEF JSParsed, Untyped
      <3>1. CASE evaluator.exists /\ ~r.force
        <4>1. evaluator'.parsed[j] =
                 IF j \in r.affected /\ r.tree.body[j] # evaluator.tree.body[j]
                 THEN r.tree.body[j] ELSE evaluator.parsed[j]
          BY <2>2, <3>1 DEF Parsed, Untyped
        <4>2. evaluator.parsed[j] = evaluator.tree.body[j]
          BY <1>0, <3>1 DEF JSParsed, Untyped
        <4>3. r.tree.body[j] # evaluator.tree.body[j] => j \in r.affected
          <5>1. r.tree.body[j] # evaluator.tree.body[j] => j \in Reparsed(r)
            BY <1>0, <2>1, <3>1, ParsedNamed
          <5> QED  BY <2>1, <3>1, <5>1 DEF Reparsed
        <4> QED  BY <4>1, <4>2, <4>3
      <3>2. CASE ~(evaluator.exists /\ ~r.force)
        BY <2>2, <3>2
      <3> QED  BY <3>1, <3>2
    <2> HIDE DEF r
    <2> QED  BY <1>0, <2>2, <2>3, <2>4, <2>5
             DEF NamingInv, RequestsName, StoreNamed, BufferEmpty, Starting
  <1>10. CASE EvalTrigger
    <2> DEFINE r == Head(toWorker)
    <2>1. /\ toWorker # <<>> /\ r = toWorker[1] /\ r \in Requests
          /\ r.kind = "trigger" /\ toWorker' = Tail(toWorker)
          /\ UNCHANGED <<store, listener, buffer>>
      BY <1>0, <1>10, ToWorkerFacts, HeadTypes
      DEF EvalTrigger, mainVars, queueVars
    <2>2. IF evaluator.exists
          THEN evaluator' = [exists |-> TRUE, tree |-> r.tree,
                             parsed |-> Parsed(r.tree, JSObjects)]
          ELSE UNCHANGED <<evaluator, toMain>>
      BY <1>10, Zenon DEF EvalTrigger
    <2>3. /\ Chain(evaluator', Tail(toWorker))
          /\ Reaches(evaluator, toWorker, store.body, buffer.affected) =>
                Reaches(evaluator', Tail(toWorker), store.body, buffer.affected)
      BY <1>0, <2>1, <2>2, ConsumeNames DEF RequestsName
    <2>4. NothingYet'
      BY <1>0, <2>1, <2>2, ToWorkerFacts DEF NothingYet, Starting
    <2>5. JSParsed'
      <3>1. CASE evaluator.exists
        <4> SUFFICES ASSUME NEW j \in Untyped
                     PROVE  evaluator'.parsed[j] = r.tree.body[j]
          BY <2>2, <3>1 DEF JSParsed, Untyped
        <4>1. evaluator'.parsed[j] =
                 IF r.tree.body[j] # evaluator.tree.body[j]
                 THEN r.tree.body[j] ELSE evaluator.parsed[j]
          BY <2>2, <3>1 DEF Parsed, Untyped
        <4>2. evaluator.parsed[j] = evaluator.tree.body[j]
          BY <1>0, <3>1 DEF JSParsed, Untyped
        <4> QED  BY <4>1, <4>2
      <3>2. CASE ~evaluator.exists
        BY <1>0, <2>2, <3>2 DEF JSParsed
      <3> QED  BY <3>1, <3>2
    <2> HIDE DEF r
    <2> QED  BY <1>0, <2>1, <2>3, <2>4, <2>5
             DEF NamingInv, RequestsName, StoreNamed, BufferEmpty, Starting
  <1>11. CASE ClearCache
    <2> DEFINE m == [kind |-> "cleared", fetch |-> Head(toWorker).fetch]
    <2>1. /\ toWorker # <<>> /\ toWorker' = Tail(toWorker)
          /\ ~evaluator'.exists /\ toMain' = Append(toMain, m)
          /\ UNCHANGED <<store, listener, buffer>>
      BY <1>11 DEF ClearCache, mainVars, queueVars
    <2>2. m \in Replies /\ m.kind = "cleared"
      BY <1>0, <1>11, HeadTypes, MessageFacts DEF ClearCache
    <2> HIDE DEF m
    <2>3. /\ Chain(evaluator', Tail(toWorker))
          /\ Reaches(evaluator, toWorker, store.body, buffer.affected) =>
                Reaches(evaluator', Tail(toWorker), store.body, buffer.affected)
      BY <1>0, <2>1, ConsumeNames DEF RequestsName
    <2>4. NothingYet'
      <3>1. ~evaluator'.exists /\ UNCHANGED listener
        BY <2>1
      <3>2. /\ Len(toMain) \in Nat /\ Len(toMain') = Len(toMain) + 1
            /\ toMain'[Len(toMain) + 1] = m
            /\ \A k \in 1..Len(toMain) : toMain'[k] = toMain[k]
        BY <1>0, <2>1, <2>2, ToMainFacts
      <3>3. \A k \in 1..Len(toMain') :
               \/ toMain'[k].kind = "cleared"
               \/ k \in 1..Len(toMain) /\ toMain'[k] = toMain[k]
        BY <2>2, <3>2
      <3>4. /\ Len(toWorker) \in Nat /\ Len(toWorker') = Len(toWorker) - 1
            /\ \A k \in 1..Len(toWorker') : toWorker'[k] = toWorker[k + 1]
        BY <1>0, <2>1, ToWorkerFacts
      <3> QED  BY <1>0, <3>1, <3>2, <3>3, <3>4 DEF NothingYet, Starting
    <2> QED  BY <1>0, <2>1, <2>3, <2>4
             DEF NamingInv, RequestsName, StoreNamed, BufferEmpty, JSParsed,
                 Starting
  <1>12. CASE ReceiveTree
    <2>1. /\ toMain # <<>> /\ toMain[1].kind = "tree" /\ Len(toMain) >= 1
      BY <1>0, <1>12, ToMainFacts DEF ReceiveTree
    <2>2. ~Starting
      BY <1>0, <2>1, ToMainFacts DEF NothingYet
    <2>3. /\ listener' \in {listener, "finishing"}
          /\ UNCHANGED <<store, buffer, toWorker, evaluator>>
      BY <1>12 DEF ReceiveTree
    <2>4. ~Starting' /\ (listener' = "taking" => listener = "taking")
      BY <2>2, <2>3 DEF Starting
    <2> QED  BY <1>0, <2>2, <2>3, <2>4
             DEF NamingInv, NothingYet, RequestsName, StoreNamed, BufferEmpty,
                 JSParsed
  <1>13. CASE FetchPage \/ PageFails \/ UNCHANGED vars
    <2>1. UNCHANGED <<store, listener, buffer, toWorker, evaluator, toMain>>
      BY <1>13 DEF FetchPage, PageFails, vars, mainVars, threadVars, queueVars
    <2> QED  BY <1>0, <2>1
             DEF NamingInv, NothingYet, RequestsName, StoreNamed, BufferEmpty,
                 JSParsed, Starting
  <1> QED
    BY <1>1, <1>2, <1>3, <1>4, <1>5, <1>6, <1>7, <1>8, <1>9, <1>10, <1>11,
       <1>12, <1>13 DEF Next

LEMMA NamingInit == Init => NamingInv
  BY EmptySeq
  DEF Init, NamingInv, NothingYet, BufferEmpty, RequestsName, Chain,
      StoreNamed, JSParsed, Starting

\* A JS object that no editor types in runs the body of the worker's tree.
THEOREM JSObjectsParsed == Spec => []JSParsed
  <1>1. NamingInv => JSParsed
    BY DEF NamingInv
  <1> QED
    BY <1>1, NamingInit, NamingStep, TypeInvariant, PTL DEF Spec

-----------------------------------------------------------------------------
(* Post-eval actions are neither lost nor doubled *)

PostsOf(m) == IF m.kind \in {"eval", "tree"} THEN m.post ELSE {}

\* A request, or an answer, has p; only one has.
Sent(p)         == \E i \in 1..Len(toWorker) : p \in PostsOf(toWorker[i])
SentOnce(p)     == \A i, k \in 1..Len(toWorker) :
                      p \in PostsOf(toWorker[i]) /\ p \in PostsOf(toWorker[k]) => i = k
Answered(p)     == \E i \in 1..Len(toMain) : p \in PostsOf(toMain[i])
AnsweredOnce(p) == \A i, k \in 1..Len(toMain) :
                      p \in PostsOf(toMain[i]) /\ p \in PostsOf(toMain[k]) => i = k

\* One of the places has p if the saga received it, and none otherwise.
InOnePlace(p) ==
    /\ SentOnce(p) /\ AnsweredOnce(p)
    /\ p \in accepted <=>
          p \in done \/ p \in buffer.post \/ p \in initAction \/ Sent(p) \/ Answered(p)
    /\ p \in done => ~(p \in buffer.post \/ p \in initAction \/ Sent(p) \/ Answered(p))
    /\ p \in buffer.post => ~(p \in initAction \/ Sent(p) \/ Answered(p))
    /\ p \in initAction => ~(Sent(p) \/ Answered(p))
    /\ ~(Sent(p) /\ Answered(p))

PlacesInv ==
    /\ accepted \subseteq 0..store.seq
    /\ listener # "config" => initAction = {}
    /\ \A p \in Versions : InOnePlace(p)

\* The saga is given the actions po, which no place has yet, with a request r,
\* or keeps them.
LEMMA RequestSent ==
    ASSUME TypeOK, NEW r \in Requests, toWorker' = Append(toWorker, r)
    PROVE  \A p : /\ Sent(p)' <=> Sent(p) \/ p \in PostsOf(r)
                  /\ SentOnce(p) /\ ~(Sent(p) /\ p \in PostsOf(r)) => SentOnce(p)'
  <1> DEFINE n == Len(toWorker)
  <1>1. /\ n \in Nat /\ Len(toWorker') = n + 1 /\ toWorker'[n + 1] = r
        /\ \A i \in 1..n : toWorker'[i] = toWorker[i]
    BY ToWorkerFacts
  <1>2. \A i \in 1..n + 1 : i \in 1..n \/ i = n + 1
    BY <1>1
  <1>3. 1..n \subseteq 1..n + 1 /\ n + 1 \in 1..n + 1
    BY <1>1
  <1> HIDE DEF n
  <1> QED  BY <1>1, <1>2, <1>3 DEF Sent, SentOnce, n

LEMMA RequestTaken ==
    ASSUME TypeOK, toWorker # <<>>, toWorker' = Tail(toWorker)
    PROVE  \A p : /\ Sent(p) <=> Sent(p)' \/ p \in PostsOf(Head(toWorker))
                  /\ SentOnce(p) => SentOnce(p)' /\ ~(Sent(p)' /\ p \in PostsOf(Head(toWorker)))
  <1> DEFINE n == Len(toWorker) - 1
  <1>1. /\ n \in Nat /\ Len(toWorker') = n /\ Len(toWorker) = n + 1
        /\ Head(toWorker) = toWorker[1]
        /\ \A i \in 1..n : toWorker'[i] = toWorker[i + 1]
    BY ToWorkerFacts
  <1>2. /\ \A i \in 1..n + 1 : i = 1 \/ (i - 1 \in 1..n /\ i = (i - 1) + 1)
        /\ \A i \in 1..n : i + 1 \in 1..n + 1 /\ i + 1 # 1
        /\ 1 \in 1..n + 1
        /\ \A i, k \in 1..n : i + 1 = k + 1 => i = k
    BY <1>1
  <1> HIDE DEF n
  <1> SUFFICES ASSUME NEW p
               PROVE  /\ Sent(p) <=> Sent(p)' \/ p \in PostsOf(Head(toWorker))
                      /\ SentOnce(p) => SentOnce(p)' /\ ~(Sent(p)' /\ p \in PostsOf(Head(toWorker)))
    OBVIOUS
  <1>3. Sent(p) <=> Sent(p)' \/ p \in PostsOf(Head(toWorker))
    BY <1>1, <1>2 DEF Sent
  <1>4. ASSUME SentOnce(p)
        PROVE  SentOnce(p)' /\ ~(Sent(p)' /\ p \in PostsOf(Head(toWorker)))
    <2>1. \A i, k \in 1..n + 1 :
             p \in PostsOf(toWorker[i]) /\ p \in PostsOf(toWorker[k]) => i = k
      BY <1>1, <1>4 DEF SentOnce
    <2>2. SentOnce(p)'
      BY <1>1, <1>2, <2>1 DEF SentOnce
    <2>3. ~(Sent(p)' /\ p \in PostsOf(Head(toWorker)))
      BY <1>1, <1>2, <2>1 DEF Sent
    <2> QED  BY <2>2, <2>3
  <1> QED  BY <1>3, <1>4

LEMMA AnswerSent ==
    ASSUME TypeOK, NEW m \in Replies, toMain' = Append(toMain, m)
    PROVE  \A p : /\ Answered(p)' <=> Answered(p) \/ p \in PostsOf(m)
                  /\ AnsweredOnce(p) /\ ~(Answered(p) /\ p \in PostsOf(m)) => AnsweredOnce(p)'
  <1> DEFINE n == Len(toMain)
  <1>1. /\ n \in Nat /\ Len(toMain') = n + 1 /\ toMain'[n + 1] = m
        /\ \A i \in 1..n : toMain'[i] = toMain[i]
    BY ToMainFacts
  <1>2. \A i \in 1..n + 1 : i \in 1..n \/ i = n + 1
    BY <1>1
  <1>3. 1..n \subseteq 1..n + 1 /\ n + 1 \in 1..n + 1
    BY <1>1
  <1> HIDE DEF n
  <1> QED  BY <1>1, <1>2, <1>3 DEF Answered, AnsweredOnce, n

LEMMA AnswerTaken ==
    ASSUME TypeOK, toMain # <<>>, toMain' = Tail(toMain)
    PROVE  \A p : /\ Answered(p) <=> Answered(p)' \/ p \in PostsOf(Head(toMain))
                  /\ AnsweredOnce(p) => AnsweredOnce(p)' /\ ~(Answered(p)' /\ p \in PostsOf(Head(toMain)))
  <1> DEFINE n == Len(toMain) - 1
  <1>1. /\ n \in Nat /\ Len(toMain') = n /\ Len(toMain) = n + 1
        /\ Head(toMain) = toMain[1]
        /\ \A i \in 1..n : toMain'[i] = toMain[i + 1]
    BY ToMainFacts
  <1>2. /\ \A i \in 1..n + 1 : i = 1 \/ (i - 1 \in 1..n /\ i = (i - 1) + 1)
        /\ \A i \in 1..n : i + 1 \in 1..n + 1 /\ i + 1 # 1
        /\ 1 \in 1..n + 1
        /\ \A i, k \in 1..n : i + 1 = k + 1 => i = k
    BY <1>1
  <1> HIDE DEF n
  <1> SUFFICES ASSUME NEW p
               PROVE  /\ Answered(p) <=> Answered(p)' \/ p \in PostsOf(Head(toMain))
                      /\ AnsweredOnce(p) => AnsweredOnce(p)' /\ ~(Answered(p)' /\ p \in PostsOf(Head(toMain)))
    OBVIOUS
  <1>3. Answered(p) <=> Answered(p)' \/ p \in PostsOf(Head(toMain))
    BY <1>1, <1>2 DEF Answered
  <1>4. ASSUME AnsweredOnce(p)
        PROVE  AnsweredOnce(p)' /\ ~(Answered(p)' /\ p \in PostsOf(Head(toMain)))
    <2>1. \A i, k \in 1..n + 1 :
             p \in PostsOf(toMain[i]) /\ p \in PostsOf(toMain[k]) => i = k
      BY <1>1, <1>4 DEF AnsweredOnce
    <2>2. AnsweredOnce(p)'
      BY <1>1, <1>2, <2>1 DEF AnsweredOnce
    <2>3. ~(Answered(p)' /\ p \in PostsOf(Head(toMain)))
      BY <1>1, <1>2, <2>1 DEF Answered
    <2> QED  BY <2>2, <2>3
  <1> QED  BY <1>3, <1>4

LEMMA SameRequests ==
    ASSUME toWorker' = toWorker
    PROVE  \A p : (Sent(p)' <=> Sent(p)) /\ (SentOnce(p)' <=> SentOnce(p))
  BY DEF Sent, SentOnce

LEMMA SameAnswers ==
    ASSUME toMain' = toMain
    PROVE  \A p : (Answered(p)' <=> Answered(p)) /\ (AnsweredOnce(p)' <=> AnsweredOnce(p))
  BY DEF Answered, AnsweredOnce

\* An action with the number of its change is delivered: it is in none of the
\* places yet.
LEMMA DeliverPlaces ==
    ASSUME TypeOK, PlacesInv, NEW t \in Trees, NEW a \in Actions, Deliver(t, a),
           t.seq = store.seq + 1, store' = t, t.seq \in Versions,
           a.post \subseteq {t.seq}, a.evaluates \/ a.post = {},
           \A p : (Answered(p)' <=> Answered(p)) /\ (AnsweredOnce(p) => AnsweredOnce(p)'),
           UNCHANGED <<initAction, done>>
    PROVE  PlacesInv'
  <1>1. store.seq \in Nat /\ accepted \subseteq 0..store.seq
    BY DEF TypeOK, Trees, Versions, PlacesInv
  <1>2. \A p \in a.post : p \in Versions /\ p \notin accepted
    BY <1>1
  <1>3. \A p \in Versions : InOnePlace(p)
    BY DEF PlacesInv
  <1>8. accepted \cup a.post \subseteq 0..store'.seq /\ accepted \subseteq 0..store'.seq
    <2>1. store'.seq = store.seq + 1 /\ a.post \subseteq {store.seq + 1}
      OBVIOUS
    <2>2. \A n \in Nat : 0..n \subseteq 0..n + 1 /\ n + 1 \in 0..n + 1
      OBVIOUS
    <2> QED BY <1>1, <2>1, <2>2
  <1>9. listener # "config" => initAction = {}
    BY DEF PlacesInv
  <1>4. CASE listener \in {"start", "config"}
    <2>1. UNCHANGED <<listener, buffer, toWorker, accepted>>
      BY <1>4 DEF Deliver
    <2>2. \A p \in Versions : InOnePlace(p)'
      BY <1>3, <2>1, SameRequests DEF InOnePlace
    <2> QED BY <1>8, <1>9, <2>1, <2>2 DEF PlacesInv
  <1>5. CASE listener = "taking" /\ a.evaluates
    <2> DEFINE r == EvalRequest(t, a, TRUE)
    <2>1. r \in Requests /\ PostsOf(r) = a.post
      BY MessageFacts DEF EvalRequest, PostsOf
    <2>2. /\ toWorker' = Append(toWorker, r) /\ listener' = "evaluating"
          /\ accepted' = accepted \cup a.post /\ UNCHANGED buffer
      BY <1>5 DEF Deliver
    <2> HIDE DEF r
    <2>3. \A p : /\ Sent(p)' <=> Sent(p) \/ p \in a.post
                 /\ SentOnce(p) /\ ~(Sent(p) /\ p \in a.post) => SentOnce(p)'
      BY <2>1, <2>2, RequestSent
    <2>4. \A p \in Versions : InOnePlace(p)'
      BY <1>2, <1>3, <2>2, <2>3 DEF InOnePlace
    <2> QED BY <1>5, <1>8, <1>9, <2>2, <2>4 DEF PlacesInv
  <1>6. CASE listener = "taking" /\ ~a.evaluates
    <2>1. /\ UNCHANGED <<toWorker, buffer>> /\ accepted' = accepted /\ listener' = "finishing"
      BY <1>6 DEF Deliver
    <2>2. \A p \in Versions : InOnePlace(p)'
      BY <1>3, <2>1, SameRequests DEF InOnePlace
    <2> QED BY <1>6, <1>8, <1>9, <2>1, <2>2 DEF PlacesInv
  <1>7. CASE listener \in {"evaluating", "finishing"}
    <2>0. /\ buffer' = Merge(buffer, a) /\ accepted' = accepted \cup a.post
          /\ UNCHANGED <<listener, toWorker>>
      BY <1>7 DEF Deliver
    <2>1. /\ buffer'.post = buffer.post \cup a.post /\ accepted' = accepted \cup a.post
          /\ UNCHANGED <<listener, toWorker>>
      BY <2>0 DEF Merge
    <2>2. \A p \in Versions : InOnePlace(p)'
      BY <1>2, <1>3, <2>1, SameRequests DEF InOnePlace
    <2> QED BY <1>7, <1>8, <1>9, <2>1, <2>2 DEF PlacesInv
  <1> QED BY <1>4, <1>5, <1>6, <1>7 DEF TypeOK

LEMMA PlacesStep ==
    ASSUME TypeInv, NothingYet, PlacesInv, [Next]_vars
    PROVE  PlacesInv'
  <1>0. /\ TypeOK /\ store.seq \in Nat /\ accepted \subseteq 0..store.seq
        /\ listener # "config" => initAction = {}
        /\ \A p \in Versions : InOnePlace(p)
    BY DEF TypeInv, TypeOK, Trees, Versions, PlacesInv
  <1>1. CASE \/ Edit \/ Library
             \/ \E j \in JSObjects \ Typed : JSChange(j)
             \/ \E j \in Typed : Type(j)
             \/ \E j \in Typed, v \in Versions : Saved(j, v)
    <2>1. PICK b \in Bodies, aff \in SUBSET JSObjects, ev \in BOOLEAN,
               fo \in BOOLEAN, po \in SUBSET {store.seq + 1} :
                 Dispatch(b, aff, ev, fo, po) /\ (ev \/ po = {})
      BY <1>1, ChangesDispatch
    <2>2. store.seq + 1 \in Versions
      BY <2>1, NextChange DEF Dispatch
    <2>3. Change(b) \in Trees /\ Change(b).seq = store.seq + 1
      BY <2>2 DEF Change, Trees
    <2> DEFINE a == Action(ev, aff, fo, po)
    <2>4. a \in Actions /\ a.post = po /\ a.evaluates = ev
      BY <2>2 DEF Action, Actions
    <2>5. /\ Deliver(Change(b), a) /\ store' = Change(b)
          /\ UNCHANGED <<initAction, toMain, done>>
      BY <2>1 DEF Dispatch
    <2> HIDE DEF Change, a
    <2>6. \A p : (Answered(p)' <=> Answered(p)) /\ (AnsweredOnce(p) => AnsweredOnce(p)')
      BY <2>5, SameAnswers
    <2> QED BY <1>0, <2>1, <2>2, <2>3, <2>4, <2>5, <2>6, DeliverPlaces
  <1>2. CASE Trigger \/ PageArrives
    <2>1. PICK r \in Requests : toWorker' = Append(toWorker, r) /\ PostsOf(r) = {}
      <3>1. CASE Trigger
        <4>1. [kind |-> "trigger", tree |-> store] \in Requests
          BY <1>0, MessageFacts DEF TypeOK
        <4> QED BY <3>1, <4>1 DEF Trigger, PostsOf
      <3>2. CASE PageArrives
        <4>1. fetches \in 1..MaxFetches
          BY <1>0, <3>2, EvalAssumption DEF TypeInv, TypeOK, Bounded, PageArrives
        <4>2. [kind |-> "clear", fetch |-> fetches] \in Requests
          BY <4>1, MessageFacts
        <4> QED BY <3>2, <4>2 DEF PageArrives, PostsOf
      <3> QED BY <1>2, <3>1, <3>2
    <2>2. UNCHANGED <<store, listener, initAction, buffer, accepted, toMain, done>>
      BY <1>2 DEF Trigger, PageArrives, queueVars
    <2>3. \A p : (Sent(p)' <=> Sent(p)) /\ (SentOnce(p) => SentOnce(p)')
      BY <1>0, <2>1, RequestSent
    <2> QED BY <1>0, <2>2, <2>3, SameAnswers DEF PlacesInv, InOnePlace
  <1>3. CASE PageReady
    <2>1. store.seq + 1 \in Versions
      BY <1>3, EvalAssumption
      DEF TypeInv, TypeOK, Bounded, PageReady, Trees, Versions
    <2>2. /\ toMain # <<>> /\ toMain' = Tail(toMain) /\ PostsOf(Head(toMain)) = {}
          /\ store' = Change(store.body) /\ UNCHANGED done
      BY <1>3 DEF PageReady, PostsOf
    <2>3. \A p : (Answered(p)' <=> Answered(p)) /\ (AnsweredOnce(p) => AnsweredOnce(p)')
      BY <1>0, <2>2, AnswerTaken
    <2>4. Change(store.body) \in Trees /\ Change(store.body).seq = store.seq + 1
      BY <1>0, <2>1 DEF Change, TypeOK, Trees
    <2>5. CASE listener = "start"
      <3>1. /\ initAction' = {store.seq + 1} /\ accepted' = accepted \cup {store.seq + 1}
            /\ listener' = "config" /\ UNCHANGED <<buffer, toWorker>>
        BY <1>3, <2>5 DEF PageReady
      <3>2. initAction = {} /\ store.seq + 1 \notin accepted
        BY <1>0, <2>5
      <3>3. \A p \in Versions : InOnePlace(p)'
        BY <1>0, <2>2, <2>3, <3>1, <3>2, SameRequests DEF InOnePlace
      <3>4. accepted' \subseteq 0..store'.seq
        <4>1. store'.seq = store.seq + 1
          BY <2>2, <2>4
        <4>2. \A n \in Nat : 0..n \subseteq 0..n + 1 /\ n + 1 \in 0..n + 1
          OBVIOUS
        <4> QED BY <1>0, <3>1, <4>1, <4>2
      <3> QED BY <3>1, <3>3, <3>4 DEF PlacesInv
    <2>6. CASE listener # "start"
      <3> DEFINE a == Action(TRUE, JSObjects, FALSE, {store.seq + 1})
      <3>1. a \in Actions /\ a.post = {store.seq + 1} /\ a.evaluates
        BY <2>1 DEF Action, Actions
      <3>2. Deliver(Change(store.body), a) /\ UNCHANGED initAction
        BY <1>3, <2>6 DEF PageReady
      <3> HIDE DEF a, Change
      <3> QED BY <1>0, <2>1, <2>2, <2>3, <2>4, <3>1, <3>2, DeliverPlaces
    <2> QED BY <2>5, <2>6
  <1>4. CASE IgnoreCleared
    <2>1. /\ toMain # <<>> /\ toMain' = Tail(toMain) /\ PostsOf(Head(toMain)) = {}
          /\ UNCHANGED <<store, listener, initAction, buffer, accepted, toWorker, done>>
      BY <1>4 DEF IgnoreCleared, PostsOf, mainVars, queueVars
    <2>2. \A p : (Answered(p)' <=> Answered(p)) /\ (AnsweredOnce(p) => AnsweredOnce(p)')
      BY <1>0, <2>1, AnswerTaken
    <2> QED BY <1>0, <2>1, <2>2, SameRequests DEF PlacesInv, InOnePlace
  <1>5. CASE FirstEvaluation
    <2> DEFINE a == Action(TRUE, JSObjects, FALSE, initAction)
               r == EvalRequest(store, a, FALSE)
    <2>1. a \in Actions /\ a.post = initAction
      BY <1>0 DEF TypeOK, Action, Actions
    <2>2. r \in Requests /\ PostsOf(r) = initAction
      <3> HIDE DEF a
      <3> QED  BY <1>0, <2>1, MessageFacts DEF TypeOK, EvalRequest, PostsOf
    <2>3. /\ toWorker' = Append(toWorker, r) /\ initAction' = {}
          /\ UNCHANGED <<store, buffer, accepted, toMain, done>>
      BY <1>5 DEF FirstEvaluation
    <2> HIDE DEF r
    <2>4. \A p : /\ Sent(p)' <=> Sent(p) \/ p \in initAction
                 /\ SentOnce(p) /\ ~(Sent(p) /\ p \in initAction) => SentOnce(p)'
      BY <1>0, <2>2, <2>3, RequestSent
    <2> QED BY <1>0, <2>3, <2>4, SameAnswers DEF PlacesInv, InOnePlace
  <1>6. CASE TakeBuffered
    <2> DEFINE r == EvalRequest(store, Buffered(buffer), TRUE)
    <2>1. Buffered(buffer) \in Actions /\ Buffered(buffer).post = buffer.post
      BY <1>0 DEF TypeOK, Buffered, Action, Actions
    <2>2. r \in Requests /\ PostsOf(r) = buffer.post
      BY <1>0, <2>1, MessageFacts DEF TypeOK, EvalRequest, PostsOf
    <2>3. /\ toWorker' = Append(toWorker, r) /\ buffer'.post = {}
          /\ listener = "finishing" /\ listener' = "evaluating"
          /\ UNCHANGED <<store, initAction, accepted, toMain, done>>
      BY <1>6 DEF TakeBuffered, EmptyBuffer
    <2> HIDE DEF r
    <2>4. \A p : /\ Sent(p)' <=> Sent(p) \/ p \in buffer.post
                 /\ SentOnce(p) /\ ~(Sent(p) /\ p \in buffer.post) => SentOnce(p)'
      BY <1>0, <2>2, <2>3, RequestSent
    <2> QED BY <1>0, <2>3, <2>4, SameAnswers DEF PlacesInv, InOnePlace
  <1>7. CASE EvalTree \/ EvalTrigger \/ ClearCache
    <2> DEFINE r == Head(toWorker)
    <2>1. /\ toWorker # <<>> /\ toWorker' = Tail(toWorker) /\ r \in Requests
          /\ UNCHANGED <<store, listener, initAction, buffer, accepted, done>>
      BY <1>0, <1>7, HeadTypes DEF EvalTree, EvalTrigger, ClearCache, mainVars, queueVars
    <2>2. \/ toMain' = toMain /\ PostsOf(r) = {}
          \/ \E m \in Replies : toMain' = Append(toMain, m) /\ PostsOf(m) = PostsOf(r)
      <3>1. CASE EvalTree
        <4>1. /\ r.tree \in Trees /\ r.post \in SUBSET Versions
              /\ r.awaited \in BOOLEAN /\ r.force \in BOOLEAN
          BY <2>1, <3>1, MessageFacts DEF EvalTree
        <4>2. /\ Reply(r.tree, r.post, r.awaited, r.force) \in Replies
              /\ PostsOf(Reply(r.tree, r.post, r.awaited, r.force)) = r.post
          BY <1>0, <4>1, MessageFacts DEF Reply, PostsOf
        <4> QED BY <3>1, <4>2 DEF EvalTree, PostsOf
      <3>2. CASE EvalTrigger
        <4>1. r.tree \in Trees /\ {} \in SUBSET Versions /\ FALSE \in BOOLEAN
          BY <2>1, <3>2, MessageFacts DEF EvalTrigger
        <4>2. /\ Reply(r.tree, {}, FALSE, FALSE) \in Replies
              /\ PostsOf(Reply(r.tree, {}, FALSE, FALSE)) = {}
          BY <1>0, <4>1, MessageFacts DEF Reply, PostsOf
        <4>3. PostsOf(r) = {}
          BY <3>2 DEF EvalTrigger, PostsOf
        <4>4. toMain' = toMain \/ toMain' = Append(toMain, Reply(r.tree, {}, FALSE, FALSE))
          BY <3>2 DEF EvalTrigger
        <4> QED BY <4>2, <4>3, <4>4
      <3>3. CASE ClearCache
        <4>1. r.fetch \in 1..MaxFetches
          BY <2>1, <3>3, MessageFacts DEF ClearCache
        <4> QED BY <3>3, <4>1, MessageFacts DEF ClearCache, PostsOf
      <3> QED BY <1>7, <3>1, <3>2, <3>3
    <2>3. \A p : /\ Sent(p) <=> Sent(p)' \/ p \in PostsOf(r)
                 /\ SentOnce(p) => SentOnce(p)' /\ ~(Sent(p)' /\ p \in PostsOf(r))
      BY <1>0, <2>1, RequestTaken
    <2> HIDE DEF r
    <2>4. CASE toMain' = toMain /\ PostsOf(r) = {}
      BY <1>0, <2>1, <2>3, <2>4, SameAnswers DEF PlacesInv, InOnePlace
    <2>5. ASSUME NEW m \in Replies, toMain' = Append(toMain, m), PostsOf(m) = PostsOf(r)
          PROVE  PlacesInv'
      <3>1. \A p : /\ Answered(p)' <=> Answered(p) \/ p \in PostsOf(r)
                   /\ AnsweredOnce(p) /\ ~(Answered(p) /\ p \in PostsOf(r)) => AnsweredOnce(p)'
        BY <1>0, <2>5, AnswerSent
      <3> QED BY <1>0, <2>1, <2>3, <3>1 DEF PlacesInv, InOnePlace
    <2> QED BY <2>2, <2>4, <2>5
  <1>8. CASE ReceiveTree
    <2> DEFINE m == Head(toMain)
    <2>1. /\ toMain # <<>> /\ toMain' = Tail(toMain) /\ done' = done \cup PostsOf(m)
          /\ UNCHANGED <<store, initAction, buffer, accepted, toWorker>>
      BY <1>8 DEF ReceiveTree, PostOf, PostsOf
    <2>2. listener # "config"
      <3>1. toMain[1].kind = "tree" /\ 1 \in 1..Len(toMain)
        BY <1>0, <1>8, ToMainFacts DEF ReceiveTree
      <3> QED BY <3>1 DEF NothingYet, Starting
    <2>3. \A p : /\ Answered(p) <=> Answered(p)' \/ p \in PostsOf(m)
                 /\ AnsweredOnce(p) => AnsweredOnce(p)' /\ ~(Answered(p)' /\ p \in PostsOf(m))
      BY <1>0, <2>1, AnswerTaken
    <2> HIDE DEF m
    <2>4. \A p \in Versions : InOnePlace(p)'
      BY <1>0, <2>1, <2>3, SameRequests DEF InOnePlace
    <2> QED BY <1>0, <2>1, <2>2, <2>4 DEF PlacesInv
  <1>9. CASE FetchPage \/ PageFails \/ WaitForAction \/ UNCHANGED vars
    <2>1. /\ UNCHANGED <<store, initAction, buffer, accepted, toWorker, toMain, done>>
          /\ listener' = "config" <=> listener = "config"
      BY <1>9 DEF FetchPage, PageFails, WaitForAction, vars, mainVars, threadVars, queueVars
    <2> QED BY <1>0, <2>1, SameRequests, SameAnswers DEF PlacesInv, InOnePlace
  <1> QED BY <1>1, <1>2, <1>3, <1>4, <1>5, <1>6, <1>7, <1>8, <1>9 DEF Next

LEMMA PlacesInit == Init => PlacesInv
  <1> SUFFICES ASSUME Init PROVE PlacesInv
    OBVIOUS
  <1>1. /\ accepted = {} /\ done = {} /\ initAction = {} /\ buffer.post = {}
        /\ 1..Len(toWorker) = {} /\ 1..Len(toMain) = {}
    BY EmptySeq DEF Init, EmptyBuffer
  <1> QED  BY <1>1
           DEF PlacesInv, InOnePlace, Sent, SentOnce, Answered, AnsweredOnce

\* The places, in their order.
LEMMA PlacesAre ==
    ASSUME TypeOK
    PROVE  LET w == Len(toWorker)
               n == Len(toMain)
           IN  /\ Len(Places) = 3 + w + n
               /\ Places[1] = done /\ Places[2] = buffer.post
               /\ Places[3] = initAction
               /\ \A i \in 1..w : Places[3 + i] = PostsOf(toWorker[i])
               /\ \A i \in 1..n : Places[3 + w + i] = PostsOf(toMain[i])
  <1> DEFINE w == Len(toWorker)
             n == Len(toMain)
             s == <<done, buffer.post, initAction>>
             q == [i \in 1..w |-> InRequest(i)]
             r == [i \in 1..n |-> InReply(i)]
             S == SUBSET Versions
  <1>1. /\ w \in Nat /\ \A i \in 1..w : toWorker[i] \in Requests
        /\ n \in Nat /\ \A i \in 1..n : toMain[i] \in Replies
    <2>1. toMain \in Seq(Replies)
      BY DEF TypeOK
    <2> QED  BY <2>1, ToWorkerFacts, ElementOfSeq, LenProperties
  <1>2. \A i \in 1..w : InRequest(i) = PostsOf(toWorker[i]) /\ InRequest(i) \in S
    BY <1>1, MessageFacts DEF InRequest, PostsOf
  <1>3. \A i \in 1..n : InReply(i) = PostsOf(toMain[i]) /\ InReply(i) \in S
    BY <1>1, MessageFacts DEF InReply, PostsOf
  <1>4. s \in Seq(S) /\ Len(s) = 3 /\ s[1] = done /\ s[2] = buffer.post /\ s[3] = initAction
    BY DEF TypeOK
  <1>5. q \in Seq(S) /\ Len(q) = w /\ \A i \in 1..w : q[i] = InRequest(i)
    BY <1>1, <1>2, IsASeq
  <1>6. r \in Seq(S) /\ Len(r) = n /\ \A i \in 1..n : r[i] = InReply(i)
    BY <1>1, <1>3, IsASeq
  <1>7. Places = (s \o q) \o r
    BY DEF Places
  <1> HIDE DEF s, q, r, w, n, S
  <1>8. /\ s \o q \in Seq(S) /\ Len(s \o q) = 3 + w
        /\ \A i \in 1..3 : (s \o q)[i] = s[i]
        /\ \A i \in 1..w : (s \o q)[3 + i] = q[i]
    <2>1. /\ s \o q \in Seq(S) /\ Len(s \o q) = Len(s) + Len(q)
          /\ \A i \in 1..Len(s) + Len(q) :
                (s \o q)[i] = IF i <= Len(s) THEN s[i] ELSE q[i - Len(s)]
      BY <1>4, <1>5, ConcatProperties
    <2> QED  BY <1>1, <1>4, <1>5, <2>1
  <1>9. /\ Len(Places) = 3 + w + n
        /\ \A i \in 1..3 + w : Places[i] = (s \o q)[i]
        /\ \A i \in 1..n : Places[3 + w + i] = r[i]
    <2> DEFINE t == s \o q
    <2>0. t \in Seq(S) /\ r \in Seq(S)
      BY <1>6, <1>8
    <2> HIDE DEF t
    <2>1. /\ Len(t \o r) = Len(t) + Len(r)
          /\ \A i \in 1..Len(t) + Len(r) :
                (t \o r)[i] = IF i <= Len(t) THEN t[i] ELSE r[i - Len(t)]
      BY <2>0, ConcatProperties
    <2>2. Len(t) = 3 + w /\ Len(r) = n /\ Places = t \o r
      BY <1>6, <1>7, <1>8 DEF t
    <2>3. \A i \in 1..n : 3 + w + i \in 1..3 + w + n /\ ~(3 + w + i <= 3 + w)
                          /\ (3 + w + i) - (3 + w) = i
      BY <1>1
    <2>4. \A i \in 1..3 + w : i \in 1..3 + w + n /\ i <= 3 + w
      BY <1>1
    <2> QED  BY <2>1, <2>2, <2>3, <2>4 DEF t
  <1>10. 1 \in 1..3 /\ 2 \in 1..3 /\ 3 \in 1..3
    OBVIOUS
  <1>11. /\ \A i \in 1..w : 3 + i \in 1..3 + w
         /\ \A i \in 1..3 : i \in 1..3 + w
    BY <1>1
  <1>12. /\ Len(Places) = 3 + w + n
         /\ Places[1] = done /\ Places[2] = buffer.post /\ Places[3] = initAction
    BY <1>4, <1>8, <1>9, <1>10, <1>11
  <1>13. \A i \in 1..w : Places[3 + i] = PostsOf(toWorker[i])
    BY <1>2, <1>5, <1>8, <1>9, <1>11
  <1>14. \A i \in 1..n : Places[3 + w + i] = PostsOf(toMain[i])
    BY <1>3, <1>6, <1>9
  <1> QED  BY <1>12, <1>13, <1>14 DEF w, n

LEMMA PlacesOne ==
    ASSUME TypeOK, PlacesInv
    PROVE  PostEvalConserved
  <1> DEFINE w == Len(toWorker)
             n == Len(toMain)
  <1>1. /\ w \in Nat /\ n \in Nat
        /\ Len(Places) = 3 + w + n
        /\ Places[1] = done /\ Places[2] = buffer.post
        /\ Places[3] = initAction
        /\ \A i \in 1..w : Places[3 + i] = PostsOf(toWorker[i])
        /\ \A i \in 1..n : Places[3 + w + i] = PostsOf(toMain[i])
    BY PlacesAre, ToWorkerFacts, ToMainFacts
  <1> SUFFICES ASSUME NEW p \in accepted
               PROVE  Cardinality({i \in 1..Len(Places) : p \in Places[i]}) = 1
    BY DEF PostEvalConserved
  <1>2. p \in Versions /\ InOnePlace(p)
    BY DEF TypeOK, PlacesInv
  <1>3. /\ \A i \in 1..3 + w + n :
              \/ i \in {1, 2, 3}
              \/ i - 3 \in 1..w /\ 3 + (i - 3) = i
              \/ i - (3 + w) \in 1..n /\ 3 + w + (i - (3 + w)) = i
        /\ \A i \in 1..w : 3 + i \in 1..3 + w + n
        /\ \A i \in 1..n : 3 + w + i \in 1..3 + w + n
        /\ {1, 2, 3} \subseteq 1..3 + w + n
    BY <1>1
  <1> DEFINE Has(i) == i \in 1..Len(Places) /\ p \in Places[i]
  <1>4. /\ Has(1) <=> p \in done
        /\ Has(2) <=> p \in buffer.post
        /\ Has(3) <=> p \in initAction
    BY <1>1, <1>3
  <1>5. \A i : Has(i) =>
           \/ i \in {1, 2, 3}
           \/ \E k \in 1..w : i = 3 + k /\ p \in PostsOf(toWorker[k])
           \/ \E k \in 1..n : i = 3 + w + k /\ p \in PostsOf(toMain[k])
    <2> SUFFICES ASSUME NEW i, Has(i)
                 PROVE  \/ i \in {1, 2, 3}
                        \/ \E k \in 1..w : i = 3 + k /\ p \in PostsOf(toWorker[k])
                        \/ \E k \in 1..n : i = 3 + w + k /\ p \in PostsOf(toMain[k])
      OBVIOUS
    <2>1. i \in 1..3 + w + n /\ p \in Places[i]
      BY <1>1
    <2>2. CASE i - 3 \in 1..w /\ 3 + (i - 3) = i
      BY <1>1, <2>1, <2>2
    <2>3. CASE i - (3 + w) \in 1..n /\ 3 + w + (i - (3 + w)) = i
      <3>1. p \in PostsOf(toMain[i - (3 + w)])
        BY <1>1, <2>1, <2>3
      <3> QED  BY <2>3, <3>1
    <2> QED  BY <1>3, <2>1, <2>2, <2>3
  <1>6. /\ \A k \in 1..w : p \in PostsOf(toWorker[k]) => Has(3 + k) /\ Sent(p)
        /\ \A k \in 1..n : p \in PostsOf(toMain[k]) => Has(3 + w + k) /\ Answered(p)
    BY <1>1, <1>3 DEF Sent, Answered
  <1>7. SentOnce(p) /\ AnsweredOnce(p)
    BY <1>2 DEF InOnePlace
  <1>8. \A i, k : Has(i) /\ Has(k) => i = k
    <2> SUFFICES ASSUME NEW i, NEW k, Has(i), Has(k)
                 PROVE  i = k
      OBVIOUS
    <2>1. /\ Has(1) => ~Has(2) /\ ~Has(3) /\ ~Sent(p) /\ ~Answered(p)
          /\ Has(2) => ~Has(3) /\ ~Sent(p) /\ ~Answered(p)
          /\ Has(3) => ~Sent(p) /\ ~Answered(p)
          /\ ~(Sent(p) /\ Answered(p))
      BY <1>2, <1>4 DEF InOnePlace
    <2> HIDE DEF Has
    <2>2. CASE i \in {1, 2, 3}
      BY <1>5, <1>6, <2>1, <2>2
    <2>3. CASE \E m \in 1..w : i = 3 + m /\ p \in PostsOf(toWorker[m])
      BY <1>5, <1>6, <1>7, <2>1, <2>3 DEF SentOnce
    <2>4. CASE \E m \in 1..n : i = 3 + w + m /\ p \in PostsOf(toMain[m])
      BY <1>5, <1>6, <1>7, <2>1, <2>4 DEF AnsweredOnce
    <2> QED  BY <1>5, <2>2, <2>3, <2>4
  <1>9. \E i : Has(i)
    <2>1. p \in done \/ p \in buffer.post \/ p \in initAction \/ Sent(p) \/ Answered(p)
      BY <1>2 DEF InOnePlace
    <2> HIDE DEF Has
    <2>2. ASSUME Sent(p) PROVE \E i : Has(i)
      BY <1>6, <2>2 DEF Sent
    <2>3. ASSUME Answered(p) PROVE \E i : Has(i)
      BY <1>6, <2>3 DEF Answered
    <2> QED  BY <1>4, <2>1, <2>2, <2>3
  <1>10. PICK i : {k \in 1..Len(Places) : p \in Places[k]} = {i}
    BY <1>8, <1>9
  <1> QED  BY <1>10, FS_Singleton

\* A post-eval action the saga received is in one place until it is dispatched.
THEOREM PostEvalsConserved == Spec => []PostEvalConserved
  <1>1. TypeInv => TypeOK
    BY DEF TypeInv
  <1>2. NamingInv => NothingYet
    BY DEF NamingInv
  <1>3. Spec => []NamingInv
    BY NamingInit, NamingStep, TypeInvariant, PTL DEF Spec
  <1>4. Spec => []PlacesInv
    BY <1>2, <1>3, PlacesInit, PlacesStep, TypeInvariant, PTL DEF Spec
  <1>5. TypeOK /\ PlacesInv => PostEvalConserved
    BY PlacesOne
  <1> QED  BY <1>1, <1>4, <1>5, TypeInvariant, PTL

-----------------------------------------------------------------------------
(* What the messages of a step are *)

Changing ==
    \/ Edit \/ Library
    \/ \E j \in JSObjects \ Typed : JSChange(j)
    \/ \E j \in Typed : Type(j)
    \/ \E j \in Typed, v \in Versions : Saved(j, v)

Consuming == EvalTree \/ EvalTrigger \/ ClearCache

\* A message is posted: a tree is that of the moment.
Posting(r) ==
    /\ toWorker' = Append(toWorker, r)
    /\ r.kind # "clear" => r.tree = store'

\* An action that reaches the listener may make it post an evaluation.
LEMMA DeliverMessage ==
    ASSUME TypeOK, NEW t \in Trees, NEW a \in Actions, Deliver(t, a), store' = t
    PROVE  \/ UNCHANGED toWorker
           \/ \E r \in Requests : r.kind = "eval" /\ Posting(r)
  <1>1. /\ EvalRequest(t, a, TRUE) \in Requests
        /\ EvalRequest(t, a, TRUE).kind = "eval"
        /\ EvalRequest(t, a, TRUE).tree = t
    BY MessageFacts DEF EvalRequest
  <1>2. UNCHANGED toWorker \/ toWorker' = Append(toWorker, EvalRequest(t, a, TRUE))
    BY DEF Deliver
  <1> QED  BY <1>1, <1>2 DEF Posting

\* A change is numbered, and the listener may post an evaluation of it.
LEMMA ChangeMessage ==
    ASSUME TypeInv, Changing \/ PageReady
    PROVE  /\ store'.seq = store.seq + 1
           /\ \/ UNCHANGED toWorker
              \/ \E r \in Requests : r.kind = "eval" /\ Posting(r)
  <1>0. TypeOK
    BY DEF TypeInv
  <1>1. CASE Changing
    <2>1. PICK b \in Bodies, aff \in SUBSET JSObjects, ev \in BOOLEAN,
               fo \in BOOLEAN, po \in SUBSET {store.seq + 1} :
                 Dispatch(b, aff, ev, fo, po) /\ (ev \/ po = {})
      BY <1>1, ChangesDispatch DEF Changing
    <2>2. store.seq + 1 \in Versions
      BY <2>1, NextChange DEF Dispatch
    <2>3. Change(b) \in Trees /\ Change(b).seq = store.seq + 1
      BY <2>2 DEF Change, Trees
    <2>4. Action(ev, aff, fo, po) \in Actions
      BY <2>2 DEF Action, Actions
    <2>5. Deliver(Change(b), Action(ev, aff, fo, po)) /\ store' = Change(b)
      BY <2>1 DEF Dispatch
    <2> HIDE DEF Change, Action
    <2> QED  BY <1>0, <2>3, <2>4, <2>5, DeliverMessage
  <1>2. CASE PageReady
    <2> DEFINE a == Action(TRUE, JSObjects, FALSE, {store.seq + 1})
    <2>1. store.seq + 1 \in Versions
      BY <1>2, EvalAssumption
      DEF TypeInv, TypeOK, Bounded, PageReady, Trees, Versions
    <2>2. /\ Change(store.body) \in Trees
          /\ Change(store.body).seq = store.seq + 1
          /\ a \in Actions
      BY <1>0, <2>1 DEF Change, TypeOK, Trees, Action, Actions
    <2>3. /\ store' = Change(store.body)
          /\ UNCHANGED toWorker \/ Deliver(Change(store.body), a)
      BY <1>2 DEF PageReady
    <2> HIDE DEF Change, a
    <2> QED  BY <1>0, <2>2, <2>3, DeliverMessage
  <1> QED  BY <1>1, <1>2

\* The other actions of the main thread that post.
LEMMA SagaMessage ==
    ASSUME TypeInv, Trigger \/ FirstEvaluation \/ TakeBuffered
    PROVE  /\ \E r \in Requests : /\ Posting(r) /\ r.kind # "clear"
                                  /\ r.kind = "trigger" => Trigger
           /\ UNCHANGED <<store, page, fetches, evaluator, toMain, done>>
  <1>0. TypeOK
    BY DEF TypeInv
  <1>1. CASE Trigger
    <2>1. [kind |-> "trigger", tree |-> store] \in Requests
      BY <1>0, MessageFacts DEF TypeOK
    <2> QED  BY <1>1, <2>1 DEF Trigger, Posting, pageVars
  <1>2. ASSUME NEW a \in Actions, NEW w \in BOOLEAN,
               toWorker' = Append(toWorker, EvalRequest(store, a, w)),
               UNCHANGED store
        PROVE  \E r \in Requests : Posting(r) /\ r.kind = "eval"
    <2>1. /\ EvalRequest(store, a, w) \in Requests
          /\ EvalRequest(store, a, w).kind = "eval"
          /\ EvalRequest(store, a, w).tree = store
      BY <1>0, MessageFacts DEF TypeOK, EvalRequest
    <2> QED  BY <1>2, <2>1 DEF Posting
  <1>3. CASE FirstEvaluation
    <2>1. Action(TRUE, JSObjects, FALSE, initAction) \in Actions
      BY <1>0 DEF TypeOK, Action, Actions
    <2> HIDE DEF Action
    <2>2. \E r \in Requests : Posting(r) /\ r.kind = "eval"
      BY <1>2, <1>3, <2>1 DEF FirstEvaluation
    <2> QED  BY <1>3, <2>2 DEF FirstEvaluation, pageVars
  <1>4. CASE TakeBuffered
    <2>1. Buffered(buffer) \in Actions
      BY <1>0 DEF TypeOK, Buffered, Action, Actions
    <2> HIDE DEF Buffered
    <2>2. \E r \in Requests : Posting(r) /\ r.kind = "eval"
      BY <1>2, <1>4, <2>1 DEF TakeBuffered
    <2> QED  BY <1>4, <2>2 DEF TakeBuffered, pageVars
  <1> QED  BY <1>1, <1>3, <1>4

\* A page that arrives posts a request to clear the cache.
LEMMA ArrivalMessage ==
    ASSUME TypeInv, PageArrives
    PROVE  \E r \in Requests : /\ Posting(r) /\ r.kind = "clear"
                               /\ r.fetch = fetches
  <1>1. fetches \in 1..MaxFetches
    BY EvalAssumption DEF TypeInv, TypeOK, Bounded, PageArrives
  <1>2. [kind |-> "clear", fetch |-> fetches] \in Requests
    BY <1>1, MessageFacts
  <1> QED  BY <1>2 DEF PageArrives, Posting

\* The worker answers a request, or drops a trigger.
LEMMA WorkerMessage ==
    ASSUME TypeInv, Consuming
    PROVE  LET r == Head(toWorker)
           IN  /\ toWorker # <<>> /\ toWorker' = Tail(toWorker) /\ r \in Requests
               /\ UNCHANGED <<store, page, fetches, listener, buffer, done>>
               /\ \/ /\ r.kind # "clear" /\ evaluator'.exists
                     /\ evaluator'.tree = r.tree
                     /\ \E m \in Replies :
                           /\ toMain' = Append(toMain, m)
                           /\ m.kind = "tree" /\ m.version = r.tree.seq
                           /\ m.anew => /\ evaluator.exists
                                        /\ r.kind = "eval" /\ r.force
                                        /\ m.base = evaluator.tree.seq
                  \/ /\ r.kind = "trigger" /\ ~evaluator.exists
                     /\ UNCHANGED <<evaluator, toMain>>
                  \/ /\ r.kind = "clear" /\ ~evaluator'.exists
                     /\ \E m \in Replies : /\ toMain' = Append(toMain, m)
                                           /\ m.kind = "cleared"
                                           /\ m.fetch = r.fetch
  <1> DEFINE r == Head(toWorker)
  <1>1. /\ toWorker # <<>> /\ toWorker' = Tail(toWorker)
        /\ UNCHANGED <<store, page, fetches, listener, buffer, done>>
    BY DEF Consuming, EvalTree, EvalTrigger, ClearCache, mainVars, pageVars,
           queueVars
  <1>2. r \in Requests /\ TypeOK
    BY <1>1, HeadTypes DEF TypeInv
  <1>3. CASE EvalTree
    <2>1. /\ r.tree \in Trees /\ r.post \in SUBSET Versions
          /\ r.awaited \in BOOLEAN /\ r.force \in BOOLEAN
      BY <1>2, <1>3, MessageFacts DEF EvalTree
    <2>2. /\ Reply(r.tree, r.post, r.awaited, r.force) \in Replies
          /\ Reply(r.tree, r.post, r.awaited, r.force).kind = "tree"
          /\ Reply(r.tree, r.post, r.awaited, r.force).version = r.tree.seq
          /\ Reply(r.tree, r.post, r.awaited, r.force).anew =>
                evaluator.exists /\ r.force
          /\ Reply(r.tree, r.post, r.awaited, r.force).base = evaluator.tree.seq
      BY <1>2, <2>1, MessageFacts DEF Reply
    <2>3. /\ r.kind = "eval" /\ evaluator'.exists /\ evaluator'.tree = r.tree
          /\ toMain' = Append(toMain, Reply(r.tree, r.post, r.awaited, r.force))
      BY <1>3 DEF EvalTree
    <2> QED  BY <1>1, <1>2, <2>2, <2>3
  <1>4. CASE EvalTrigger
    <2>1. r.kind = "trigger" /\ r.tree \in Trees
      BY <1>2, <1>4, MessageFacts DEF EvalTrigger
    <2>2. /\ Reply(r.tree, {}, FALSE, FALSE) \in Replies
          /\ Reply(r.tree, {}, FALSE, FALSE).kind = "tree"
          /\ Reply(r.tree, {}, FALSE, FALSE).version = r.tree.seq
          /\ ~Reply(r.tree, {}, FALSE, FALSE).anew
      BY <1>2, <2>1, MessageFacts DEF Reply
    <2>3. CASE evaluator.exists
      <3>1. /\ evaluator' = [exists |-> TRUE, tree |-> r.tree,
                             parsed |-> Parsed(r.tree, JSObjects)]
            /\ toMain' = Append(toMain, Reply(r.tree, {}, FALSE, FALSE))
        BY <1>4, <2>3, Zenon DEF EvalTrigger
      <3>2. evaluator'.exists /\ evaluator'.tree = r.tree
        BY <3>1
      <3> QED  BY <1>1, <1>2, <2>1, <2>2, <3>1, <3>2
    <2>4. CASE ~evaluator.exists
      <3>1. UNCHANGED <<evaluator, toMain>>
        BY <1>4, <2>4, Zenon DEF EvalTrigger
      <3> QED  BY <1>1, <1>2, <2>1, <2>4, <3>1
    <2> QED  BY <2>3, <2>4
  <1>5. CASE ClearCache
    <2>1. r.kind = "clear" /\ r.fetch \in 1..MaxFetches
      BY <1>2, <1>5, MessageFacts DEF ClearCache
    <2>2. [kind |-> "cleared", fetch |-> r.fetch] \in Replies
      BY <2>1, MessageFacts
    <2>3. /\ ~evaluator'.exists
          /\ toMain' = Append(toMain, [kind |-> "cleared", fetch |-> r.fetch])
      BY <1>5 DEF ClearCache
    <2> QED  BY <1>1, <1>2, <2>1, <2>2, <2>3
  <1> QED  BY <1>3, <1>4, <1>5 DEF Consuming

\* The main thread takes an answer.
LEMMA AnswerMessage ==
    ASSUME TypeInv, ReceiveTree \/ IgnoreCleared \/ PageReady
    PROVE  LET m == Head(toMain)
           IN  /\ toMain # <<>> /\ toMain' = Tail(toMain) /\ m \in Replies
               /\ ReceiveTree => m.kind = "tree" /\ done' = done \cup m.post
               /\ ~ReceiveTree => done' = done
               /\ UNCHANGED <<evaluator, fetches>>
  <1> DEFINE m == Head(toMain)
  <1>1. /\ toMain # <<>> /\ toMain' = Tail(toMain)
        /\ UNCHANGED <<evaluator, fetches>>
    BY DEF ReceiveTree, IgnoreCleared, PageReady, mainVars, pageVars
  <1>2. m \in Replies
    BY <1>1, HeadTypes DEF TypeInv
  <1>3. ReceiveTree => m.kind = "tree" /\ done' = done \cup m.post
    BY DEF ReceiveTree, PostOf
  <1>4. ~ReceiveTree => done' = done
    BY DEF IgnoreCleared, PageReady, mainVars
  <1> QED  BY <1>1, <1>2, <1>3, <1>4

-----------------------------------------------------------------------------
(* The order of the trees *)

\* The state and the requests from the i-th on have trees that are no older
\* than v.
Below(v, i) ==
    /\ v <= store.seq
    /\ \A k \in i..Len(toWorker) :
          toWorker[k].kind # "clear" => v <= toWorker[k].tree.seq

\* The trees of the requests grow.
RequestsGrow ==
    \A i \in 1..Len(toWorker) :
        toWorker[i].kind # "clear" => Below(toWorker[i].tree.seq, i)

\* The worker's tree is no older than v, nor is one it will get.
Seen(v) ==
    Below(v, 1) /\ (evaluator.exists => v <= evaluator.tree.seq)

TreesGrow ==
    /\ RequestsGrow
    /\ evaluator.exists => Below(evaluator.tree.seq, 1)
    /\ \A p \in done : Seen(p)
    /\ \A i \in 1..Len(toMain) : IsTree(i) => Seen(toMain[i].version)

\* The numbers of the trees.
LEMMA TreeNumbers ==
    ASSUME TypeOK
    PROVE  /\ Versions \subseteq Nat
           /\ store.seq \in Versions /\ evaluator.tree.seq \in Versions
           /\ \A i \in 1..Len(toWorker) :
                 toWorker[i].kind # "clear" => toWorker[i].tree.seq \in Versions
           /\ \A i \in 1..Len(toMain) :
                 IsTree(i) => toMain[i].version \in Versions
  <1>1. Versions \subseteq Nat /\ \A t \in Trees : t.seq \in Versions
    BY DEF Trees, Versions
  <1>2. store \in Trees /\ evaluator.tree \in Trees
    BY DEF TypeOK
  <1>3. \A i \in 1..Len(toWorker) :
           toWorker[i].kind # "clear" => toWorker[i].tree \in Trees
    BY ToWorkerFacts, MessageFacts
  <1>4. \A i \in 1..Len(toMain) : toMain[i] \in Replies
    <2>1. toMain \in Seq(Replies)
      BY DEF TypeOK
    <2> QED  BY <2>1, ElementOfSeq
  <1>5. \A i \in 1..Len(toMain) : IsTree(i) => toMain[i].version \in Versions
    BY <1>4, MessageFacts DEF IsTree
  <1> QED  BY <1>1, <1>2, <1>3, <1>5

\* Posting the state of the moment.
LEMMA BelowPosted ==
    ASSUME TypeOK, TypeOK', store.seq <= store'.seq,
           \/ UNCHANGED toWorker
           \/ \E r \in Requests : Posting(r)
    PROVE  /\ \A v \in Versions, i \in Nat \ {0} : Below(v, i) => Below(v, i)'
           /\ RequestsGrow => RequestsGrow'
  <1>1. /\ store.seq \in Nat /\ Versions \subseteq Nat
        /\ Len(toWorker) \in Nat
        /\ \A i \in 1..Len(toWorker) :
              toWorker[i].kind # "clear" => toWorker[i].tree.seq \in Versions
    BY ToWorkerFacts, TreeNumbers
  <1>2. store'.seq \in Nat /\ store'.seq \in Versions
    BY DEF TypeOK, Trees, Versions
  <1>3. \A v \in Versions : v <= store.seq => v <= store'.seq
    BY <1>1, <1>2
  <1>4. CASE UNCHANGED toWorker
    <2>1. \A v \in Versions, i \in Nat \ {0} : Below(v, i) => Below(v, i)'
      BY <1>3, <1>4 DEF Below
    <2>2. \A i \in 1..Len(toWorker) : i \in Nat \ {0}
      BY <1>1
    <2>3. RequestsGrow => RequestsGrow'
      BY <1>1, <1>4, <2>1, <2>2 DEF RequestsGrow
    <2> QED  BY <2>1, <2>3
  <1>5. ASSUME NEW r \in Requests, Posting(r)
        PROVE  /\ \A v \in Versions, i \in Nat \ {0} : Below(v, i) => Below(v, i)'
               /\ RequestsGrow => RequestsGrow'
    <2> DEFINE n == Len(toWorker)
    <2>1. /\ n \in Nat /\ Len(toWorker') = n + 1 /\ toWorker'[n + 1] = r
          /\ \A i \in 1..n : toWorker'[i] = toWorker[i]
          /\ r.kind # "clear" => r.tree.seq = store'.seq
      BY <1>5, ToWorkerFacts DEF Posting
    <2> HIDE DEF n
    <2>2. ASSUME NEW v \in Versions, NEW i \in Nat \ {0}, v <= store'.seq,
                 \A k \in i..n :
                    toWorker[k].kind # "clear" => v <= toWorker[k].tree.seq
          PROVE  Below(v, i)'
      <3>1. ASSUME NEW k \in i..n + 1, toWorker'[k].kind # "clear"
            PROVE  v <= toWorker'[k].tree.seq
        <4>1. CASE k = n + 1
          BY <2>1, <2>2, <3>1, <4>1
        <4>2. CASE k # n + 1
          <5>1. k \in i..n /\ k \in 1..n
            BY <2>1, <4>2
          <5> QED  BY <2>1, <2>2, <3>1, <5>1
        <4> QED  BY <4>1, <4>2
      <3> QED  BY <2>1, <2>2, <3>1 DEF Below
    <2>3. \A v \in Versions, i \in Nat \ {0} : Below(v, i) => Below(v, i)'
      BY <1>3, <2>2 DEF Below, n
    <2>4. ASSUME RequestsGrow, NEW i \in 1..n + 1, toWorker'[i].kind # "clear"
          PROVE  \E v \in Versions : v = toWorker'[i].tree.seq /\ Below(v, i)'
      <3>1. CASE i = n + 1
        <4>1. /\ toWorker'[i].tree.seq = store'.seq /\ i \in Nat \ {0}
              /\ store'.seq <= store'.seq /\ \A k \in i..n : FALSE
          BY <1>2, <2>1, <2>4, <3>1
        <4> QED  BY <1>2, <2>2, <4>1
      <3>2. CASE i # n + 1
        <4>1. i \in 1..n /\ i \in Nat \ {0}
          BY <2>1, <3>2
        <4>2. /\ toWorker'[i] = toWorker[i] /\ toWorker[i].tree.seq \in Versions
              /\ Below(toWorker[i].tree.seq, i)
          BY <1>1, <2>1, <2>4, <4>1 DEF RequestsGrow, n
        <4> QED  BY <2>3, <4>1, <4>2
      <3> QED  BY <3>1, <3>2
    <2>5. RequestsGrow => RequestsGrow'
      BY <2>1, <2>4 DEF RequestsGrow, Below
    <2> QED  BY <2>3, <2>5
  <1> QED  BY <1>4, <1>5

\* The worker takes the oldest request: the others move up by one.
LEMMA BelowTaken ==
    ASSUME TypeOK, toWorker # <<>>, toWorker' = Tail(toWorker), UNCHANGED store
    PROVE  LET r == Head(toWorker)
           IN  /\ \A v \in Versions : Below(v, 1) => Below(v, 1)'
               /\ \A v \in Versions : Below(v, 1) /\ r.kind # "clear" => v <= r.tree.seq
               /\ RequestsGrow => /\ RequestsGrow'
                                  /\ r.kind # "clear" => Below(r.tree.seq, 1)
  <1> DEFINE r == Head(toWorker)
             n == Len(toWorker) - 1
  <1>1. /\ n \in Nat /\ Len(toWorker') = n /\ Len(toWorker) = n + 1
        /\ r = toWorker[1] /\ 1 \in 1..n + 1
        /\ \A i \in 1..n : toWorker'[i] = toWorker[i + 1]
    BY ToWorkerFacts
  <1> HIDE DEF r, n
  <1>2. ASSUME NEW v \in Versions, NEW i \in Nat \ {0}, Below(v, i + 1)
        PROVE  Below(v, i)'
    <2>1. \A k \in i..n : k + 1 \in i + 1..n + 1 /\ k \in 1..n
      BY <1>1
    <2> QED  BY <1>1, <1>2, <2>1 DEF Below
  <1>3. ASSUME NEW v \in Versions, Below(v, 1)
        PROVE  Below(v, 1)'
    <2>1. \A k \in 1 + 1..n + 1 : k \in 1..n + 1
      BY <1>1
    <2>2. Below(v, 1 + 1)
      BY <1>1, <1>3, <2>1 DEF Below
    <2> QED  BY <1>2, <2>2
  <1>4. ASSUME NEW v \in Versions, Below(v, 1), r.kind # "clear"
        PROVE  v <= r.tree.seq
    BY <1>1, <1>4 DEF Below
  <1>5. ASSUME RequestsGrow, NEW i \in 1..n, toWorker'[i].kind # "clear"
        PROVE  \E v \in Versions : v = toWorker'[i].tree.seq /\ Below(v, i)'
    <2>1. /\ toWorker'[i] = toWorker[i + 1] /\ i + 1 \in 1..n + 1
          /\ i \in Nat \ {0}
      BY <1>1
    <2>2. toWorker[i + 1].tree.seq \in Versions
      BY <1>1, <1>5, <2>1, TreeNumbers
    <2>3. Below(toWorker[i + 1].tree.seq, i + 1)
      BY <1>1, <1>5, <2>1 DEF RequestsGrow
    <2> QED  BY <1>2, <2>1, <2>2, <2>3
  <1>6. RequestsGrow => RequestsGrow'
    BY <1>1, <1>5 DEF RequestsGrow, Below
  <1>7. RequestsGrow /\ r.kind # "clear" => Below(r.tree.seq, 1)
    BY <1>1 DEF RequestsGrow
  <1> QED  BY <1>3, <1>4, <1>6, <1>7 DEF r

LEMMA TreesStep ==
    ASSUME TypeInv, TypeInv', PostsInv, TreesGrow, [Next]_vars
    PROVE  TreesGrow'
  <1>0. /\ TypeOK /\ TypeOK' /\ RequestsGrow
        /\ evaluator.exists => Below(evaluator.tree.seq, 1)
        /\ \A p \in done : Seen(p)
        /\ \A i \in 1..Len(toMain) : IsTree(i) => Seen(toMain[i].version)
    BY DEF TypeInv, TreesGrow
  <1>1. /\ done \subseteq Versions /\ 1 \in Nat \ {0} /\ 0 \in Nat
        /\ Versions \subseteq Nat /\ store.seq \in Nat
        /\ evaluator.tree.seq \in Versions
        /\ \A i \in 1..Len(toMain) : IsTree(i) => toMain[i].version \in Versions
    BY <1>0, TreeNumbers DEF TypeOK
  \* What was dispatched and what is on its way stay seen.
  <1>2. ASSUME \A v \in Versions : Seen(v) => Seen(v)',
               done' = done, RequestsGrow',
               evaluator'.exists => Below(evaluator.tree.seq, 1)',
               \/ UNCHANGED toMain
               \/ toMain # <<>> /\ toMain' = Tail(toMain)
        PROVE  TreesGrow'
    <2>1. \A i \in 1..Len(toMain') : IsTree(i)' =>
             \E v \in Versions : v = toMain'[i].version /\ Seen(v)'
      <3>1. CASE UNCHANGED toMain
        BY <1>0, <1>1, <1>2, <3>1 DEF IsTree
      <3>2. CASE toMain # <<>> /\ toMain' = Tail(toMain)
        <4>1. /\ Len(toMain) \in Nat /\ Len(toMain') = Len(toMain) - 1
              /\ \A i \in 1..Len(toMain') : toMain'[i] = toMain[i + 1]
          BY <1>0, <3>2, ToMainFacts
        <4>2. \A i \in 1..Len(toMain') : i + 1 \in 1..Len(toMain)
          BY <4>1
        <4> QED  BY <1>0, <1>1, <1>2, <4>1, <4>2 DEF IsTree
      <3> QED  BY <1>2, <3>1, <3>2
    <2> QED  BY <1>0, <1>1, <1>2, <2>1 DEF TreesGrow, Seen, Below, IsTree
  \* The main thread posts, or does nothing to the trees.
  <1>3. ASSUME store.seq <= store'.seq,
               UNCHANGED toWorker \/ \E r \in Requests : Posting(r),
               UNCHANGED <<evaluator, done>>,
               \/ UNCHANGED toMain
               \/ toMain # <<>> /\ toMain' = Tail(toMain)
        PROVE  TreesGrow'
    <2>1. /\ \A v \in Versions : Below(v, 1) => Below(v, 1)'
          /\ RequestsGrow'
      BY <1>0, <1>1, <1>3, BelowPosted
    <2>2. \A v \in Versions : Seen(v) => Seen(v)'
      BY <1>3, <2>1 DEF Seen
    <2> QED  BY <1>0, <1>1, <1>2, <1>3, <2>1, <2>2
  <1>4. CASE Changing \/ PageReady
    <2>1. UNCHANGED <<evaluator, done>>
      BY <1>4 DEF Changing, PageReady, Edit, Library, JSChange, Type, Saved,
                  Dispatch
    <2>2. UNCHANGED toMain \/ (toMain # <<>> /\ toMain' = Tail(toMain))
      <3>1. Changing => UNCHANGED toMain
        BY DEF Changing, Edit, Library, JSChange, Type, Saved, Dispatch
      <3>2. PageReady => toMain # <<>> /\ toMain' = Tail(toMain)
        BY DEF PageReady
      <3> QED  BY <1>4, <3>1, <3>2
    <2>3. /\ store.seq <= store'.seq
          /\ UNCHANGED toWorker \/ \E r \in Requests : Posting(r)
      BY <1>1, <1>4, ChangeMessage
    <2> QED  BY <1>3, <2>1, <2>2, <2>3
  <1>5. CASE Trigger \/ FirstEvaluation \/ TakeBuffered
    BY <1>1, <1>3, <1>5, SagaMessage
  <1>6. CASE PageArrives
    <2>1. UNCHANGED <<store, evaluator, toMain, done>>
      BY <1>6 DEF PageArrives
    <2>2. \E r \in Requests : Posting(r)
      BY <1>6, ArrivalMessage
    <2> QED  BY <1>1, <1>3, <2>1, <2>2
  <1>7. CASE IgnoreCleared
    <2>1. UNCHANGED <<store, toWorker, evaluator, done>>
      BY <1>7 DEF IgnoreCleared, mainVars
    <2>2. toMain # <<>> /\ toMain' = Tail(toMain)
      BY <1>7 DEF IgnoreCleared
    <2> QED  BY <1>1, <1>3, <2>1, <2>2
  <1>8. CASE ReceiveTree
    <2> DEFINE m == Head(toMain)
    <2>1. /\ toMain # <<>> /\ toMain' = Tail(toMain) /\ m = toMain[1]
          /\ m.kind = "tree" /\ done' = done \cup m.post
          /\ UNCHANGED <<store, toWorker, evaluator>> /\ 1 \in 1..Len(toMain)
          /\ Len(toMain) \in Nat /\ Len(toMain') = Len(toMain) - 1
          /\ \A i \in 1..Len(toMain') : toMain'[i] = toMain[i + 1]
      BY <1>0, <1>8, ToMainFacts DEF ReceiveTree, PostOf
    <2>2. Seen(m.version) /\ m.version \in Nat /\ m.post \subseteq 0..m.version
      BY <1>0, <1>1, <2>1 DEF IsTree, PostsInv, ReplyPosts
    <2> HIDE DEF m
    <2>3. ASSUME NEW p \in m.post PROVE Seen(p)
      <3>1. p \in Nat /\ m.version \in Nat /\ p <= m.version
        BY <2>2
      <3>2. /\ \A i \in 1..Len(toWorker) : toWorker[i].kind # "clear" =>
                  toWorker[i].tree.seq \in Nat
            /\ evaluator.tree.seq \in Nat
        BY <1>0, <1>1, TreeNumbers
      <3>3. \A n \in Nat : m.version <= n => p <= n
        BY <3>1
      <3> QED  BY <1>1, <2>2, <3>2, <3>3 DEF Seen, Below
    <2>4. \A i \in 1..Len(toMain') : i + 1 \in 1..Len(toMain)
      BY <2>1
    <2>5. /\ RequestsGrow'
          /\ evaluator'.exists => Below(evaluator.tree.seq, 1)'
          /\ \A v : Seen(v) => Seen(v)'
      BY <1>0, <2>1 DEF RequestsGrow, Below, Seen
    <2> QED  BY <1>0, <2>1, <2>3, <2>4, <2>5 DEF TreesGrow, IsTree, Seen, Below
  <1>9. CASE Consuming
    <2> DEFINE r == Head(toWorker)
    <2>1. /\ toWorker # <<>> /\ toWorker' = Tail(toWorker) /\ r \in Requests
          /\ UNCHANGED <<store, done>>
          /\ \/ /\ r.kind # "clear" /\ evaluator'.exists
                /\ evaluator'.tree = r.tree
                /\ \E m \in Replies : /\ toMain' = Append(toMain, m)
                                      /\ m.kind = "tree"
                                      /\ m.version = r.tree.seq
             \/ /\ r.kind = "trigger" /\ ~evaluator.exists
                /\ UNCHANGED <<evaluator, toMain>>
             \/ /\ r.kind = "clear" /\ ~evaluator'.exists
                /\ \E m \in Replies : /\ toMain' = Append(toMain, m)
                                      /\ m.kind = "cleared"
      BY <1>9, WorkerMessage
    <2>2. /\ \A v \in Versions : Below(v, 1) => Below(v, 1)'
          /\ \A v \in Versions : Below(v, 1) /\ r.kind # "clear" => v <= r.tree.seq
          /\ RequestsGrow'
          /\ r.kind # "clear" => Below(r.tree.seq, 1)
      BY <1>0, <2>1, BelowTaken
    <2>3. r.kind # "clear" => r.tree.seq \in Versions
      BY <2>1, MessageFacts DEF Trees
    <2> HIDE DEF r
    <2>4. ASSUME NEW m \in Replies, toMain' = Append(toMain, m)
          PROVE  /\ Len(toMain) \in Nat /\ Len(toMain') = Len(toMain) + 1
                 /\ \A i \in 1..Len(toMain) : toMain'[i] = toMain[i]
                 /\ toMain'[Len(toMain) + 1] = m
      BY <1>0, <2>4, ToMainFacts
    <2>5. CASE /\ r.kind = "trigger" /\ ~evaluator.exists
               /\ UNCHANGED <<evaluator, toMain>>
      <3>1. UNCHANGED <<evaluator, toMain>>
        BY <2>5
      <3>2. \A v \in Versions : Seen(v) => Seen(v)'
        BY <2>2, <2>5, <3>1 DEF Seen
      <3> QED  BY <1>2, <2>1, <2>2, <2>5, <3>1, <3>2
    <2>6. CASE r.kind = "clear"
      <3>1. ~evaluator'.exists
        BY <2>1, <2>6
      <3>2. \A v \in Versions : Seen(v) => Seen(v)'
        BY <2>2, <3>1 DEF Seen
      <3>3. PICK m \in Replies : toMain' = Append(toMain, m) /\ m.kind = "cleared"
        BY <2>1, <2>6
      <3>4. \A i \in 1..Len(toMain') : IsTree(i)' =>
               i \in 1..Len(toMain) /\ IsTree(i) /\ toMain'[i] = toMain[i]
        BY <2>4, <3>3 DEF IsTree
      <3>5. \A i \in 1..Len(toMain') : IsTree(i)' =>
               \E v \in Versions : v = toMain'[i].version /\ Seen(v)'
        BY <1>0, <1>1, <3>2, <3>4
      <3> QED  BY <1>0, <1>1, <2>1, <2>2, <3>1, <3>2, <3>5
               DEF TreesGrow, Seen, Below
    <2>7. CASE r.kind # "clear" /\ evaluator'.exists /\ evaluator'.tree = r.tree
               /\ \E m \in Replies : /\ toMain' = Append(toMain, m)
                                     /\ m.kind = "tree"
                                     /\ m.version = r.tree.seq
      <3>1. \A v \in Versions : Below(v, 1) => Seen(v)'
        BY <2>2, <2>7 DEF Seen
      <3>2. PICK m \in Replies : /\ toMain' = Append(toMain, m)
                                 /\ m.version = r.tree.seq
        BY <2>7
      <3>3. ASSUME NEW i \in 1..Len(toMain'), IsTree(i)'
            PROVE  \E v \in Versions : v = toMain'[i].version /\ Seen(v)'
        <4>1. CASE i = Len(toMain) + 1
          BY <2>2, <2>3, <2>4, <2>7, <3>1, <3>2, <4>1
        <4>2. CASE i # Len(toMain) + 1
          <5>1. i \in 1..Len(toMain) /\ toMain'[i] = toMain[i]
            BY <2>4, <3>2, <4>2
          <5> QED  BY <1>0, <1>1, <3>1, <3>3, <5>1 DEF IsTree, Seen
        <4> QED  BY <4>1, <4>2
      <3>4. \A p \in done' : Seen(p)'
        BY <1>0, <1>1, <2>1, <3>1 DEF Seen
      <3>5. \E v \in Versions : v = evaluator'.tree.seq /\ Seen(v)'
        BY <2>2, <2>3, <2>7, <3>1
      <3> QED  BY <2>2, <3>3, <3>4, <3>5 DEF TreesGrow, Seen, Below
    <2> QED  BY <2>1, <2>5, <2>6, <2>7
  <1>10. CASE FetchPage \/ PageFails \/ WaitForAction \/ UNCHANGED vars
    <2>1. UNCHANGED <<store, toWorker, evaluator, toMain, done>>
      BY <1>10 DEF FetchPage, PageFails, WaitForAction, vars, mainVars, threadVars
    <2> QED  BY <1>1, <1>3, <2>1
  <1> QED
    BY <1>4, <1>5, <1>6, <1>7, <1>8, <1>9, <1>10 DEF Next, Changing, Consuming

-----------------------------------------------------------------------------
(* An idle page has an evaluator *)

\* The requests to clear the cache, and the answers to them.
Clears  == {i \in 1..Len(toWorker) : toWorker[i].kind = "clear"}
Cleared == {i \in 1..Len(toMain) : toMain[i].kind = "cleared"}

\* Those of cancelled fetches.  Only the last fetch waits for its cache to be
\* cleared, and only while its page is not there.
AllCancelled ==
    /\ \A i \in Clears : toWorker[i].fetch < fetches
    /\ \A i \in Cleared : toMain[i].fetch < fetches

ClearsInv ==
    /\ \A k \in Clears : /\ toWorker[k].fetch <= fetches
                         /\ \A i \in Clears : i < k => toWorker[i].fetch < fetches
                         /\ \A i \in Cleared : toMain[i].fetch < fetches
    /\ \A k \in Cleared : /\ toMain[k].fetch <= fetches
                          /\ \A i \in Cleared : i < k => toMain[i].fetch < fetches
    /\ page \in {"fetching", "failed"} => AllCancelled
    /\ page = "idle" => Clears = {} /\ Cleared = {}

\* Once the listener runs and no page is fetched, the worker has an evaluator,
\* or an evaluation is on its way to it or in the buffer.
HasEvaluator ==
    page = "idle" /\ ~Starting =>
        \/ evaluator.exists
        \/ \E i \in 1..Len(toWorker) : toWorker[i].kind = "eval"
        \/ listener \in {"evaluating", "finishing"} /\ buffer.canTake

LEMMA FetchNumbers ==
    ASSUME TypeOK
    PROVE  /\ fetches \in Nat
           /\ \A i \in Clears : toWorker[i].fetch \in Nat
           /\ \A i \in Cleared : toMain[i].fetch \in Nat
           /\ Clears \subseteq Nat /\ Cleared \subseteq Nat
  <1>1. \A i \in 1..Len(toMain) : toMain[i] \in Replies
    <2>1. toMain \in Seq(Replies)
      BY DEF TypeOK
    <2> QED  BY <2>1, ElementOfSeq
  <1>2. \A i \in Clears : toWorker[i].fetch \in Nat
    BY ToWorkerFacts, MessageFacts DEF Clears
  <1>3. \A i \in Cleared : toMain[i].fetch \in Nat
    BY <1>1, MessageFacts DEF Cleared
  <1>4. Clears \subseteq Nat /\ Cleared \subseteq Nat
    BY ToWorkerFacts, ToMainFacts DEF Clears, Cleared
  <1>5. fetches \in Nat
    BY DEF TypeOK
  <1> QED  BY <1>2, <1>3, <1>4, <1>5

\* Messages about the cache move up by a and by b, and none is new.
LEMMA ClearsKept ==
    ASSUME TypeOK, TypeOK', ClearsInv, NEW a \in {0, 1}, NEW b \in {0, 1},
           \A k \in Clears' : k + a \in Clears /\ toWorker'[k] = toWorker[k + a],
           \A k \in Cleared' : k + b \in Cleared /\ toMain'[k] = toMain[k + b],
           UNCHANGED fetches,
           page' = page \/ (page = "fetching" /\ page' = "failed")
    PROVE  ClearsInv'
  <1>1. /\ Clears' \subseteq Nat /\ Cleared' \subseteq Nat
        /\ \A i, k \in Nat : i < k => i + a < k + a
        /\ \A i, k \in Nat : i < k => i + b < k + b
    BY FetchNumbers DEF Clears, Cleared
  <1>2. AllCancelled => AllCancelled'
    BY DEF AllCancelled
  <1>3. \A k \in Clears' : /\ toWorker'[k].fetch <= fetches
                           /\ \A i \in Clears' : i < k => toWorker'[i].fetch < fetches
                           /\ \A i \in Cleared' : toMain'[i].fetch < fetches
    BY <1>1 DEF ClearsInv
  <1>4. \A k \in Cleared' : /\ toMain'[k].fetch <= fetches
                            /\ \A i \in Cleared' : i < k => toMain'[i].fetch < fetches
    BY <1>1 DEF ClearsInv
  <1> QED  BY <1>2, <1>3, <1>4 DEF ClearsInv

\* What happens to them when a queue changes.
LEMMA ClearsPosted ==
    ASSUME TypeOK, NEW r \in Requests, toWorker' = Append(toWorker, r)
    PROVE  /\ r.kind # "clear" =>
                 \A k \in Clears' : k + 0 \in Clears /\ toWorker'[k] = toWorker[k + 0]
           /\ r.kind = "clear" =>
                 \A k \in Clears' :
                    \/ k \in Clears /\ toWorker'[k] = toWorker[k]
                    \/ k = Len(toWorker) + 1 /\ toWorker'[k] = r
  BY ToWorkerFacts DEF Clears

LEMMA ClearsTaken ==
    ASSUME TypeOK, toWorker # <<>>, toWorker' = Tail(toWorker)
    PROVE  \A k \in Clears' : k + 1 \in Clears /\ toWorker'[k] = toWorker[k + 1]
  BY ToWorkerFacts DEF Clears

LEMMA ClearedPosted ==
    ASSUME TypeOK, NEW m \in Replies, toMain' = Append(toMain, m)
    PROVE  /\ m.kind = "tree" =>
                 \A k \in Cleared' : k + 0 \in Cleared /\ toMain'[k] = toMain[k + 0]
           /\ m.kind = "cleared" =>
                 \A k \in Cleared' :
                    \/ k \in Cleared /\ toMain'[k] = toMain[k]
                    \/ k = Len(toMain) + 1 /\ toMain'[k] = m
  BY ToMainFacts DEF Cleared

LEMMA ClearedTaken ==
    ASSUME TypeOK, toMain # <<>>, toMain' = Tail(toMain)
    PROVE  \A k \in Cleared' : k + 1 \in Cleared /\ toMain'[k] = toMain[k + 1]
  BY ToMainFacts DEF Cleared

LEMMA ClearsStep ==
    ASSUME TypeInv, TypeInv', ClearsInv, [Next]_vars
    PROVE  ClearsInv'
  <1>0. /\ TypeOK /\ TypeOK' /\ 0 \in {0, 1} /\ 1 \in {0, 1}
        /\ UNCHANGED toWorker =>
              \A k \in Clears' : k + 0 \in Clears /\ toWorker'[k] = toWorker[k + 0]
        /\ UNCHANGED toMain =>
              \A k \in Cleared' : k + 0 \in Cleared /\ toMain'[k] = toMain[k + 0]
    BY FetchNumbers DEF TypeInv, Clears, Cleared
  <1>1. CASE Changing
    <2>1. UNCHANGED <<page, fetches, toMain>>
      BY <1>1 DEF Changing, Edit, Library, JSChange, Type, Saved, Dispatch,
                  pageVars
    <2>2. \A k \in Clears' : k + 0 \in Clears /\ toWorker'[k] = toWorker[k + 0]
      BY <1>0, <1>1, ChangeMessage, ClearsPosted DEF Posting
    <2> QED  BY <1>0, <2>1, <2>2, ClearsKept
  <1>2. CASE Trigger \/ FirstEvaluation \/ TakeBuffered
    <2>1. /\ UNCHANGED <<page, fetches, toMain>>
          /\ \E r \in Requests : Posting(r) /\ r.kind # "clear"
      BY <1>2, SagaMessage
    <2>2. \A k \in Clears' : k + 0 \in Clears /\ toWorker'[k] = toWorker[k + 0]
      BY <1>0, <2>1, ClearsPosted DEF Posting
    <2> QED  BY <1>0, <2>1, <2>2, ClearsKept
  <1>3. CASE FetchPage
    <2>1. /\ page' = "fetching" /\ fetches' = fetches + 1
          /\ UNCHANGED <<toWorker, toMain>>
      BY <1>3 DEF FetchPage, threadVars
    <2>2. Clears' = Clears /\ Cleared' = Cleared
      BY <2>1 DEF Clears, Cleared
    <2>3. /\ \A i \in Clears : toWorker[i].fetch < fetches'
          /\ \A i \in Cleared : toMain[i].fetch < fetches'
          /\ \A i \in Clears : toWorker[i].fetch <= fetches'
          /\ \A i \in Cleared : toMain[i].fetch <= fetches'
      BY <1>0, <2>1, FetchNumbers DEF ClearsInv
    <2> QED  BY <2>1, <2>2, <2>3 DEF ClearsInv, AllCancelled
  <1>4. CASE PageArrives
    <2>1. /\ page = "fetching" /\ page' = "clearing"
          /\ UNCHANGED <<fetches, toMain>>
      BY <1>4 DEF PageArrives
    <2>2. PICK r \in Requests : Posting(r) /\ r.kind = "clear" /\ r.fetch = fetches
      BY <1>4, ArrivalMessage
    <2>3. \A k \in Clears' : \/ k \in Clears /\ toWorker'[k] = toWorker[k]
                             \/ k = Len(toWorker) + 1 /\ toWorker'[k] = r
      BY <1>0, <2>2, ClearsPosted DEF Posting
    <2>4. AllCancelled /\ Cleared' = Cleared
      BY <2>1 DEF ClearsInv, Cleared
    <2>5. \A k \in Clears : k <= Len(toWorker)
      BY <1>0, ToWorkerFacts DEF Clears
    <2>6. /\ \A k \in Clears : toWorker[k].fetch \in Nat
          /\ \A k \in Cleared : toMain[k].fetch \in Nat
          /\ fetches \in Nat /\ Len(toWorker) \in Nat /\ Clears \subseteq Nat
      BY <1>0, FetchNumbers, ToWorkerFacts
    <2>7. \A k \in Clears' : /\ toWorker'[k].fetch <= fetches
                             /\ \A i \in Clears' : i < k => toWorker'[i].fetch < fetches
                             /\ \A i \in Cleared' : toMain'[i].fetch < fetches
      <3>1. \A k \in Clears' : toWorker'[k].fetch <= fetches
        <4> SUFFICES ASSUME NEW k \in Clears' PROVE toWorker'[k].fetch <= fetches
          OBVIOUS
        <4>1. CASE k \in Clears /\ toWorker'[k] = toWorker[k]
          BY <2>4, <2>6, <4>1 DEF AllCancelled
        <4>2. CASE toWorker'[k] = r
          BY <2>2, <2>6, <4>2
        <4> QED  BY <2>3, <4>1, <4>2
      <3>2. ASSUME NEW i \in Clears', NEW k \in Clears', i < k
            PROVE  toWorker'[i].fetch < fetches
        <4>1. i # Len(toWorker) + 1
          <5>1. k \in Nat /\ k <= Len(toWorker) + 1
            <6>1. k \in Clears \/ k = Len(toWorker) + 1
              BY <2>3
            <6>2. CASE k \in Clears
              <7>1. k \in Nat /\ k <= Len(toWorker) /\ Len(toWorker) \in Nat
                BY <2>5, <2>6, <6>2
              <7> QED  BY <7>1
            <6>3. CASE k = Len(toWorker) + 1
              BY <2>6, <6>3
            <6> QED  BY <6>1, <6>2, <6>3
          <5> QED  BY <2>6, <3>2, <5>1
        <4> QED  BY <2>3, <2>4, <4>1 DEF AllCancelled
      <3>3. \A i \in Cleared' : toMain'[i].fetch < fetches
        BY <2>1, <2>4 DEF AllCancelled
      <3> QED  BY <3>1, <3>2, <3>3
    <2>8. \A k \in Cleared' : /\ toMain'[k].fetch <= fetches
                              /\ \A i \in Cleared' : i < k => toMain'[i].fetch < fetches
      BY <2>1, <2>4, <2>6 DEF AllCancelled
    <2> QED  BY <2>1, <2>7, <2>8 DEF ClearsInv
  <1>5. CASE PageReady
    <2>1. /\ toMain # <<>> /\ toMain' = Tail(toMain) /\ page' = "idle"
          /\ Head(toMain).kind = "cleared" /\ Head(toMain).fetch = fetches
      BY <1>5 DEF PageReady
    <2>2. 1 \in Cleared /\ toMain[1].fetch = fetches /\ ~(fetches < fetches)
      <3>1. Head(toMain) = toMain[1] /\ Len(toMain) \in Nat /\ Len(toMain) # 0
        BY <1>0, <2>1, ToMainFacts
      <3>2. 1 \in 1..Len(toMain)
        BY <3>1
      <3>3. ~(fetches < fetches)
        BY <1>0, FetchNumbers
      <3> QED  BY <2>1, <3>1, <3>2, <3>3 DEF Cleared
    <2>3. Clears = {}
      BY <2>2 DEF ClearsInv
    <2>4. Cleared' = {}
      <3> SUFFICES ASSUME NEW k \in Cleared' PROVE FALSE
        OBVIOUS
      <3>1. k + 1 \in Cleared /\ k \in Nat /\ k > 0
        <4>1. k \in 1..Len(toMain') /\ Len(toMain') \in Nat
          BY <1>0, LenProperties DEF Cleared, TypeOK
        <4> QED  BY <1>0, <2>1, <4>1, ClearedTaken
      <3>2. 1 < k + 1
        BY <3>1
      <3> QED  BY <2>2, <3>1, <3>2 DEF ClearsInv
    <2>5. \A k \in Clears' : k + 0 \in Clears
      BY <1>0, <1>5, ChangeMessage, ClearsPosted DEF Posting
    <2>6. Clears' = {}
      BY <2>3, <2>5
    <2> QED  BY <2>1, <2>4, <2>6 DEF ClearsInv
  <1>6. CASE IgnoreCleared \/ ReceiveTree
    <2>1. UNCHANGED <<page, fetches, toWorker>>
      BY <1>6 DEF IgnoreCleared, ReceiveTree, mainVars, pageVars
    <2>2. toMain # <<>> /\ toMain' = Tail(toMain)
      BY <1>6, AnswerMessage
    <2> QED  BY <1>0, <2>1, <2>2, ClearedTaken, ClearsKept
  <1>7. CASE Consuming
    <2> DEFINE r == Head(toWorker)
    <2>1. /\ toWorker # <<>> /\ toWorker' = Tail(toWorker) /\ r \in Requests
          /\ UNCHANGED <<page, fetches>>
          /\ \/ \E m \in Replies : toMain' = Append(toMain, m) /\ m.kind = "tree"
             \/ UNCHANGED toMain
             \/ /\ r.kind = "clear"
                /\ \E m \in Replies : /\ toMain' = Append(toMain, m)
                                      /\ m.kind = "cleared"
                                      /\ m.fetch = r.fetch
      BY <1>7, WorkerMessage
    <2>2. \A k \in Clears' : k + 1 \in Clears /\ toWorker'[k] = toWorker[k + 1]
      BY <1>0, <2>1, ClearsTaken
    <2>3. r = toWorker[1] /\ Len(toWorker) \in Nat /\ 1 \in 1..Len(toWorker)
      <3>1. r = toWorker[1] /\ Len(toWorker) \in Nat /\ Len(toWorker) >= 1
        BY <1>0, <2>1, ToWorkerFacts
      <3> QED  BY <3>1
    <2> HIDE DEF r
    <2>4. CASE UNCHANGED toMain
      BY <1>0, <2>1, <2>2, <2>4, ClearsKept
    <2>5. CASE \E m \in Replies : toMain' = Append(toMain, m) /\ m.kind = "tree"
      <3>1. \A k \in Cleared' : k + 0 \in Cleared /\ toMain'[k] = toMain[k + 0]
        BY <1>0, <2>5, ClearedPosted
      <3> QED  BY <1>0, <2>1, <2>2, <3>1, ClearsKept
    <2>6. ASSUME r.kind = "clear", NEW m \in Replies, m.kind = "cleared",
                 toMain' = Append(toMain, m), m.fetch = r.fetch
          PROVE  ClearsInv'
      <3>1. 1 \in Clears
        BY <2>3, <2>6 DEF Clears
      <3>2. /\ toWorker[1].fetch <= fetches
            /\ \A i \in Cleared : toMain[i].fetch < fetches
            /\ \A k \in Clears : k > 1 => toWorker[1].fetch < fetches
        BY <2>3, <3>1, FetchNumbers, <1>0 DEF ClearsInv
      <3>3. \A k \in Cleared' : \/ k \in Cleared /\ toMain'[k] = toMain[k]
                                \/ k = Len(toMain) + 1 /\ toMain'[k] = m
        BY <1>0, <2>6, ClearedPosted
      <3>4. /\ \A k \in Clears' : k \in Nat /\ k > 0 /\ k + 1 > 1
            /\ \A k \in Cleared : k \in Nat /\ k <= Len(toMain)
                                  /\ toMain[k].fetch \in Nat
            /\ Len(toMain) \in Nat /\ fetches \in Nat /\ m.fetch = toWorker[1].fetch
            /\ \A k \in Clears : toWorker[k].fetch \in Nat
            /\ \A i, k \in Nat : i < k => i + 1 < k + 1
        BY <1>0, <2>3, <2>6, FetchNumbers, ToMainFacts, ToWorkerFacts
        DEF Clears, Cleared
      <3>5. \A k \in Clears' : /\ toWorker'[k].fetch <= fetches
                               /\ \A i \in Clears' : i < k => toWorker'[i].fetch < fetches
                               /\ \A i \in Cleared' : toMain'[i].fetch < fetches
        BY <2>2, <2>6, <3>2, <3>3, <3>4 DEF ClearsInv
      <3>6. \A k \in Cleared' : /\ toMain'[k].fetch <= fetches
                                /\ \A i \in Cleared' : i < k => toMain'[i].fetch < fetches
        <4>1. \A k \in Cleared' : toMain'[k].fetch <= fetches
          <5> SUFFICES ASSUME NEW k \in Cleared' PROVE toMain'[k].fetch <= fetches
            OBVIOUS
          <5>1. CASE k \in Cleared /\ toMain'[k] = toMain[k]
            BY <3>2, <3>4, <5>1
          <5>2. CASE toMain'[k] = m
            BY <3>2, <3>4, <5>2
          <5> QED  BY <3>3, <5>1, <5>2
        <4>2. ASSUME NEW i \in Cleared', NEW k \in Cleared', i < k
              PROVE  toMain'[i].fetch < fetches
          <5>1. i # Len(toMain) + 1
            BY <3>3, <3>4, <4>2
          <5> QED  BY <3>2, <3>3, <5>1
        <4> QED  BY <4>1, <4>2
      <3>7. AllCancelled => AllCancelled'
        BY <2>1, <2>2, <2>6, <3>1, <3>3, <3>4 DEF AllCancelled
      <3>8. page # "idle"
        BY <3>1 DEF ClearsInv
      <3> QED  BY <2>1, <3>5, <3>6, <3>7, <3>8 DEF ClearsInv
    <2> QED  BY <2>1, <2>4, <2>5, <2>6
  <1>8. CASE PageFails
    <2>1. /\ page = "fetching" /\ page' = "failed"
          /\ UNCHANGED <<fetches, toWorker, toMain>>
      BY <1>8 DEF PageFails, threadVars
    <2> QED  BY <1>0, <2>1, ClearsKept
  <1>9. CASE WaitForAction \/ UNCHANGED vars
    <2>1. UNCHANGED <<page, fetches, toWorker, toMain>>
      BY <1>9 DEF WaitForAction, vars, mainVars, pageVars, threadVars
    <2> QED  BY <1>0, <2>1, ClearsKept
  <1> QED
    BY <1>1, <1>2, <1>3, <1>4, <1>5, <1>6, <1>7, <1>8, <1>9
    DEF Next, Changing, Consuming

\* An action makes a waiting listener post an evaluation, unless it asks for
\* linting alone; otherwise it is buffered.
LEMMA DeliverEvaluates ==
    ASSUME TypeOK, NEW t \in Trees, NEW a \in Actions, Deliver(t, a), ~Starting
    PROVE  \/ \E r \in Requests : r.kind = "eval" /\ toWorker' = Append(toWorker, r)
           \/ listener' \in {"evaluating", "finishing"} /\ buffer'.canTake
           \/ listener = "taking" /\ ~a.evaluates /\ UNCHANGED toWorker
  <1>1. /\ EvalRequest(t, a, TRUE) \in Requests
        /\ EvalRequest(t, a, TRUE).kind = "eval"
    BY MessageFacts DEF EvalRequest
  <1>2. CASE listener = "taking" /\ a.evaluates
    BY <1>1, <1>2 DEF Deliver
  <1>3. CASE listener = "taking" /\ ~a.evaluates
    BY <1>3 DEF Deliver
  <1>4. CASE listener \in {"evaluating", "finishing"}
    <2>1. listener' = listener /\ buffer' = Merge(buffer, a)
      BY <1>4 DEF Deliver
    <2> QED  BY <1>4, <2>1 DEF Merge
  <1> QED  BY <1>2, <1>3, <1>4 DEF TypeOK, Starting

LEMMA EvaluatorStep ==
    ASSUME TypeInv, NothingYet, ClearsInv, HasEvaluator, [Next]_vars
    PROVE  HasEvaluator'
  <1>0. TypeOK
    BY DEF TypeInv
  \* A request that is posted is the last, and the others stay.
  <1>1. ASSUME NEW r \in Requests, toWorker' = Append(toWorker, r)
        PROVE  /\ r.kind = "eval" => HasEvaluator'
               /\ (\E i \in 1..Len(toWorker) : toWorker[i].kind = "eval") =>
                     \E i \in 1..Len(toWorker') : toWorker'[i].kind = "eval"
    <2>1. /\ Len(toWorker) \in Nat /\ Len(toWorker') = Len(toWorker) + 1
          /\ \A i \in 1..Len(toWorker) : toWorker'[i] = toWorker[i]
          /\ toWorker'[Len(toWorker) + 1] = r
      BY <1>0, <1>1, ToWorkerFacts
    <2>2. /\ Len(toWorker) + 1 \in 1..Len(toWorker')
          /\ \A i \in 1..Len(toWorker) : i \in 1..Len(toWorker')
      BY <2>1
    <2> QED  BY <2>1, <2>2 DEF HasEvaluator
  <1>2. CASE Changing
    <2>1. PICK b \in Bodies, aff \in SUBSET JSObjects, ev \in BOOLEAN,
               fo \in BOOLEAN, po \in SUBSET {store.seq + 1} :
                 Dispatch(b, aff, ev, fo, po) /\ (ev \/ po = {})
      BY <1>2, ChangesDispatch DEF Changing
    <2>2. store.seq + 1 \in Versions
      BY <2>1, NextChange DEF Dispatch
    <2>3. /\ Change(b) \in Trees /\ Action(ev, aff, fo, po) \in Actions
      BY <2>2 DEF Change, Trees, Action, Actions
    <2>4. /\ Deliver(Change(b), Action(ev, aff, fo, po))
          /\ UNCHANGED <<page, evaluator>>
      BY <2>1 DEF Dispatch, pageVars
    <2> HIDE DEF Change, Action
    <2>5. CASE Starting
      BY <2>4, <2>5 DEF Deliver, Starting, HasEvaluator
    <2>6. CASE ~Starting
      <3>1. \/ \E r \in Requests : r.kind = "eval" /\ toWorker' = Append(toWorker, r)
            \/ listener' \in {"evaluating", "finishing"} /\ buffer'.canTake
            \/ listener = "taking" /\ UNCHANGED toWorker
        BY <1>0, <2>3, <2>4, <2>6, DeliverEvaluates
      <3>2. CASE listener' \in {"evaluating", "finishing"} /\ buffer'.canTake
        BY <3>2 DEF HasEvaluator
      <3>3. CASE listener = "taking" /\ UNCHANGED toWorker
        BY <2>4, <3>3 DEF HasEvaluator, Starting
      <3> QED  BY <1>1, <3>1, <3>2, <3>3
    <2> QED  BY <2>5, <2>6
  <1>3. CASE Trigger
    <2>1. /\ \E r \in Requests : Posting(r)
          /\ UNCHANGED <<page, evaluator, listener, buffer>>
      BY <1>3, SagaMessage DEF Trigger, queueVars
    <2> QED  BY <1>1, <2>1 DEF Posting, HasEvaluator, Starting
  <1>4. CASE FirstEvaluation \/ TakeBuffered
    <2>1. \E r \in Requests : /\ Posting(r) /\ r.kind # "clear"
                              /\ r.kind = "trigger" => Trigger
      BY <1>4, SagaMessage
    <2>2. ~Trigger
      BY <1>4 DEF FirstEvaluation, TakeBuffered, Trigger, queueVars, Starting
    <2>3. \E r \in Requests : Posting(r) /\ r.kind = "eval"
      BY <2>1, <2>2, MessageFacts
    <2> QED  BY <1>1, <2>3 DEF Posting
  <1>5. CASE PageReady
    <2>1. CASE listener = "start"
      BY <1>5, <2>1 DEF PageReady, HasEvaluator, Starting
    <2>2. CASE listener # "start"
      <3> DEFINE a == Action(TRUE, JSObjects, FALSE, {store.seq + 1})
      <3>1. store.seq + 1 \in Versions
        BY <1>5, EvalAssumption
        DEF TypeInv, TypeOK, Bounded, PageReady, Trees, Versions
      <3>2. Change(store.body) \in Trees /\ a \in Actions /\ a.evaluates
        BY <1>0, <3>1 DEF Change, TypeOK, Trees, Action, Actions
      <3>3. Deliver(Change(store.body), a)
        BY <1>5, <2>2 DEF PageReady
      <3> HIDE DEF a, Change
      <3>4. CASE Starting
        BY <3>3, <3>4 DEF Deliver, Starting, HasEvaluator
      <3>5. CASE ~Starting
        <4>1. \/ \E r \in Requests : r.kind = "eval" /\ toWorker' = Append(toWorker, r)
              \/ listener' \in {"evaluating", "finishing"} /\ buffer'.canTake
          BY <1>0, <3>2, <3>3, <3>5, DeliverEvaluates
        <4> QED  BY <1>1, <4>1 DEF HasEvaluator
      <3> QED  BY <3>4, <3>5
    <2> QED  BY <2>1, <2>2
  <1>6. CASE ReceiveTree
    <2>1. toMain[1].kind = "tree" /\ 1 \in 1..Len(toMain)
      BY <1>0, <1>6, ToMainFacts DEF ReceiveTree
    <2>2. ~Starting
      BY <2>1 DEF NothingYet
    <2>3. /\ listener' \in {listener, "finishing"}
          /\ UNCHANGED <<page, buffer, toWorker, evaluator>>
      BY <1>6 DEF ReceiveTree, pageVars
    <2> QED  BY <2>2, <2>3 DEF HasEvaluator
  <1>7. CASE Consuming
    <2> DEFINE r == Head(toWorker)
    <2>1. /\ toWorker # <<>> /\ toWorker' = Tail(toWorker)
          /\ UNCHANGED <<page, listener, buffer>>
          /\ \/ evaluator'.exists
             \/ r.kind = "trigger" /\ UNCHANGED evaluator
             \/ r.kind = "clear"
      BY <1>7, WorkerMessage
    <2>2. /\ r = toWorker[1] /\ Len(toWorker) \in Nat /\ Len(toWorker) >= 1
          /\ Len(toWorker') = Len(toWorker) - 1
          /\ \A i \in 1..Len(toWorker) - 1 : toWorker'[i] = toWorker[i + 1]
      BY <1>0, <2>1, ToWorkerFacts
    <2> HIDE DEF r
    <2>3. CASE evaluator'.exists
      BY <2>3 DEF HasEvaluator
    <2>4. CASE r.kind = "trigger" /\ UNCHANGED evaluator
      <3>1. ASSUME NEW i \in 1..Len(toWorker), toWorker[i].kind = "eval"
            PROVE  \E k \in 1..Len(toWorker') : toWorker'[k].kind = "eval"
        <4>1. i # 1
          BY <2>2, <2>4, <3>1
        <4>2. i - 1 \in 1..Len(toWorker') /\ (i - 1) + 1 = i
          BY <2>2, <4>1
        <4> QED  BY <2>2, <3>1, <4>2
      <3> QED  BY <2>1, <2>4, <3>1 DEF HasEvaluator, Starting
    <2>5. CASE r.kind = "clear"
      <3>1. 1 \in Clears
        BY <2>2, <2>5 DEF Clears
      <3> QED  BY <2>1, <3>1 DEF ClearsInv, HasEvaluator
    <2> QED  BY <2>1, <2>3, <2>4, <2>5
  <1>8. CASE FetchPage \/ PageArrives \/ PageFails
    BY <1>8 DEF FetchPage, PageArrives, PageFails, HasEvaluator
  <1>9. CASE IgnoreCleared \/ WaitForAction \/ UNCHANGED vars
    <2>1. UNCHANGED <<page, buffer, toWorker, evaluator>>
      BY <1>9 DEF IgnoreCleared, WaitForAction, vars, mainVars, pageVars,
                  queueVars, threadVars
    <2>2. \/ UNCHANGED listener
          \/ listener = "finishing" /\ listener' = "taking" /\ ~buffer.canTake
      BY <1>9 DEF IgnoreCleared, WaitForAction, vars, mainVars, queueVars
    <2> QED  BY <2>1, <2>2 DEF HasEvaluator, Starting
  <1> QED
    BY <1>2, <1>3, <1>4, <1>5, <1>6, <1>7, <1>8, <1>9
    DEF Next, Changing, Consuming

-----------------------------------------------------------------------------
(* When nothing is on its way *)

LEMMA QuietInit == Init => TreesGrow /\ ClearsInv /\ HasEvaluator
  <1> SUFFICES ASSUME Init PROVE TreesGrow /\ ClearsInv /\ HasEvaluator
    OBVIOUS
  <1>1. /\ 1..Len(toWorker) = {} /\ 1..Len(toMain) = {} /\ done = {}
        /\ ~evaluator.exists /\ page = "idle" /\ Starting
    BY EmptySeq DEF Init, Starting
  <1>2. Clears = {} /\ Cleared = {}
    BY <1>1 DEF Clears, Cleared
  <1> QED  BY <1>1, <1>2
           DEF TreesGrow, RequestsGrow, ClearsInv, HasEvaluator

LEMMA QuietShows ==
    ASSUME TypeInv, CanvasInv, NamingInv, PlacesInv, TreesGrow, HasEvaluator
    PROVE  QuietIsCurrent
  <1> SUFFICES ASSUME Quiet, page = "idle"
               PROVE  /\ shown.version = evaluator.tree.seq
                      /\ accepted \subseteq 0..shown.version
                      /\ \A j \in JSObjects \ Typed :
                            evaluator.tree.body[j] = store.body[j]
    BY DEF QuietIsCurrent
  <1>1. /\ listener = "taking" /\ toWorker = <<>> /\ toMain = <<>> /\ ~Starting
        /\ TypeOK
    BY DEF Quiet, Starting, TypeInv
  <1>2. Len(toWorker) = 0 /\ 1..Len(toWorker) = {} /\ 1..Len(toMain) = {}
    BY <1>1, EmptySeq
  <1>3. evaluator.exists
    BY <1>1, <1>2 DEF HasEvaluator
  <1>4. shown.version = evaluator.tree.seq
    BY <1>1, <1>3 DEF CanvasInv, EvaluatorFits, OnCanvas
  <1>5. buffer.post = {} /\ buffer.affected = {} /\ initAction = {}
    BY <1>1 DEF NamingInv, BufferEmpty, EmptyBuffer, PlacesInv
  <1>6. ASSUME NEW p \in accepted
        PROVE  p \in 0..evaluator.tree.seq
    <2>1. p \in Versions
      BY <1>1 DEF TypeOK
    <2>2. p \in done
      <3>1. ~Sent(p) /\ ~Answered(p)
        BY <1>2 DEF Sent, Answered
      <3> QED  BY <1>5, <2>1, <3>1 DEF PlacesInv, InOnePlace
    <2>3. p <= evaluator.tree.seq
      BY <1>3, <2>2 DEF TreesGrow, Seen
    <2>4. p \in Nat /\ evaluator.tree.seq \in Nat
      BY <1>1, <2>1, TreeNumbers
    <2> QED  BY <2>3, <2>4
  <1>7. ASSUME NEW j \in Untyped
        PROVE  evaluator.tree.body[j] = store.body[j]
    <2>1. Reaches(evaluator, toWorker, store.body, {})
      BY <1>1, <1>5 DEF NamingInv, StoreNamed
    <2>2. /\ 0 \in 0..Len(toWorker) /\ HasTree(evaluator, toWorker, 0)
          /\ BodyOf(evaluator, toWorker, 0, j) = evaluator.tree.body[j]
          /\ ~Named(toWorker, 0, Len(toWorker), j)
      BY <1>2, <1>3 DEF HasTree, BodyOf, Named
    <2> QED  BY <2>1, <2>2 DEF Reaches
  <1> QED  BY <1>4, <1>6, <1>7 DEF Untyped

\* When nothing is on its way and no page is fetched, the canvas shows the
\* worker's tree, which has every change but what is being typed.
THEOREM QuietShowsAll == Spec => []QuietIsCurrent
  <1>1. TypeInv => TypeOK
    BY DEF TypeInv
  <1>2. NamingInv => NothingYet
    BY DEF NamingInv
  <1>3. Spec => []NamingInv
    BY NamingInit, NamingStep, TypeInvariant, PTL DEF Spec
  <1>4. Spec => []CanvasInv
    BY <1>1, CanvasInit, CanvasStep, TypeInvariant, PTL DEF Spec
  <1>5. Spec => []PostsInv
    BY PostsInit, PostsStep, TypeInvariant, PTL DEF Spec
  <1>6. Spec => []PlacesInv
    BY <1>2, <1>3, PlacesInit, PlacesStep, TypeInvariant, PTL DEF Spec
  <1>7. Spec => []TreesGrow
    BY <1>5, QuietInit, TreesStep, TypeInvariant, PTL DEF Spec
  <1>8. Spec => []ClearsInv
    BY QuietInit, ClearsStep, TypeInvariant, PTL DEF Spec
  <1>9. Spec => []HasEvaluator
    BY <1>2, <1>3, <1>8, QuietInit, EvaluatorStep, TypeInvariant, PTL DEF Spec
  <1> QED
    BY <1>3, <1>4, <1>6, <1>7, <1>9, QuietShows, TypeInvariant, PTL

-----------------------------------------------------------------------------
(* What a new evaluator brings to the canvas *)

SeqOf(e, q, i) == IF i = 0 THEN e.tree.seq ELSE q[i].tree.seq

\* What the saga received and holds no more is in the last tree of the worker.
AllTaken ==
    HasTree(evaluator, toWorker, Len(toWorker)) =>
        \A p \in accepted :
            \/ p \in buffer.post \cup initAction
            \/ p <= SeqOf(evaluator, toWorker, Len(toWorker))

\* What a forced request brings was in the tree before it.
ForcedBare ==
    \A i \in 1..Len(toWorker) :
        /\ toWorker[i].kind = "eval" /\ toWorker[i].force
        /\ HasTree(evaluator, toWorker, i - 1)
        => \A p \in accepted : p <= toWorker[i].tree.seq =>
               p <= SeqOf(evaluator, toWorker, i - 1)

\* So was what the answer of a new evaluator brings.
Bare(m) == m.anew => \A p \in accepted : p <= m.version => p <= m.base

AnewBare == \A k \in 1..Len(toMain) : IsTree(k) => Bare(toMain[k])

NothingStale ==
    /\ \A v \in shown.stale : v <= store.seq
    /\ page = "idle" => shown.stale \cap accepted = {}

StaleInv == AllTaken /\ ForcedBare /\ AnewBare /\ NothingStale

\* What the saga receives in a step is the change of the step.
Receiving == \A p \in accepted' : p \in accepted \/ p = store.seq + 1

\* The trees are no newer than the state.
LEMMA TreesPast ==
    ASSUME TypeOK, TreesGrow
    PROVE  /\ store.seq \in Nat
           /\ \A i \in 0..Len(toWorker) : HasTree(evaluator, toWorker, i) =>
                 /\ SeqOf(evaluator, toWorker, i) \in Nat
                 /\ SeqOf(evaluator, toWorker, i) <= store.seq
           /\ \A k \in 1..Len(toMain) : IsTree(k) =>
                 toMain[k].version \in Nat /\ toMain[k].version <= store.seq
  <1>1. /\ store.seq \in Nat /\ evaluator.tree.seq \in Nat
        /\ Len(toWorker) \in Nat
        /\ \A i \in 1..Len(toWorker) :
              toWorker[i].kind # "clear" => toWorker[i].tree.seq \in Nat
        /\ \A k \in 1..Len(toMain) : IsTree(k) => toMain[k].version \in Nat
    BY TreeNumbers, ToWorkerFacts
  <1>2. \A i \in 1..Len(toWorker) :
           toWorker[i].kind # "clear" => toWorker[i].tree.seq <= store.seq
    BY DEF TreesGrow, RequestsGrow, Below
  <1>3. evaluator.exists => evaluator.tree.seq <= store.seq
    BY DEF TreesGrow, Below
  <1>4. \A k \in 1..Len(toMain) : IsTree(k) => toMain[k].version <= store.seq
    BY DEF TreesGrow, Seen, Below
  <1>5. \A i \in 0..Len(toWorker) : HasTree(evaluator, toWorker, i) =>
                 /\ SeqOf(evaluator, toWorker, i) \in Nat
                 /\ SeqOf(evaluator, toWorker, i) <= store.seq
    BY <1>1, <1>2, <1>3 DEF HasTree, SeqOf
  <1> QED  BY <1>1, <1>4, <1>5

\* The requests stay, and what the saga receives waits in its buffer.
LEMMA BareKept ==
    ASSUME TypeOK, TreesGrow, AllTaken, ForcedBare, Receiving,
           UNCHANGED <<evaluator, toWorker>>,
           buffer.post \cup initAction \subseteq buffer'.post \cup initAction',
           \A p \in accepted' : p \in accepted \cup buffer'.post \cup initAction'
    PROVE  AllTaken' /\ ForcedBare'
  <1> DEFINE n == Len(toWorker)
  <1>1. n \in Nat /\ store.seq \in Nat
    BY ToWorkerFacts, TreesPast
  <1>2. AllTaken'
    BY DEF AllTaken, HasTree, SeqOf
  <1>3. ASSUME NEW i \in 1..n, toWorker[i].kind = "eval", toWorker[i].force,
               HasTree(evaluator, toWorker, i - 1),
               NEW p \in accepted', p <= toWorker[i].tree.seq
        PROVE  p <= SeqOf(evaluator, toWorker, i - 1)
    <2>1. /\ i \in 0..n /\ HasTree(evaluator, toWorker, i)
          /\ SeqOf(evaluator, toWorker, i) = toWorker[i].tree.seq
      BY <1>1, <1>3 DEF HasTree, SeqOf
    <2>2. toWorker[i].tree.seq \in Nat /\ toWorker[i].tree.seq <= store.seq
      BY <2>1, TreesPast
    <2>3. p \in accepted
      BY <1>1, <1>3, <2>2 DEF Receiving
    <2> QED  BY <1>3, <2>3 DEF ForcedBare
  <1>4. ForcedBare'
    <2>1. toWorker' = toWorker /\ evaluator' = evaluator
      OBVIOUS
    <2> QED  BY <1>3, <2>1 DEF ForcedBare, HasTree, SeqOf
  <1> QED  BY <1>2, <1>4

\* A request is posted; one that is forced comes when the saga holds nothing.
LEMMA BarePosted ==
    ASSUME TypeOK, TreesGrow, AllTaken, ForcedBare, Receiving,
           accepted' \subseteq 0..store'.seq,
           NEW r \in Requests, Posting(r), UNCHANGED evaluator,
           r.kind = "eval" /\ r.force =>
               /\ accepted' = accepted
               /\ accepted \cap (buffer.post \cup initAction) = {}
    PROVE  AllTaken' /\ ForcedBare'
  <1> DEFINE n == Len(toWorker)
  <1>1. /\ n \in Nat /\ Len(toWorker') = n + 1 /\ toWorker'[n + 1] = r
        /\ \A i \in 1..n : toWorker'[i] = toWorker[i]
        /\ r.kind # "clear" => r.tree.seq = store'.seq
        /\ store.seq \in Nat
    BY ToWorkerFacts, TreesPast DEF Posting
  <1>2. AllTaken'
    BY <1>1 DEF AllTaken, HasTree, SeqOf
  <1>3. \A i \in 0..n :
           /\ HasTree(evaluator, toWorker, i)' <=> HasTree(evaluator, toWorker, i)
           /\ SeqOf(evaluator, toWorker, i)' = SeqOf(evaluator, toWorker, i)
    BY <1>1 DEF HasTree, SeqOf
  <1> HIDE DEF n
  <1>4. ASSUME NEW i \in 1..n + 1,
               toWorker'[i].kind = "eval", toWorker'[i].force,
               HasTree(evaluator, toWorker, i - 1)',
               NEW p \in accepted', p <= toWorker'[i].tree.seq
        PROVE  p <= SeqOf(evaluator, toWorker, i - 1)'
    <2>1. i - 1 \in 0..n
      BY <1>1
    <2>2. CASE i = n + 1
      <3>1. /\ i - 1 = n /\ p \in accepted /\ p \notin buffer.post \cup initAction
            /\ HasTree(evaluator, toWorker, n)
        BY <1>1, <1>3, <1>4, <2>1, <2>2
      <3> QED  BY <1>3, <2>1, <3>1 DEF AllTaken, n
    <2>3. CASE i # n + 1
      <3>1. i \in 1..n /\ i \in 0..n /\ toWorker'[i] = toWorker[i]
        BY <1>1, <2>3
      <3>2. /\ HasTree(evaluator, toWorker, i)
            /\ SeqOf(evaluator, toWorker, i) = toWorker[i].tree.seq
        BY <1>1, <1>4, <3>1 DEF HasTree, SeqOf
      <3>3. toWorker[i].tree.seq \in Nat /\ toWorker[i].tree.seq <= store.seq
        BY <3>1, <3>2, TreesPast DEF n
      <3>4. p \in accepted
        BY <1>1, <1>4, <3>1, <3>3 DEF Receiving
      <3> QED  BY <1>3, <1>4, <2>1, <3>1, <3>4 DEF ForcedBare, n
    <2> QED  BY <2>2, <2>3
  <1>5. ForcedBare'
    BY <1>1, <1>4 DEF ForcedBare
  <1> QED  BY <1>2, <1>5

\* An action reaches the listener: it is forced only if it is taken at once,
\* when everything before it was taken.
LEMMA DeliverBare ==
    ASSUME TypeOK, TreesGrow, PlacesInv, PlacesInv', BufferEmpty,
           AllTaken, ForcedBare,
           NEW t \in Trees, NEW a \in Actions, Deliver(t, a), store' = t,
           a.post \subseteq {store.seq + 1}, a.evaluates \/ a.post = {},
           a.force => a.post = {}, UNCHANGED <<initAction, evaluator>>
    PROVE  AllTaken' /\ ForcedBare' /\ Receiving
  <1>1. CASE listener \in {"start", "config"}
    <2>1. UNCHANGED <<buffer, toWorker, accepted>>
      BY <1>1 DEF Deliver
    <2>2. Receiving
      BY <2>1 DEF Receiving
    <2> QED  BY <2>1, <2>2, BareKept
  <1>2. CASE listener = "taking" /\ a.evaluates
    <2> DEFINE r == EvalRequest(t, a, TRUE)
    <2>1. /\ r \in Requests /\ r.kind = "eval" /\ r.tree = t
          /\ r.force = a.force
      BY MessageFacts DEF EvalRequest
    <2>2. /\ toWorker' = Append(toWorker, r) /\ UNCHANGED buffer
          /\ accepted' = accepted \cup a.post
      BY <1>2 DEF Deliver
    <2> HIDE DEF r
    <2>3. Posting(r) /\ Receiving
      BY <2>1, <2>2 DEF Posting, Receiving
    <2>4. buffer.post = {} /\ initAction = {}
      BY <1>2 DEF BufferEmpty, EmptyBuffer, PlacesInv
    <2>5. accepted' \subseteq 0..store'.seq
      BY DEF PlacesInv
    <2> QED  BY <2>1, <2>2, <2>3, <2>4, <2>5, BarePosted
  <1>3. CASE listener = "taking" /\ ~a.evaluates
    <2>1. UNCHANGED <<buffer, toWorker, accepted>>
      BY <1>3 DEF Deliver
    <2>2. Receiving
      BY <2>1 DEF Receiving
    <2> QED  BY <2>1, <2>2, BareKept
  <1>4. CASE listener \in {"evaluating", "finishing"}
    <2>1. /\ buffer' = Merge(buffer, a) /\ accepted' = accepted \cup a.post
          /\ UNCHANGED toWorker
      BY <1>4 DEF Deliver
    <2>2. buffer'.post = buffer.post \cup a.post
      BY <2>1 DEF Merge
    <2>3. Receiving
      BY <2>1 DEF Receiving
    <2> QED  BY <2>1, <2>2, <2>3, BareKept
  <1> QED  BY <1>1, <1>2, <1>3, <1>4 DEF TypeOK

\* The worker takes a request: what a forced one brings was in its tree.
LEMMA BareTaken ==
    ASSUME TypeOK, AllTaken, ForcedBare,
           toWorker # <<>>, toWorker' = Tail(toWorker),
           UNCHANGED <<accepted, buffer, initAction>>,
           evaluator'.exists => /\ Head(toWorker).kind # "clear"
                                /\ evaluator'.tree = Head(toWorker).tree
    PROVE  LET r == Head(toWorker)
           IN  /\ AllTaken' /\ ForcedBare'
               /\ evaluator.exists /\ r.kind = "eval" /\ r.force =>
                     \A p \in accepted : p <= r.tree.seq => p <= evaluator.tree.seq
  <1> DEFINE r == Head(toWorker)
             n == Len(toWorker) - 1
  <1>1. /\ n \in Nat /\ Len(toWorker') = n /\ Len(toWorker) = n + 1
        /\ r = toWorker[1] /\ 1 \in 1..n + 1
        /\ \A i \in 1..n : toWorker'[i] = toWorker[i + 1]
    BY ToWorkerFacts
  <1> HIDE DEF r, n
  <1>2. \A i \in 0..n : HasTree(evaluator, toWorker, i)' =>
           /\ HasTree(evaluator, toWorker, i + 1)
           /\ SeqOf(evaluator, toWorker, i)' = SeqOf(evaluator, toWorker, i + 1)
    BY <1>1 DEF HasTree, SeqOf, r
  <1>3. AllTaken'
    BY <1>1, <1>2 DEF AllTaken
  <1>4. ForcedBare'
    <2> SUFFICES ASSUME NEW i \in 1..n, toWorker'[i].kind = "eval",
                        toWorker'[i].force,
                        HasTree(evaluator, toWorker, i - 1)',
                        NEW p \in accepted, p <= toWorker'[i].tree.seq
                 PROVE  p <= SeqOf(evaluator, toWorker, i - 1)'
      BY <1>1 DEF ForcedBare
    <2>1. /\ i - 1 \in 0..n /\ (i - 1) + 1 = i /\ i + 1 \in 1..n + 1
          /\ (i + 1) - 1 = i /\ toWorker'[i] = toWorker[i + 1]
      BY <1>1
    <2>2. /\ HasTree(evaluator, toWorker, i)
          /\ SeqOf(evaluator, toWorker, i - 1)' = SeqOf(evaluator, toWorker, i)
      BY <1>2, <2>1
    <2> QED  BY <1>1, <2>1, <2>2 DEF ForcedBare
  <1>5. ASSUME evaluator.exists, r.kind = "eval", r.force,
               NEW p \in accepted, p <= r.tree.seq
        PROVE  p <= evaluator.tree.seq
    <2>1. HasTree(evaluator, toWorker, 1 - 1)
          /\ SeqOf(evaluator, toWorker, 1 - 1) = evaluator.tree.seq
      BY <1>5 DEF HasTree, SeqOf
    <2> QED  BY <1>1, <1>5, <2>1 DEF ForcedBare
  <1> QED  BY <1>3, <1>4, <1>5 DEF r

\* The answers on their way stay bare.
LEMMA AnewKept ==
    ASSUME TypeOK, TreesGrow, AnewBare, Receiving,
           \/ UNCHANGED toMain
           \/ toMain # <<>> /\ toMain' = Tail(toMain)
           \/ \E m \in Replies : /\ toMain' = Append(toMain, m)
                                 /\ UNCHANGED accepted
                                 /\ m.kind = "tree" => Bare(m)
    PROVE  AnewBare'
  <1> DEFINE StillBare(m) == m.anew =>
                \A p \in accepted' : p <= m.version => p <= m.base
  <1>1. ASSUME NEW k \in 1..Len(toMain), IsTree(k)
        PROVE  StillBare(toMain[k])
    <2>1. /\ toMain[k].version \in Nat /\ toMain[k].version <= store.seq
          /\ store.seq \in Nat
      BY <1>1, TreesPast
    <2>2. Bare(toMain[k])
      BY <1>1 DEF AnewBare
    <2>3. \A p \in accepted' : p <= toMain[k].version => p \in accepted
      BY <2>1 DEF Receiving
    <2> QED  BY <2>2, <2>3 DEF Bare
  <1>2. ASSUME \A k \in 1..Len(toMain') :
                  toMain'[k].kind = "tree" => StillBare(toMain'[k])
        PROVE  AnewBare'
    BY <1>2 DEF AnewBare, Bare, IsTree
  <1>3. \A k \in 1..Len(toMain) : toMain[k].kind = "tree" => StillBare(toMain[k])
    BY <1>1 DEF IsTree
  <1>4. \A m : UNCHANGED accepted /\ Bare(m) => StillBare(m)
    BY DEF Bare
  <1> HIDE DEF StillBare
  <1>5. CASE UNCHANGED toMain
    BY <1>2, <1>3, <1>5
  <1>6. CASE toMain # <<>> /\ toMain' = Tail(toMain)
    <2>1. /\ Len(toMain) \in Nat /\ Len(toMain') = Len(toMain) - 1
          /\ \A k \in 1..Len(toMain') : toMain'[k] = toMain[k + 1]
      BY <1>6, ToMainFacts
    <2>2. \A k \in 1..Len(toMain') : k + 1 \in 1..Len(toMain)
      BY <2>1
    <2> QED  BY <1>2, <1>3, <2>1, <2>2
  <1>7. ASSUME NEW m \in Replies, toMain' = Append(toMain, m),
               UNCHANGED accepted, m.kind = "tree" => Bare(m)
        PROVE  AnewBare'
    <2>1. /\ Len(toMain) \in Nat /\ Len(toMain') = Len(toMain) + 1
          /\ \A k \in 1..Len(toMain) : toMain'[k] = toMain[k]
          /\ toMain'[Len(toMain) + 1] = m
      BY <1>7, ToMainFacts
    <2>2. \A k \in 1..Len(toMain') :
             toMain'[k] = m \/ (k \in 1..Len(toMain) /\ toMain'[k] = toMain[k])
      BY <2>1
    <2> QED  BY <1>2, <1>3, <1>4, <1>7, <2>2
  <1> QED  BY <1>5, <1>6, <1>7

\* The canvas only gets stale by the answer of a new evaluator.
LEMMA NothingStaleKept ==
    ASSUME TypeOK, NothingStale, Receiving, store.seq <= store'.seq,
           store'.seq \in Nat,
           \/ shown' = EmptyTree
           \/ UNCHANGED shown /\ (page' = "idle" => page = "idle")
    PROVE  NothingStale'
  <1>1. CASE shown' = EmptyTree
    BY <1>1 DEF NothingStale, EmptyTree
  <1>2. CASE UNCHANGED shown /\ (page' = "idle" => page = "idle")
    <2>1. store.seq \in Nat /\ shown.stale \subseteq Nat
      BY DEF TypeOK, Trees, Versions
    <2>2. \A v \in shown.stale : v <= store.seq /\ v <= store'.seq
      BY <2>1 DEF NothingStale
    <2>3. \A p \in accepted' : p \in shown.stale => p \in accepted
      BY <2>1, <2>2 DEF Receiving
    <2> QED  BY <1>2, <2>2, <2>3 DEF NothingStale
  <1> QED  BY <1>1, <1>2

\* What an answer brings to the canvas without its deletions was shown before.
LEMMA ReceiveStale ==
    ASSUME TypeOK, CanvasInv, TreesGrow, AnewBare, NothingStale, ReceiveTree
    PROVE  NothingStale'
  <1> DEFINE m == Head(toMain)
  <1>1. /\ toMain # <<>> /\ m = toMain[1] /\ 1 \in 1..Len(toMain)
        /\ m.kind = "tree" /\ shown' = Apply(m)
        /\ UNCHANGED <<store, page, accepted>>
    BY ToMainFacts DEF ReceiveTree, pageVars
  <1>2. m.version \in Nat /\ m.version <= store.seq /\ store.seq \in Nat
    BY <1>1, TreesPast DEF IsTree
  <1>3. page = "idle" /\ ~m.newTree => shown.version = m.base
    BY <1>1 DEF CanvasInv, FirstReplyFits, IsTree, OnCanvas
  <1>4. Bare(m)
    BY <1>1 DEF AnewBare, IsTree
  <1>5. shown.version \in Nat /\ accepted \subseteq Nat
    BY DEF TypeOK, Versions
  <1> HIDE DEF m
  <1>6. CASE m.newTree
    BY <1>1, <1>6, ApplyFacts DEF NothingStale
  <1>7. CASE ~m.newTree /\ ~m.anew
    <2>1. shown'.stale = shown.stale
      BY <1>1, <1>7, ApplyFacts
    <2> QED  BY <1>1, <2>1 DEF NothingStale
  <1>8. CASE ~m.newTree /\ m.anew
    <2>1. shown'.stale = shown.stale \cup (shown.version + 1)..m.version
      BY <1>1, <1>8, ApplyFacts
    <2>2. \A v \in (shown.version + 1)..m.version : v <= store.seq
      BY <1>2, <1>5
    <2>3. ASSUME page = "idle", NEW p \in accepted,
                 p \in (shown.version + 1)..m.version
          PROVE  FALSE
      <3>1. p \in Nat /\ shown.version + 1 <= p /\ p <= m.version
        BY <1>2, <1>5, <2>3
      <3>2. p <= m.base /\ m.base = shown.version
        BY <1>3, <1>4, <1>8, <2>3, <3>1 DEF Bare
      <3> QED  BY <1>5, <3>1, <3>2
    <2> QED  BY <1>1, <2>1, <2>2, <2>3 DEF NothingStale
  <1> QED  BY <1>6, <1>7, <1>8
LEMMA StaleStep ==
    ASSUME TypeInv, TypeInv', CanvasInv, NamingInv, PlacesInv, PlacesInv',
           TreesGrow, StaleInv, [Next]_vars
    PROVE  StaleInv'
  <1>0. /\ TypeOK /\ BufferEmpty /\ AllTaken /\ ForcedBare /\ AnewBare
        /\ NothingStale /\ accepted' \subseteq 0..store'.seq
        /\ store.seq \in Nat /\ store'.seq \in Nat
    <2>1. store \in Trees /\ store' \in Trees /\ TypeOK
      BY DEF TypeInv, TypeOK
    <2> QED  BY <2>1 DEF NamingInv, StaleInv, PlacesInv, Trees, Versions
  \* Neither the requests nor what the saga received change.
  <1>1. ASSUME UNCHANGED <<store, evaluator, toWorker, accepted, buffer,
                           initAction>>
        PROVE  AllTaken' /\ ForcedBare' /\ Receiving
    BY <1>1 DEF AllTaken, ForcedBare, HasTree, SeqOf, Receiving, StaleInv
  <1>2. CASE Changing
    <2>1. PICK b \in Bodies, aff \in SUBSET JSObjects, ev \in BOOLEAN,
               fo \in BOOLEAN, po \in SUBSET {store.seq + 1} :
                 /\ Dispatch(b, aff, ev, fo, po)
                 /\ (ev \/ po = {}) /\ (fo => po = {})
      BY <1>2, ChangesDispatch DEF Changing
    <2>2. store.seq + 1 \in Versions
      BY <2>1, NextChange DEF Dispatch
    <2> DEFINE t == Change(b)
               a == Action(ev, aff, fo, po)
    <2>3. t \in Trees /\ t.seq = store.seq + 1
      BY <2>2 DEF Change, Trees
    <2>4. /\ a \in Actions /\ a.post = po /\ a.evaluates = ev /\ a.force = fo
      BY <2>2 DEF Action, Actions
    <2>5. /\ Deliver(t, a) /\ store' = t
          /\ UNCHANGED <<page, initAction, evaluator, toMain, shown>>
      BY <2>1 DEF Dispatch, pageVars
    <2> HIDE DEF t, a
    <2>6. AllTaken' /\ ForcedBare' /\ Receiving
      BY <1>0, <2>1, <2>3, <2>4, <2>5, DeliverBare
    <2>7. AnewBare'
      BY <1>0, <2>5, <2>6, AnewKept
    <2>8. NothingStale'
      BY <1>0, <2>3, <2>5, <2>6, NothingStaleKept
    <2> QED  BY <2>6, <2>7, <2>8 DEF StaleInv
  <1>3. CASE PageReady
    <2> DEFINE t == Change(store.body)
               a == Action(TRUE, JSObjects, FALSE, {store.seq + 1})
    <2>1. store.seq + 1 \in Versions
      BY <1>3, EvalAssumption
      DEF TypeInv, TypeOK, Bounded, PageReady, Trees, Versions
    <2>2. /\ t \in Trees /\ t.seq = store.seq + 1
          /\ a \in Actions /\ a.post = {store.seq + 1} /\ a.evaluates /\ ~a.force
      BY <1>0, <2>1 DEF Change, TypeOK, Trees, Action, Actions
    <2>3. /\ store' = t /\ shown' = EmptyTree /\ UNCHANGED evaluator
          /\ toMain # <<>> /\ toMain' = Tail(toMain)
      BY <1>3 DEF PageReady
    <2>4. ASSUME listener = "start"
          PROVE  AllTaken' /\ ForcedBare' /\ Receiving
      <3>1. /\ initAction' = {store.seq + 1} /\ UNCHANGED <<buffer, toWorker>>
            /\ accepted' = accepted \cup {store.seq + 1}
        BY <1>3, <2>4 DEF PageReady
      <3>2. initAction = {}
        BY <2>4 DEF PlacesInv
      <3>3. Receiving
        BY <3>1 DEF Receiving
      <3> QED  BY <1>0, <2>3, <3>1, <3>2, <3>3, BareKept
    <2>5. ASSUME listener # "start"
          PROVE  AllTaken' /\ ForcedBare' /\ Receiving
      <3>1. Deliver(t, a) /\ UNCHANGED initAction
        BY <1>3, <2>5 DEF PageReady
      <3> HIDE DEF t, a
      <3> QED  BY <1>0, <2>2, <2>3, <3>1, DeliverBare
    <2> HIDE DEF t, a
    <2>6. AllTaken' /\ ForcedBare' /\ Receiving
      BY <2>4, <2>5
    <2>7. AnewBare'
      BY <1>0, <2>3, <2>6, AnewKept
    <2>8. NothingStale'
      BY <1>0, <2>2, <2>3, <2>6, NothingStaleKept
    <2> QED  BY <2>6, <2>7, <2>8 DEF StaleInv
  \* The saga or a page posts a request that is not forced.
  <1>4. ASSUME NEW r \in Requests, Posting(r), r.kind = "eval" => ~r.force,
               UNCHANGED <<store, evaluator, accepted, shown, toMain>>,
               page' = "idle" => page = "idle"
        PROVE  StaleInv'
    <2>1. Receiving
      BY <1>4 DEF Receiving
    <2>2. AllTaken' /\ ForcedBare'
      BY <1>0, <1>4, <2>1, BarePosted
    <2>3. AnewBare' /\ NothingStale'
      BY <1>0, <1>4, <2>1, AnewKept, NothingStaleKept
    <2> QED  BY <2>2, <2>3 DEF StaleInv
  <1>5. CASE Trigger
    <2>1. /\ [kind |-> "trigger", tree |-> store] \in Requests
          /\ Posting([kind |-> "trigger", tree |-> store])
      BY <1>0, <1>5, MessageFacts DEF Trigger, TypeOK, Posting
    <2>2. UNCHANGED <<store, evaluator, accepted, shown, toMain, page>>
      BY <1>5 DEF Trigger, pageVars, queueVars
    <2> QED  BY <1>4, <2>1, <2>2
  <1>6. ASSUME NEW a \in Actions, ~a.force, NEW w \in BOOLEAN,
               toWorker' = Append(toWorker, EvalRequest(store, a, w)),
               UNCHANGED <<store, evaluator, accepted, shown, toMain, page>>
        PROVE  StaleInv'
    <2> DEFINE r == EvalRequest(store, a, w)
    <2>1. r \in Requests /\ r.tree = store /\ r.force = a.force
      BY <1>0, MessageFacts DEF TypeOK, EvalRequest
    <2> HIDE DEF r
    <2>2. Posting(r)
      BY <1>6, <2>1 DEF Posting, r
    <2> QED  BY <1>4, <1>6, <2>1, <2>2
  <1>7. CASE FirstEvaluation
    <2> DEFINE a == Action(TRUE, JSObjects, FALSE, initAction)
    <2>1. a \in Actions /\ ~a.force
      BY <1>0 DEF TypeOK, Action, Actions
    <2>2. /\ toWorker' = Append(toWorker, EvalRequest(store, a, FALSE))
          /\ UNCHANGED <<store, evaluator, accepted, shown, toMain, page>>
      BY <1>7 DEF FirstEvaluation, pageVars
    <2> HIDE DEF a
    <2> QED  BY <1>6, <2>1, <2>2
  <1>8. CASE TakeBuffered
    <2> DEFINE a == Buffered(buffer)
    <2>1. a \in Actions /\ ~a.force
      BY <1>0 DEF TypeOK, Buffered, Action, Actions
    <2>2. /\ toWorker' = Append(toWorker, EvalRequest(store, a, TRUE))
          /\ UNCHANGED <<store, evaluator, accepted, shown, toMain, page>>
      BY <1>8 DEF TakeBuffered, pageVars
    <2> HIDE DEF a
    <2> QED  BY <1>6, <2>1, <2>2
  <1>9. CASE PageArrives
    <2>1. /\ page' # "idle"
          /\ UNCHANGED <<store, evaluator, accepted, shown, toMain>>
      BY <1>9 DEF PageArrives, queueVars
    <2>2. PICK r \in Requests : Posting(r) /\ r.kind = "clear"
      BY <1>9, ArrivalMessage
    <2> QED  BY <1>4, <2>1, <2>2
  <1>10. CASE Consuming
    <2> DEFINE r == Head(toWorker)
    <2>1. /\ toWorker # <<>> /\ toWorker' = Tail(toWorker)
          /\ UNCHANGED <<store, accepted, buffer, initAction, shown, page>>
      BY <1>10 DEF Consuming, EvalTree, EvalTrigger, ClearCache, mainVars,
                   queueVars, pageVars
    <2>2. /\ r \in Requests
          /\ \/ /\ r.kind # "clear" /\ evaluator'.tree = r.tree
                /\ \E m \in Replies :
                      /\ toMain' = Append(toMain, m)
                      /\ m.kind = "tree" /\ m.version = r.tree.seq
                      /\ m.anew => /\ evaluator.exists
                                   /\ r.kind = "eval" /\ r.force
                                   /\ m.base = evaluator.tree.seq
             \/ /\ ~evaluator.exists /\ UNCHANGED <<evaluator, toMain>>
             \/ /\ ~evaluator'.exists
                /\ \E m \in Replies : /\ toMain' = Append(toMain, m)
                                      /\ m.kind = "cleared"
      BY <1>10, WorkerMessage
    <2>3. evaluator'.exists => r.kind # "clear" /\ evaluator'.tree = r.tree
      BY <2>2
    <2>4. /\ AllTaken' /\ ForcedBare'
          /\ evaluator.exists /\ r.kind = "eval" /\ r.force =>
                \A p \in accepted : p <= r.tree.seq => p <= evaluator.tree.seq
      BY <1>0, <2>1, <2>3, BareTaken
    <2>5. Receiving
      BY <2>1 DEF Receiving
    <2> HIDE DEF r
    <2>6. \/ UNCHANGED toMain
          \/ \E m \in Replies : /\ toMain' = Append(toMain, m)
                                /\ m.kind = "tree" => Bare(m)
      BY <2>2, <2>4 DEF Bare
    <2>7. AnewBare'
      BY <1>0, <2>1, <2>5, <2>6, AnewKept
    <2>8. NothingStale'
      BY <1>0, <2>1, <2>5, NothingStaleKept
    <2> QED  BY <2>4, <2>7, <2>8 DEF StaleInv
  <1>11. CASE ReceiveTree
    <2>1. /\ UNCHANGED <<store, evaluator, toWorker, accepted, buffer, initAction>>
          /\ toMain # <<>> /\ toMain' = Tail(toMain)
      BY <1>11 DEF ReceiveTree
    <2>2. AllTaken' /\ ForcedBare' /\ Receiving
      BY <1>1, <2>1
    <2> QED  BY <1>0, <1>11, <2>1, <2>2, AnewKept, ReceiveStale DEF StaleInv
  <1>12. CASE IgnoreCleared \/ FetchPage \/ PageFails \/ WaitForAction
               \/ UNCHANGED vars
    <2>1. /\ UNCHANGED <<store, evaluator, toWorker, accepted, buffer, initAction>>
          /\ UNCHANGED toMain \/ (toMain # <<>> /\ toMain' = Tail(toMain))
          /\ \/ shown' = EmptyTree
             \/ UNCHANGED shown /\ (page' = "idle" => page = "idle")
      BY <1>12 DEF IgnoreCleared, FetchPage, PageFails, WaitForAction, vars,
                   mainVars, threadVars, queueVars, pageVars
    <2>2. AllTaken' /\ ForcedBare' /\ Receiving
      BY <1>1, <2>1
    <2>3. AnewBare' /\ NothingStale'
      BY <1>0, <2>1, <2>2, AnewKept, NothingStaleKept
    <2> QED  BY <2>2, <2>3 DEF StaleInv
  <1> QED
    BY <1>2, <1>3, <1>5, <1>7, <1>8, <1>9, <1>10, <1>11, <1>12
    DEF Next, Changing, Consuming

LEMMA StaleInit == Init => StaleInv
  <1> SUFFICES ASSUME Init PROVE StaleInv
    OBVIOUS
  <1>1. /\ 1..Len(toWorker) = {} /\ 1..Len(toMain) = {} /\ accepted = {}
        /\ shown.stale = {}
    BY EmptySeq DEF Init, EmptyTree
  <1> QED  BY <1>1 DEF StaleInv, AllTaken, ForcedBare, AnewBare, NothingStale

\* While no page is fetched the canvas shows a whole tree: differences are only
\* ever applied to the tree they were computed against, and an edit or a page
\* never comes to it with the answer of a new evaluator, which removes nothing.
THEOREM CanvasIsWhole == Spec => []CanvasWhole
  <1>1. TypeInv => TypeOK
    BY DEF TypeInv
  <1>2. NamingInv => NothingYet
    BY DEF NamingInv
  <1>3. CanvasInv /\ StaleInv => CanvasWhole
    BY DEF CanvasInv, ShownWhole, StaleInv, NothingStale, CanvasWhole
  <1>4. Spec => []NamingInv
    BY NamingInit, NamingStep, TypeInvariant, PTL DEF Spec
  <1>5. Spec => []CanvasInv
    BY <1>1, CanvasInit, CanvasStep, TypeInvariant, PTL DEF Spec
  <1>6. Spec => []PostsInv
    BY PostsInit, PostsStep, TypeInvariant, PTL DEF Spec
  <1>7. Spec => []PlacesInv
    BY <1>2, <1>4, PlacesInit, PlacesStep, TypeInvariant, PTL DEF Spec
  <1>8. Spec => []TreesGrow
    BY <1>6, QuietInit, TreesStep, TypeInvariant, PTL DEF Spec
  <1>9. Spec => []StaleInv
    BY <1>4, <1>5, <1>7, <1>8, StaleInit, StaleStep, TypeInvariant, PTL DEF Spec
  <1> QED
    BY <1>3, <1>5, <1>9, PTL
=============================================================================
