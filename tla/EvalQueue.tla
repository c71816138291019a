------------------------------ MODULE EvalQueue ------------------------------
(***************************************************************************)
(* How the client re-evaluates an application when its state changes:      *)
(* evaluationChangeListenerSaga and its queue (sagas/EvaluationsSaga.ts),  *)
(* the evaluation worker's tree (handlers/evalTree.ts, evalTrigger.ts,     *)
(* DataTreeEvaluator) and the evaluated tree the canvas shows              *)
(* (treeReducer.ts), with the page switches that reset both.               *)
(*                                                                         *)
(* An action of redux that changes the state is a change.  Changes are     *)
(* numbered, and the number of the last one is the version of a tree.  Of  *)
(* a tree the model also knows the body of every JS object, named by the   *)
(* change that wrote it.  A post-eval action is named by its change too.   *)
(*                                                                         *)
(* Sagas and the worker run to their next blocking effect, so one action   *)
(* is the code between two of them.  Messages between the two threads      *)
(* arrive in order.  The worker runs; WorkerService.tla says when it does. *)
(***************************************************************************)
EXTENDS Naturals, Sequences, FiniteSets

CONSTANTS
    JSObjects,    \* the JS objects of the application
    Typed,        \* those whose body is edited in the JS editor
    MaxChanges,   \* bound: number of changes but for a page's arrival
    MaxTriggers,  \* bound: number of triggers (event handlers run)
    MaxFetches    \* bound: number of page fetches

ASSUME EvalAssumption ==
    /\ Typed \subseteq JSObjects
    /\ MaxChanges \in Nat /\ MaxTriggers \in Nat /\ MaxFetches \in Nat

VARIABLES
    store,      \* the redux state the unevaluated tree is made of
    saving,     \* the bodies of each JS object on their way to the server
    page,       \* where the latest page fetch is
    fetches,    \* number of page fetches
    triggers,   \* number of triggers
    listener,   \* where evaluationChangeListenerSaga is
    initAction, \* post-eval actions of the first action
    buffer,     \* the state of evalQueueBuffer
    toWorker,   \* requests posted to the worker
    evaluator,  \* dataTreeEvaluator of the worker and its parsed JS objects
    toMain,     \* messages the worker posted
    shown,      \* the evaluated tree of the redux state
    accepted,   \* history: post-eval actions the saga received
    done        \* history: post-eval actions it dispatched

pageVars   == <<page, fetches>>
queueVars  == <<listener, initAction, buffer, accepted>>
threadVars == <<toWorker, evaluator, toMain>>
mainVars   == <<store, saving, pageVars, triggers, queueVars, shown, done>>
vars == <<mainVars, threadVars>>

Versions == 0..MaxChanges + MaxFetches
Bodies   == [JSObjects -> Versions]
Trees    == [seq : Versions, body : Bodies]
NoTree   == [seq |-> 0, body |-> [j \in JSObjects |-> 0]]

\* The tree after FETCH_PAGE_INIT or RESET_DATA_TREE.  A tree is whole if the
\* differences applied to it were computed against it.  A change is stale in it
\* if it came without its deletions: what it removed may still be shown.
EmptyTree   == [version |-> 0, whole |-> TRUE, stale |-> {}]
EmptyBuffer == [canTake |-> FALSE, post |-> {}, affected |-> {}]

Requests ==
    [kind : {"eval"}, tree : Trees, affected : SUBSET JSObjects,
     force : BOOLEAN, post : SUBSET Versions, awaited : BOOLEAN]
        \cup [kind : {"trigger"}, tree : Trees]
        \cup [kind : {"clear"}, fetch : 1..MaxFetches]

Replies ==
    [kind : {"tree"}, newTree : BOOLEAN, anew : BOOLEAN, base : Versions,
     version : Versions, post : SUBSET Versions, awaited : BOOLEAN]
        \cup [kind : {"cleared"}, fetch : 1..MaxFetches]

TypeOK ==
    /\ store \in Trees
    /\ saving \in [JSObjects -> SUBSET Versions]
    /\ page \in {"idle", "fetching", "clearing", "failed"}
    /\ fetches \in 0..MaxFetches
    /\ triggers \in 0..MaxTriggers
    /\ listener \in {"start", "config", "taking", "evaluating", "finishing"}
    /\ initAction \subseteq Versions
    /\ buffer \in [canTake : BOOLEAN, post : SUBSET Versions,
                   affected : SUBSET JSObjects]
    /\ toWorker \in Seq(Requests)
    /\ evaluator \in [exists : BOOLEAN, tree : Trees, parsed : Bodies]
    /\ toMain \in Seq(Replies)
    /\ shown \in [version : Versions, whole : BOOLEAN,
                  stale : SUBSET Versions]
    /\ accepted \subseteq Versions
    /\ done \subseteq Versions

\* The worker is set up and no page was fetched yet.
Init ==
    /\ store = NoTree
    /\ saving = [j \in JSObjects |-> {}]
    /\ page = "idle" /\ fetches = 0
    /\ triggers = 0
    /\ listener = "start" /\ initAction = {}
    /\ buffer = EmptyBuffer
    /\ toWorker = <<>> /\ toMain = <<>>
    /\ evaluator = [exists |-> FALSE, tree |-> NoTree, parsed |-> NoTree.body]
    /\ shown = EmptyTree
    /\ accepted = {} /\ done = {}

-----------------------------------------------------------------------------
(* The queue *)

\* What the saga reads off an action: does its type ask for an evaluation (or
\* for linting alone), which JS objects it names, whether it forces a new
\* evaluator, and its post-eval actions.
Action(evaluates, affected, force, post) ==
    [evaluates |-> evaluates, affected |-> affected, force |-> force,
     post |-> post]

\* evaluateTreeSaga posts the state of the moment; "awaited" if the listener
\* waits for the answer.
EvalRequest(tree, action, awaited) ==
    [kind |-> "eval", tree |-> tree, affected |-> action.affected,
     force |-> action.force, post |-> action.post, awaited |-> awaited]

\* Faulty: the JS objects of the last action replace those of the others; the
\* post-eval actions of the last action do.
KeepLastAffected(b, action) ==
    [canTake |-> TRUE, post |-> b.post \cup action.post,
     affected |-> action.affected]
KeepLastPost(b, action) ==
    [canTake |-> TRUE, post |-> action.post,
     affected |-> b.affected \cup action.affected]

\* put() of evalQueueBuffer: isAllAffected is the set of all JS objects.
Merge(b, action) ==
    [canTake |-> TRUE, post |-> b.post \cup action.post,
     affected |-> b.affected \cup action.affected]

\* Faulty: a BUFFERED_ACTION forces a new evaluator.
BufferedForces(b) == Action(TRUE, b.affected, TRUE, b.post)

\* take() of evalQueueBuffer: a BUFFERED_ACTION evaluates and forces nothing.
Buffered(b) == Action(TRUE, b.affected, FALSE, b.post)

\* An action reaches the listener: no channel exists before the first
\* evaluation; a waiting take receives the action itself, which may only ask
\* for linting; otherwise the action goes into the buffer.
Deliver(tree, action) ==
    \/ /\ listener \in {"start", "config"}
       /\ UNCHANGED <<listener, buffer, toWorker, accepted>>
    \/ /\ listener = "taking"
       /\ IF action.evaluates
          THEN /\ listener' = "evaluating"
               /\ toWorker' = Append(toWorker, EvalRequest(tree, action, TRUE))
          ELSE /\ listener' = "finishing"
               /\ UNCHANGED toWorker
       /\ accepted' = accepted \cup action.post
       /\ UNCHANGED buffer
    \/ /\ listener \in {"evaluating", "finishing"}
       /\ buffer' = Merge(buffer, action)
       /\ accepted' = accepted \cup action.post
       /\ UNCHANGED <<listener, toWorker>>

\* The configuration of the widgets is built: the first evaluation is forked,
\* with all JS objects affected, and the channel is created.
FirstEvaluation ==
    /\ listener = "config"
    /\ listener' = "taking"
    /\ toWorker' = Append(toWorker,
                          EvalRequest(store, Action(TRUE, JSObjects, FALSE,
                                                    initAction), FALSE))
    /\ initAction' = {}
    /\ UNCHANGED <<store, saving, pageVars, triggers, buffer, accepted,
                   evaluator, toMain, shown, done>>

\* Faulty: the buffer's post-eval actions stay in it.
TakeTwice ==
    /\ listener = "finishing" /\ buffer.canTake
    /\ listener' = "evaluating"
    /\ toWorker' = Append(toWorker, EvalRequest(store, Buffered(buffer), TRUE))
    /\ buffer' = [buffer EXCEPT !.canTake = FALSE]
    /\ UNCHANGED <<store, saving, pageVars, triggers, initAction, accepted,
                   evaluator, toMain, shown, done>>

\* evalAndLintingHandler returned (the linting is done too) and the loop takes
\* the actions that were buffered meanwhile as one.
TakeBuffered ==
    /\ listener = "finishing" /\ buffer.canTake
    /\ listener' = "evaluating"
    /\ toWorker' = Append(toWorker, EvalRequest(store, Buffered(buffer), TRUE))
    /\ buffer' = EmptyBuffer
    /\ UNCHANGED <<store, saving, pageVars, triggers, initAction, accepted,
                   evaluator, toMain, shown, done>>

\* Faulty: the loop does not look into the buffer.
WaitRegardless ==
    /\ listener = "finishing"
    /\ listener' = "taking"
    /\ UNCHANGED <<store, saving, pageVars, triggers, initAction, buffer,
                   accepted, threadVars, shown, done>>

\* It returned and the loop waits for the next action.
WaitForAction ==
    /\ listener = "finishing" /\ ~buffer.canTake
    /\ listener' = "taking"
    /\ UNCHANGED <<store, saving, pageVars, triggers, initAction, buffer,
                   accepted, threadVars, shown, done>>

-----------------------------------------------------------------------------
(* The actions that change the state *)

\* Faulty: one change counts as two.
ChangeTwice(body) == [seq |-> store.seq + 2, body |-> body]
Change(body)      == [seq |-> store.seq + 1, body |-> body]

\* A change is dispatched: the reducers run, then the saga's channel.
Dispatch(body, affected, evaluates, force, post) ==
    /\ store.seq < MaxChanges
    /\ store' = Change(body)
    /\ Deliver(Change(body), Action(evaluates, affected, force, post))
    /\ UNCHANGED <<pageVars, triggers, initAction, evaluator, toMain, shown,
                   done>>

\* A widget, a query or the theme changes, with a post-eval action.
Edit ==
    /\ Dispatch(store.body, {}, TRUE, FALSE, {store.seq + 1})
    /\ UNCHANGED saving

\* A library was installed or removed.
Library ==
    /\ Dispatch(store.body, {}, TRUE, TRUE, {})
    /\ UNCHANGED saving

\* A JS object is created, copied, moved, deleted or fetched.
JSChange(j) ==
    /\ Dispatch([store.body EXCEPT ![j] = store.seq + 1], {j}, TRUE, FALSE, {})
    /\ UNCHANGED saving

\* UPDATE_JS_ACTION_BODY_INIT: the editor's text is in the state at once, the
\* action asks for linting alone and names no JS object, and the body is sent
\* to the server.
Type(j) ==
    /\ Dispatch([store.body EXCEPT ![j] = store.seq + 1], {}, FALSE, FALSE, {})
    /\ saving' = [saving EXCEPT ![j] = @ \cup {store.seq + 1}]

\* UPDATE_JS_ACTION_BODY_SUCCESS puts the body that was sent into the state.
Saved(j, v) ==
    /\ v \in saving[j]
    /\ Dispatch([store.body EXCEPT ![j] = v], {j}, TRUE, FALSE, {})
    /\ saving' = [saving EXCEPT ![j] = @ \ {v}]

\* An event handler runs in the worker, with the state of the moment.
Trigger ==
    /\ triggers < MaxTriggers
    /\ triggers' = triggers + 1
    /\ toWorker' = Append(toWorker, [kind |-> "trigger", tree |-> store])
    /\ UNCHANGED <<store, saving, pageVars, queueVars, evaluator, toMain,
                   shown, done>>

-----------------------------------------------------------------------------
(* The worker *)

\* evalTree on the first tree or with forceEvaluation parses every JS object,
\* otherwise the affected ones whose body changed (generateJSObjectUpdates).
Parsed(tree, affected) ==
    [j \in JSObjects |->
        IF j \in affected /\ tree.body[j] # evaluator.tree.body[j]
        THEN tree.body[j] ELSE evaluator.parsed[j]]

\* The whole tree the first time, and then the differences with the tree sent
\* before ("base").  forceEvaluation makes the evaluator anew, whose previous
\* state is empty, but no new tree of the answer: the differences are with an
\* empty tree, that is values alone.
Reply(tree, post, awaited, forced) ==
    [kind |-> "tree", newTree |-> ~evaluator.exists,
     anew |-> evaluator.exists /\ forced,
     base |-> evaluator.tree.seq, version |-> tree.seq,
     post |-> post, awaited |-> awaited]

EvalTree ==
    /\ toWorker # <<>> /\ Head(toWorker).kind = "eval"
    /\ toWorker' = Tail(toWorker)
    /\ LET r == Head(toWorker)
       IN  /\ evaluator' =
                [exists |-> TRUE, tree |-> r.tree,
                 parsed |-> IF evaluator.exists /\ ~r.force
                            THEN Parsed(r.tree, r.affected)
                            ELSE r.tree.body]
           /\ toMain' = Append(toMain, Reply(r.tree, r.post, r.awaited, r.force))
    /\ UNCHANGED mainVars

\* evalTrigger brings the tree up to date, with all JS objects affected, and
\* pushes it (UPDATE_DATATREE).
EvalTrigger ==
    /\ toWorker # <<>> /\ Head(toWorker).kind = "trigger"
    /\ toWorker' = Tail(toWorker)
    /\ LET r == Head(toWorker)
       IN  IF evaluator.exists
           THEN /\ evaluator' = [exists |-> TRUE, tree |-> r.tree,
                                 parsed |-> Parsed(r.tree, JSObjects)]
                /\ toMain' = Append(toMain, Reply(r.tree, {}, FALSE, FALSE))
           ELSE UNCHANGED <<evaluator, toMain>>
    /\ UNCHANGED mainVars

\* clearCache drops the evaluator and the parsed JS objects.
ClearCache ==
    /\ toWorker # <<>> /\ Head(toWorker).kind = "clear"
    /\ toWorker' = Tail(toWorker)
    /\ evaluator' = [exists |-> FALSE, tree |-> NoTree, parsed |-> NoTree.body]
    /\ toMain' = Append(toMain, [kind |-> "cleared",
                                 fetch |-> Head(toWorker).fetch])
    /\ UNCHANGED mainVars

-----------------------------------------------------------------------------
(* The answers *)

\* SET_EVALUATED_TREE: a new tree replaces the old one; values fit any tree but
\* remove nothing from it; differences are applied to it, and without
\* differences nothing happens.
Apply(m) ==
    IF m.newTree
    THEN [version |-> m.version, whole |-> TRUE, stale |-> {}]
    ELSE IF m.anew
    THEN [shown EXCEPT !.version = m.version,
                       !.stale = @ \cup (shown.version + 1)..m.version]
    ELSE IF m.base = m.version THEN shown
    ELSE [shown EXCEPT !.version = m.version,
                       !.whole = @ /\ shown.version = m.base]

\* Faulty: the post-eval actions collected meanwhile are dispatched as well.
PostOfBuffer(m) == m.post \cup buffer.post
PostOf(m) == m.post

\* updateDataTreeHandler: the tree first, then the post-eval actions.
ReceiveTree ==
    /\ toMain # <<>> /\ Head(toMain).kind = "tree"
    /\ toMain' = Tail(toMain)
    /\ LET m == Head(toMain)
       IN  /\ shown' = Apply(m)
           /\ done' = done \cup PostOf(m)
           /\ listener' = IF m.awaited THEN "finishing" ELSE listener
    /\ UNCHANGED <<store, saving, pageVars, triggers, initAction, buffer,
                   accepted, toWorker, evaluator>>

-----------------------------------------------------------------------------
(* Switching pages *)

\* FETCH_PAGE_INIT resets the evaluated tree and cancels a fetch in progress.
FetchPage ==
    /\ fetches < MaxFetches
    /\ fetches' = fetches + 1
    /\ page' = "fetching"
    /\ shown' = EmptyTree
    /\ UNCHANGED <<store, saving, triggers, queueVars, threadVars, done>>

\* The server answered: clearEvalCache asks the worker to clear its cache.
PageArrives ==
    /\ page = "fetching"
    /\ page' = "clearing"
    /\ toWorker' = Append(toWorker, [kind |-> "clear", fetch |-> fetches])
    /\ UNCHANGED <<store, saving, fetches, triggers, queueVars, evaluator,
                   toMain, shown, done>>

PageFails ==
    /\ page = "fetching"
    /\ page' = "failed"
    /\ UNCHANGED <<store, saving, fetches, triggers, queueVars, threadVars,
                   shown, done>>

\* The cache is cleared: RESET_DATA_TREE, the new page's widgets, and
\* FETCH_ALL_PAGE_ENTITY_COMPLETION with a post-eval action (run what runs on
\* page load), which starts the listener or is evaluated by it.
PageReady ==
    /\ toMain # <<>> /\ Head(toMain).kind = "cleared"
    /\ Head(toMain).fetch = fetches /\ page = "clearing"
    /\ toMain' = Tail(toMain)
    /\ shown' = EmptyTree
    /\ page' = "idle"
    /\ store' = Change(store.body)
    /\ IF listener = "start"
       THEN /\ listener' = "config"
            /\ initAction' = {store.seq + 1}
            /\ accepted' = accepted \cup {store.seq + 1}
            /\ UNCHANGED <<buffer, toWorker>>
       ELSE /\ Deliver(Change(store.body),
                       Action(TRUE, JSObjects, FALSE, {store.seq + 1}))
            /\ UNCHANGED initAction
    /\ UNCHANGED <<saving, fetches, triggers, evaluator, done>>

\* The fetch that asked for it was cancelled.
IgnoreCleared ==
    /\ toMain # <<>> /\ Head(toMain).kind = "cleared"
    /\ ~(Head(toMain).fetch = fetches /\ page = "clearing")
    /\ toMain' = Tail(toMain)
    /\ UNCHANGED <<mainVars, toWorker, evaluator>>

-----------------------------------------------------------------------------

Next ==
    \/ Edit \/ Library \/ Trigger
    \/ \E j \in JSObjects \ Typed : JSChange(j)
    \/ \E j \in Typed : Type(j)
    \/ \E j \in Typed, v \in Versions : Saved(j, v)
    \/ FetchPage \/ PageArrives \/ PageFails \/ PageReady \/ IgnoreCleared
    \/ FirstEvaluation \/ TakeBuffered \/ WaitForAction
    \/ EvalTree \/ EvalTrigger \/ ClearCache \/ ReceiveTree

\* Both threads handle the messages they get and the listener goes on; the
\* user and the server need not do anything.
Fairness ==
    /\ WF_vars(FirstEvaluation) /\ WF_vars(TakeBuffered \/ WaitForAction)
    /\ WF_vars(EvalTree \/ EvalTrigger \/ ClearCache)
    /\ WF_vars(ReceiveTree \/ PageReady \/ IgnoreCleared)

Spec == Init /\ [][Next]_vars /\ Fairness

-----------------------------------------------------------------------------
(* Properties *)

\* A JS object whose body changes only with actions that name it runs the body
\* of the worker's tree: merging actions in the buffer, skipping the objects
\* that are not affected, triggers and page switches never leave an old parsed
\* body behind (generateJSObjectUpdates).
JSParsed ==
    evaluator.exists =>
        \A j \in JSObjects \ Typed : evaluator.parsed[j] = evaluator.tree.body[j]

\* The canvas never shows a tree patched with differences to another one, and
\* nothing that an edit or an arriving page removed: the answer of a new
\* evaluator, which removes nothing, never brings a change with a post-eval
\* action.  Other changes do come with one: an edit of a library, which forces
\* it, and what is typed.  Except while a page is fetched: FETCH_PAGE_INIT
\* empties the tree with answers still on their way.
CanvasWhole == page = "idle" => shown.whole /\ shown.stale \cap accepted = {}

Quiet == listener = "taking" /\ toWorker = <<>> /\ toMain = <<>>

\* When nothing is on its way, the canvas shows the worker's tree, and that has
\* every change but what is being typed: no change falls between the reducers,
\* the channel and its buffer.
QuietIsCurrent ==
    Quiet /\ page = "idle" =>
        /\ shown.version = evaluator.tree.seq
        /\ accepted \subseteq 0..shown.version
        /\ \A j \in JSObjects \ Typed :
              evaluator.tree.body[j] = store.body[j]

\* "So that during that evaluation cycle all affected JS objects are correctly
\* diffed" (mergeJSBufferedActions): when nothing is on its way and every body
\* that was typed is saved, the worker runs the bodies of its tree.
TypedParsed ==
    Quiet /\ evaluator.exists /\ (\A j \in Typed : saving[j] = {}) =>
        \A j \in Typed : evaluator.parsed[j] = evaluator.tree.body[j]

InRequest(i) == IF toWorker[i].kind = "eval" THEN toWorker[i].post ELSE {}
InReply(i)   == IF toMain[i].kind = "tree" THEN toMain[i].post ELSE {}

\* The places a post-eval action can be.
Places == <<done, buffer.post, initAction>>
             \o [i \in 1..Len(toWorker) |-> InRequest(i)]
             \o [i \in 1..Len(toMain) |-> InReply(i)]

\* A post-eval action the saga received is in exactly one place until it is
\* dispatched: none is lost or dispatched twice when actions are merged.
PostEvalConserved ==
    \A p \in accepted :
        Cardinality({i \in 1..Len(Places) : p \in Places[i]}) = 1

\* Post-eval actions (running queries on page load, saving the layout) see a
\* tree with the change they came with, unless a page is being fetched.
PostEvalAfterTree ==
    [][page = "idle" => \A p \in done' \ done : shown'.version >= p]_vars

\* Every post-eval action the saga received is dispatched: once the changes
\* stop (they are bounded here) none is outstanding.
PostEvalRuns == []<>(accepted \subseteq done)
=============================================================================
