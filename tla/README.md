# Appsmith: TLA+ models and proofs

Appsmith is a builder of internal tools. A React client with a web worker edits
and runs applications; a Spring server on Project Reactor keeps them in MongoDB,
coordinates through Redis, executes queries against the users' databases and
versions applications in git. This directory models the parts of it where steps
of several actors interleave, checks them with TLC on small instances and proves
the safety properties that matter most with TLAPS.

Paths are relative to the repository. `C/` stands for `app/client/src/` and `S/`
for `app/server/appsmith-server/src/main/java/com/appsmith/server/`.

## 1. Inventory

| Part | State | Operations | Hard behaviour | Correct if | Module |
|---|---|---|---|---|---|
| **A. Worker RPC**: `C/utils/WorkerUtil.ts`, `C/workers/Evaluation/evaluation.worker.ts`, `fns/utils/Messenger.ts` | readiness flag, Worker, one channel per request in flight; the handlers of the worker | start, shutdown, request, respond, ping, the brokers of both threads | two event loops, cancellation, requests in both directions, draining | answers reach their own caller, none is lost, a shutdown drains | `WorkerService` |
| **B. Evaluation queue**: `C/sagas/EvaluationsSaga.ts`, `C/workers/Evaluation/handlers/`, `C/workers/common/DataTreeEvaluator/` | redux state, `evalQueueBuffer`, tree and parsed JS objects of the worker, evaluated tree on the canvas | evaluate, merge actions, run a trigger, clear the cache, switch pages | actions during an evaluation, differences against a tree that may be gone, two sources of evaluations | canvas and worker catch up with the state, nothing merged is lost | `EvalQueue` |
| **C. Datasource connections**: `S/services/ce/DatasourceContextServiceCEImpl.java` | two maps and a monitor per key | get or create, retry once, delete | threads in and out of a critical section, connections made asynchronously | one connection, none orphaned, the current configuration | `DatasourceContext` |
| **D. Git lock and auto-commit**: `S/helpers/RedisUtils.java`, `S/git/autocommit/` | three Redis keys with time limits | lock with retries, release, eligibility, fetch, background handler, polling | several servers, test and set as two commands, expiry, clean-up after errors | one command at a time, progress of the right auto-commit, no key left | `GitAutoCommit` |
| **E. Reactive cache and feature flags**: `CacheAspect.java`, `S/services/ce/FeatureFlagServiceCEImpl.java`, `S/helpers/ce/FeatureFlagMigrationHelperCEImpl.java` | Redis entries, Cloud Services | get, put, evict, refresh with fallback | evictions and late writes, failures in the middle of a refresh | a failure falls back to the old flags and is forgotten afterwards | `FeatureFlags` |
| **F. Dependency map**: `C/entities/DependencyMap/`, `C/workers/common/DependencyMap/` | nodes, valid and invalid dependencies and the inverses of both | first tree, update by differences, sort order | long sequences of edits, references to what does not exist yet, the order of differences | inverses stay inverses, code is connected whenever what it mentions appears, a change evaluates all it concerns | `DependencyMap` |
| **G. Undo and redo**: `C/entities/Replay/`, `C/sagas/ReplaySaga.ts` | the worker's widgets, stacks of the undo manager, last differences | update, undo, redo, clear | captures that merge updates, differences that share objects, evaluations and page switches between an undo and its answer | an undo restores what was, worker and canvas agree, a page keeps its own widgets | `Replay` |
| H. Trigger batching: `C/workers/Evaluation/fns/utils/TriggerEmitter.ts` | batches, a microtask or a timer | add, flush | a flush that throws, endless postponement | everything is sent once, in order | no; see 6 |
| **I. Action execution**: `C/sagas/ActionExecution/PluginActionSaga.ts`, `C/ce/reducers/entityReducers/actionsReducer.tsx`, `C/workers/Evaluation/handlers/updateActionData.ts` | `isLoading` and response of each action, running sagas, the worker's copy of the responses | run, run on page load in sets, confirm, clear, refresh, cancel by `takeLatest` | overlapping runs, answers after a page switch, waiting for a tree that must come | worker and editor have the same response, a request has the parameters the user saw, a page load ends | `ActionExecution` |
| J. Tenant configuration: `S/services/ce/TenantServiceCEImpl.java` | a document, a cached copy, the cached id | update with merge, read through the cache | read-merge-write, late cache writes | no update is lost, the cache catches up | no; see 6 |
| K. Snapshots: `S/services/ce/ApplicationSnapshotServiceCEImpl.java` | chunks of an exported application | create, restore, delete | failure between deletion and writing | what is restored was exported as one | no; see 6 |
| L. Git commands: `S/git/common/CommonGitServiceCEImpl.java` | repositories on disk, documents | commit, push, pull, merge, status | the lock of D around every command | - | their use of the lock, in D |
| M. On-load executables: `S/onload` | none | dependency graph, cycle detection, levels | - | levels respect dependencies | no; see 6 |
| N. Linting, auto-height, reflow, widgets | derived | - | single-threaded, visual | - | no |
| O. Import, export, migrations, DSL | documents | rewrite | long, sequential, in one transaction | - | no |
| P. Accounts, permissions, sessions | documents | request-response | - | properties are about security | no |
| Q. Plugins, interfaces, the AST service, deployment | none or third-party | - | - | - | no; plugins are external to C |
| R. Realtime presence: `app/client/packages/rts/src/controllers/socket.ts` | rooms, the room a socket waits for until it is authenticated | start, leave, authenticate, send editors | events before the answer of the authentication; lists computed asynchronously | a socket is in the room it last asked for | no; see 6 |

How they meet: every evaluation of B is a request of A, and so is every event
handler that runs in the worker; a request of the worker to the main thread (run
this query) ends in I, which calls the server, whose execution takes its
connection from C. A page switch in the client (B) starts I's actions as
post-eval actions and D's auto-commit requests. Every git command on the server
holds the lock of D. Flags of E decide what all of them offer. The models meet at
these interfaces: B, G and I assume of A that messages of one thread arrive in order
and are handled; A shows when that holds (no shutdown, no handler that throws). F is
what B's worker does inside one evaluation; B needs of it only that the tree it sends
is that of the request. G and I model B's loop by what they need of it (one
evaluation at a time, one merged action behind it); B has it in full.

## 2. The models

Every model states what one action stands for: code between two points at which
another actor can intervene.

### A. `WorkerService`, refining `DrainableService`

One action is the code of a saga, or of a message listener of the worker, up to
its next blocking effect. `isReady`, `hasWorker`, `channels` and `listener` are
`_isReady`, `_Worker`, `_channels` and `listenerChannel`; `readyTakers` are the
calls blocked in `take(_readyChan)`, where one signal of `start()` wakes one
taker; `toWorker`, `toMain` and `handler` are the wires and the worker.
`Call`/`Signal` are `request`, `respond` and `ping`; `Broker` is `_broker`;
`HandleWorkerMessage` the listener saga; `Shutdown`/`Drained` are `shutdown()` and
its polling every 10 ms; `Cancel` the `finally` of a cancelled saga. A handler may
ask the main thread first (`Nested`), throw (`Failing`), or answer.

`DrainableService` is what callers rely on: work is accepted only while the
service is up, and it goes down only when the accepted work has ended.

### B. `EvalQueue`

Changes of the redux state are numbered, and a tree is known by the number of the
last change in it and by the number of the change that wrote each JS object's
body. An action is dispatched (`Edit`, `Library`, `JSChange`, `Type`, `Saved`,
`PageReady`) and delivered to the listener (`Deliver`): dropped before the channel
exists, taken if the listener waits, otherwise merged into the buffer. The
listener's position is `start`, `config` (building widget configurations),
`taking`, `evaluating`, `finishing` (waiting for the rest of
`evalAndLintingHandler`). `EvalTree`, `EvalTrigger` and `ClearCache` are the
worker's handlers; a reply carries differences against the tree before it
(`base`), and `ReceiveTree` applies them with the reducer. A canvas is `whole`
if every difference was applied to the tree it was computed against. A forced
evaluation has a new evaluator, whose differences are with an empty tree (`anew`): they
can be applied to any tree and remove nothing, and the changes that come this way are
`stale` in the canvas.

Left out: values, dependencies and errors of evaluation, so also the `catch` of
`evalTree` (which sends a new tree) and the evaluation after a cycle, whose evaluator is
new like that of a forced one; trees changed by the worker itself (`evalTreeWithChanges`); restart
of the listener after an exception; the published mode, which does not reset the
tree when a page fetch begins; undo logging.

### C. `DatasourceContext`

One key. `ctxMap` and `monoMap` are the two maps, `monitor` the set of threads in
`synchronized`. A thread runs `retryOnce`: unsynchronised fast path (`FastCheck`,
`FastGet`), `Enter`, `Evict`, `Forget`, `Share` or `Create`, `Publish`, then it
awaits the mono, uses the connection, and after a stale connection deletes
(`ReadToDelete`, `DestroyRead`, `Remove`) and runs again. Archivers only delete.
`Connect` is the plugin, asynchronous and possibly failing; `Update` an edit of
the datasource; `Break` the database closing the connection. That the critical
section excludes is not built in: a thread can only enter if the monitor is
empty, and `Locked` of the proofs shows what this gives.

### D. `GitAutoCommit`

One application. Every Redis command is one action. A request arrives (`Arrive`; a
checkout begins with a release of its own), or fails before it asks for the lock or
without ever doing so (`FailEarly`). `AddFileLock` is `Check` (`hasKey`), `Set`, `Retry`,
`Refuse`, and `Vanish` for a lock that expires between `hasKey` and `get`. A command works
(`Work`, `WorkFails`) and releases, after which it may still fail. The response to any
request that failed goes through the exception handler (`Except`; `ProgressFails` for a
request for the progress), which deletes the lock of the application, whoever has it
(`ReleaseFileLock`). `Crash` is a server that stops while it has the lock. An auto-commit request checks eligibility under the
lock, fetches under the lock, publishes its event and answers; its handler locks
again, sets the two auto-commit keys (`StartCheck`, `StartSet`, `Begin`),
commits, pushes and cleans up (`Finish`, `Hundred`, `Release`) also after errors.
Clients poll. Keys expire. `lock` and `running` record who set the key, which
Redis does not know and no guard reads. The history variable `calm` becomes false when
two processes find the lock absent; when the key is deleted while the process that set it
still counts on it, by time or by somebody else's release (any of those above); when a
handler that was refused the lock cleans up all the same; when a `then(...)` goes on after
the lock vanished; and when the server of the holder stops.

### E. `FeatureFlags`

One key, of a user or of the tenant. `Hit`, `Miss`, `Call` and `Put` are the
aspect around a `@Cache` method, `Evict` that around `@CacheEvict`; `phase` says
which call of a refresh is under way: look at the existing entry, evict and fetch
the latest, fall back to the previous. Tenant refreshes evict once more before
they fall back, user refreshes do not. `Age` is time, `CloudServices` the other
side, which fails, recovers and changes its mind. History variables: `failed`,
`quiet`.

### F. `DependencyMap`

A path is the sequence of its names; the code of a bound path is the set of paths
it mentions, so parsing is abstracted. `map` is the `DependencyMap` object: its
maps are sets of pairs. `SetupFirstTree` builds it, `UpdateTree` takes a new tree with
the differences to the old one in any order in which their entities can come, and
`HandleDiff` is one round of the loop of `updateDependencyMap` (`New`, `Delete`,
`EditPath`, each with the parents and the pruned references); `Sort` is the cycle test
and `calculateSubTreeSortOrder`, which starts from the paths of all differences (`changes`)
and from the dependants of what was removed (`dependants`), and takes the bound paths
below a change that is not bound itself. A cycle makes the next evaluation start from a
new evaluator.

A value of a bound path holds a binding, or is a string without one (`plain`), or no
string (`literal`). As in `translateDiffEventToDataTreeDiffEvent`, a change between
values without bindings is evaluated but is no event for the map; an edit to a plain
string declares that nothing is mentioned, one to a value that is no string declares
nothing; a new path declares itself, a new entity or part of one only the entity's
bindings. So a binding that becomes `true` keeps its dependencies, also when that becomes
a plain string: the history `retained` has those paths. The history `abandoned` has pairs of a removed node and what it was
still waiting for: `removeDependency` leaves them in the inverse of the invalid
dependencies, and the node that comes back is connected by them although
its code may mention nothing. Both leftovers can make a cycle that does not exist;
`Explained` says that there are no others. The history `last` is the tree of
the evaluation before the one under way, with which `OrderComplete` compares what is
left out. The entities are widgets and JS objects; for a query the code evaluates all its
bindings whenever a path of it changes that is not bound.

### G. `Replay`

A widget is one value or absent. The worker's widgets are objects on a heap, because
deep-diff's differences of kind N and D hold the object itself, and applying them
puts it back into the entity. An item of the stacks is what the cell of the Yjs map
had before and after; `quick` updates come within the 100 ms of the capture time
and merge. `AskReplay`, `ReceiveReplayed` and `ReceiveNothing` are the two halves of
`undoRedoSaga`; what the second puts into the state goes through a layout step that may change
widgets or delete an empty section (`Adjusted`). `Edit` is an `UPDATE_LAYOUT`, with
`shouldReplay = false` for skeletons of building blocks and auto heights that are evaluated;
`Resize` is `UPDATE_MULTIPLE_WIDGET_PROPERTIES`, which nothing evaluates. `Evaluate` is the
evaluation loop, where buffering an action loses its `shouldReplay = false`; `EvalTree` makes a new replay object with a new evaluator and
updates it otherwise; `ClearCache` leaves it. An object that nothing holds any more is
forgotten (`Collected`), so `Objects` bounds what is held at a time; the guard `Room`
stops the worker where the bound has no object for each widget left. The differences of
one item are about different widgets (`Single` of the proofs), so `ApplyDiffs` applies them
at once. Histories: `other` in an item (the widgets that taking it should lead to), `torn`
(why that is no longer so), `unseen` (widgets changed without the replay object being told,
since it was told of any update), `switch`.

### I. `ActionExecution`

Two pages; two actions may have the same name on different pages. `client` has what
the redux state keeps (`loading`, `data`), the running sagas, each at the effect where
it waits (`saving`, `confirm`, `params`, `http`, `tree`), and the sets left of the page
load. An action of the model is a saga up to its next blocking effect: `RunFromPane`,
`RunFromTrigger`, `StartLoad`, `Confirm`, `Decline`, `Saved`, `ReceiveValues`, `Answer`
(success or error), `Refused`. The worker answers `EVAL_ACTION_BINDINGS` from its tree
and takes over responses (`UpdateActionData`), after which it pushes a tree by itself.
`FetchPage`, `ReceiveCleared` and `RefreshFails` bring the loads; `FetchPage` is also the
soft refresh after a switch of the environment. Histories:
`dropped` (a loading action whose run ended without resetting it), `apart` (a response
the worker was not told as the state has it).

## 3. What TLC checks

Distinct states are those of the passing runs. All bounds are CONSTANTS or sets
in the cfg; models with bounded counters stop, so these runs have
`CHECK_DEADLOCK FALSE`. The runs of `FeatureFlags` check for deadlock.

| Run | Bounds | States | Shows |
|---|---|---|---|
| `worker` | 3 requests (one nested, one failing), 1 ping, 2 starts | 46 238 | `Conserved`: nothing is lost or duplicated. `NoCallGivesUp`: the "impossible case" is one. `GracefulSpec`: refines `DrainableService`. `ServedWhileAlive`, `DrainEndsOrBlocked`: a live worker answers; a shutdown ends unless one of three named causes blocks it |
| `datasource` | 2 queries, 1 archiver, 2 versions, 1 break, 4 contexts, failures | 421 558 | `MapsAgree`, `OneConnection`, `QueriesEnd` |
| `git` | 1 command, 2 auto-commit requests, 1 retry | 745 211 | `ExclusiveWhenCalm`, `RunningUnderLock`, `ProgressIsOwn`, `EverythingEnds` |
| `flags` | 2 processes, 2 maps of flags | 57 836 | `FallbackOnlyOnFailure`, `TenantFallback`, `FlagsConverge` |
| `flags_fallback` | same | - | finding: a user's refresh loses the flags |
| `eval` | 2 JS objects, 4 changes, 1 trigger, 2 page fetches | 401 282 | `JSParsed`, `CanvasWhole`, `QuietIsCurrent`, `PostEvalConserved`, `PostEvalAfterTree`, `PostEvalRuns` |
| `eval_lint_only` | 1 JS object, 4 changes, 1 page fetch | - | finding: an edited body is not parsed |
| `dependency_map` | 9 paths, 3 of them bound, 4 trees after the empty one, 2 differences each | 298 019 | `InversesAgree`, `Connected`, `Explained`, `OrderComplete` |
| `depmap_lost` | same | - | finding: a function forgets what it waits for |
| `actions` | 3 actions on 2 pages, 2 of one name, page load of two sets, 2 things the user does | 273 361 | `ResponseIsShown`, `LoadingExplained`, `SentWithResponses`, `LoadFinishes` |
| `replay` | 2 pages with one widget each, 2 values, 3 edits, auto heights, layout steps or page switches, stacks of 3, 1 undo or redo in flight | 1 014 844 | `InSync`, `OwnLayout`, `ReplaysExactly` |
| `replay_undo` | same | - | finding: an undo that does not restore |

Why the bounds are enough to be interesting. `worker`: three requests let answers
overtake each other while a third is cancelled, and the second start meets a
terminated worker. `datasource`: a creation, an eviction, a re-creation after a
stale connection by either thread, with the archiver between any two map
operations; a thread creates at most twice, so four contexts never run out.
`git`: the retry bound is 1 instead of 20, since a retry only repeats the test;
three processes give a holder, a waiter and a third that disturbs them. `flags`:
two processes give every overlap of two refreshes, and a third would only repeat
them on one key. `eval`: two changes meet one evaluation in the buffer, a third
arrives in the next, and the second fetch cancels the first, or arrives while its
answer is on the way. More changes (1.7 million states with three fetches) showed
nothing new. `dependency_map`: the 9 paths have an entity with nested paths that come and
go one by one, a widget whose code mentions them and that may get another path, which
declares its code again, and a function with a child path that mentions
the widget, so that there are chains, cycles and references to all levels; two
differences are enough for every pair of events in either order, and four trees for
add, remove, add again and one more. `actions`: beside the load, two things happen at
any time (a second run, a page switch, a clear...), enough for two runs of an action to
overlap across a page switch. `replay`: three edits are what the finding needs (add,
change, delete); the number of undos and redos is not bounded, since the items move
between the stacks. The heap of 12 objects never runs out.

Fairness. `WorkerService` and `EvalQueue`: both event loops deliver every message
and sagas that can run do; users, servers and cancellations need not act. Threads of
`DatasourceContext` are scheduled and an attempt to connect ends (every plugin has
a time limit). `GitAutoCommit`: requests go on, clients poll, and the time limits
of the lock and of the running auto-commit run out, which Redis guarantees; the
progress key need not expire. `ActionExecution`: both event loops run, a due evaluation is
requested, and the server answers (the client has a time limit); users need not confirm.
`FeatureFlags`: requests
keep coming, the scheduled task runs every 30 minutes, and time passes. All of it is
weak fairness.

## 4. What the code does and does not promise: findings

1. **No fallback for users' flags** (`flags_fallback`, `UserFallback`): the empty
   answer has been cached, and the `@Cache` on the fallback finds it.
2. **Edited JS bodies that are never parsed** (`eval_lint_only`, `TypedParsed`): the
   body enters the state with an action that names no JS object, and the action that
   names it brings no difference any more.
3. **References that are forgotten** (`depmap_lost`, `UsedEarlierIsConnected`):
   `makeParentsDependOnChild` declares a parent again with its valid dependencies and
   the child; what the parent's code mentions and does not exist yet is lost, and adding
   it later does not re-evaluate the code. It happens to bound paths with paths below
   them, such as functions of JS objects with their `data`.
4. **Undos that do not restore** (`replay_undo`, `UndoReverts`): add a widget, change it,
   delete it, undo all, redo all, undo: the widget is back without the change, because
   the differences share objects that undo and redo change in place.

The guarded forms of the properties name the other disturbances the models found. They
are history variables or premises, and worth a look at the code:

- `DrainEndsOrBlocked`: a shutdown waits for ever on a request whose handler needs a
  response, since `respond()` waits for the readiness that `shutdown()` has withdrawn.
- `OneConnection`: a stale context evicted while it is still connecting has nothing to
  destroy, and the connection it then opens is orphaned. A delete between the two
  maps leaves a mono without a context, which nobody can evict once it has failed.
- `ExclusiveWhenCalm`: `hasKey` and `set` are two commands, so two commands can both get
  the git lock. The global exception handler deletes the lock for every git request of the
  application that failed: also one that was refused it, that had not asked for it yet or
  never would, or had released it already. A checkout begins with a release of a lock it
  does not have, and a handler that was refused the lock or the running key cleans up both.
- `CanvasWhole`: a forced evaluation makes the evaluator anew, but its answer is no new tree
  and removes nothing from the canvas. What forces one are edits of libraries; what was
  typed before one comes with it too. That it never comes with an edit of the canvas is
  because the buffer forgets that an evaluation is to be forced.
- `LoadingExplained`: `takeLatest(RUN_ACTION_REQUEST)` cancels the run of any other
  action from the pane, whose `isLoading` stays; a trigger run that the client refuses
  (413) does not reset it either.
- `ResponseIsShown`: a page-load run that is declined or refused empties the response
  in the state and does not tell the worker; a response without an evaluator is dropped;
  one that arrives after a page switch is given to the action of the same name on the
  new page; one between the request to clear the cache and its answer reaches an
  evaluator that an evaluation has made again, while the state is reset.
- `LoadFinishes`: `take(SET_EVALUATED_TREE)` accepts any tree, and the sagas that wait for
  an `UPDATE_ACTION_SUCCESS` accept that of any action and never see an error.
- `ReplaysExactly`: two updates within 100 ms become one item, and undoing it reverts
  the second only. What is edited on a widget that is not there is made up.
- `InSync`: the replay object is not told of auto heights, which nothing evaluates
  (`UPDATE_MULTIPLE_WIDGET_PROPERTIES`), nor of skeletons and of what the layout step makes of
  an undo (`shouldReplay = false`), and records them with the next update, whose undo then
  takes them back too. The buffer loses `shouldReplay`, so that a buffered one is recorded as
  an update of its own.
- `OwnLayout`: `clearCache` does not touch `replayMap`, so an undo asked for while a page is
  fetched brings the old page's widgets, which are saved as the new page's. A buffered
  evaluation in the same window makes the old page's layout the first of the new page.
- `Explained`: the two leftovers of F, each as long as the path is not declared again.
- `OrderComplete`: a bound path below a changed bound one (the result of a function) is not
  evaluated. Code that mentions a path which appears after its entity depends on the
  entity (`addNodes` takes the part that is there), and still does when the path is there.
  If one update deletes the path and then adds another to the entity of the code, the code
  is declared again: `getPrunedReferences` keeps no entity, so it now only waits for the
  deleted path, nothing leads from the deletion to it, and it keeps its old value. The loop
  noted the dependants of the deleted path, but the code depended on the entity.

Seen in the models and stated by no run: a service that is shut down and started
again reuses a terminated Worker; a context constructed from a datasource that was read
before an edit counts as current after it; `INSTALL_LIBRARY_SUCCESS` no longer
forces an evaluation once it is part of a `BUFFERED_ACTION` (which `CanvasWhole` rests on); differences in flight
when `FETCH_PAGE_INIT` empties the canvas patch an empty tree, for good if the fetch
fails; post-eval actions of actions dispatched while the widget configuration is built
are not run; `evalTrigger` drops the `jsUpdates` it computes.

## 5. What is proved

All theorems are about the specifications without bounds on the constants' values and assume
only the named assumptions on them (disjoint or included sets, natural numbers, finitely
many actions, widgets and objects, names that are unique on a page). Safety alone is proved.
Fairness is no premise anywhere except as a conjunct of `EvalQueue`'s `Spec`, where it is
not used.

- **`WorkerService_proofs`**: `TypeCorrect`, `PhasesHold`, `NobodyGivesUp`,
  `ServiceIsGraceful`, `RequestsConserved`. The invariant `PhaseInv` ties flags, controlling
  saga and `_channels` together: `_channels` holds exactly the requests in flight, draining
  means there is a worker that accepts nothing, and without a worker nothing is in flight.
  `NoCallGivesUp` alone is not inductive: that a woken call finds a worker needs the phase.
  The refinement is proved action by action from the same invariant. `RequestsConserved`
  (`Conserved`) rests on `ConservedInv`: each message is at most once on its wire, and where
  the handler of a request is decides which messages can be on the wires (`RequestInv`,
  `NestedInv`). It needs that a blocked call is once among the takers (`TakersInv`), and
  that a question in `listenerChannel` is not being answered yet, also after the worker is
  gone (`ListenerInv`); otherwise a late handler would answer twice.
- **`DatasourceContext_proofs`**: `TypeCorrect`, `MapsNeverDiverge`, `SubscribersShare`.
  `Locked` says a thread in the critical section is the monitor's only one, and one about to
  publish finds no mono and no other context. Deletes, which take no monitor, can only empty
  the maps, and the proof shows that this is harmless for `MapsAgree` (and only for it: see
  `OneConnection` in section 4). `SubscribersShare` (`OneConnection`) has the inductive
  `QuietInv`: while nobody deleted or edited, only the context in the map is active, it has
  a mono unless its creator is about to cache it, what is evicted has failed, and nothing is
  stale. `OneConnection` alone is not inductive: that a thread creates a context only when
  no other is active needs all four. The second half of the property, that no connection is
  orphaned, follows: an active context is the one in the map.
- **`GitAutoCommit_proofs`**: `TypeCorrect`, `LockExcludes`, `RunningNested`,
  `ProgressShown`, for any number of commands and requests, whichever of them fail and
  when: a release by a process that does not have the lock keeps `calm` only if nobody
  counts on the lock. `CalmInv`: while calm, only one
  process has seen the lock absent and not set it yet, holders have it, the running key is
  that of a handler that has the lock, and it has set the progress. Each of the four parts
  is needed for the others.
- **`FeatureFlags_proofs`**: `TypeCorrect`, `NoNeedlessFallback` (through `FlagsEverywhere`:
  also what is about to be put has flags), `TenantKeepsFlags` (through `RefreshInv`, which
  follows an undisturbed refresh to its end).
- **`EvalQueue_proofs`**: `TypeCorrect`; `CanvasIsWhole` (replies form a chain from the
  canvas to the worker's tree, each with the one before it as its base; a cleared cache
  starts a new chain; and by `StaleInv` a forced request brings nothing the saga received
  that the tree before it does not have, because only an action that is taken at once
  forces one, when everything before it has been taken); `PostEvalWaits` (post-eval actions travel with a tree that has their
  change, plus the chain); `JSObjectsParsed`. The last rests on `NamingInv`: between any two
  trees on their way to the worker some request in between names every body that differs,
  and between them and the redux state the buffer does. It is for JS objects that are not
  typed in the editor: for those that are it is false (finding 2). `PostEvalsConserved`
  (`PostEvalConserved`): a post-eval action that was taken is in exactly one of the first
  action, the buffer, a request, an answer and the dispatched ones, and none that was not
  taken is in any (`PlacesInv`). `QuietShowsAll` (`QuietIsCurrent`) puts these together with
  three more: tree numbers grow along the queues (`TreesGrow`); all clearings of the cache
  under way but one belong to earlier fetches, and none is when a page is there
  (`ClearsInv`); and once the listener runs there is an evaluator, or an evaluation that
  makes one is on its way or in the buffer (`HasEvaluator`).
- **`DependencyMap_proofs`**: `TypeCorrect` and `MapsAreInverse` (`InversesAgree`), for any
  paths, code and number of trees. The invariant is `TypeOK /\ Sound(map)`: both kinds of
  dependencies agree with their inverses, valid ones are between nodes, and an invalid one
  is never on a node. The last part is what `addNodes` and `removeNodes` need of each other:
  a node that appears must find everything that was waiting for it, so one that goes must
  leave everything that pointed to it among the invalid ones. There is one lemma per method
  of the class (`AddNodes`, `RemoveNodes`, `AddDependency`, `MakeParents`), one for the
  first tree and one for a round of the loop of differences.

  On top of it: `DependenciesAreExplained` (`Explained`) and `CodeIsConnected`
  (`Connected`). Both properties speak of an idle worker, so the invariants say what holds
  between two differences. `NodesInv`: the nodes are the paths of the new tree less those
  still to be added, with those still to be removed; differences of one kind are disjoint
  whole subtrees. `FoundedInv`: a dependency has one of the reasons of `Explained`, or an
  EDIT or DELETE that is still to come concerns the path that has it; what an inverse map
  has beyond its map was abandoned. `RemembersInv`: what the code of a path mentions, or a
  part of it, is a dependency of the path, valid or waiting, unless an EDIT of the path is
  still to come; when the nodes are those of the tree, a waiting part of a path that exists
  cannot be. Each method of the class has a lemma for each of the two; they rest on lemmas
  about paths (`ParentFacts`, `WithinLinear`, `ClosedAbove`, `RootsFacts`).
  `CodeIsConnected` has a premise, `NestedCode`: a bound path below another has no code (it
  is the result of a function). The instance of the run fulfils it; without it `New` would
  declare only the upper path.

  `SkippedIsUnconcerned` (`OrderComplete`), with the same premise, compares the tree with
  that of the evaluation before (`last`). `SinceInv`: what came and went is within a change.
  `KeptInv`: code that is neither changed nor declared again still depends on what it
  mentioned then; who used a deleted path is in `dependants`, so nobody else loses a
  dependency.
  `WaitsInv`: no path waits for one above which something was added that it could have. The
  rest is about `Sort`: the order is the least set that has the roots and is closed under
  dependants and parents (`OrderIsClosed`), and leaving out of the roots whoever depends on
  another change loses nothing, as long as there is no cycle (`TrimmedIsInOrder`): the paths
  that are lost would each depend on another of them.
- **`ActionExecution_proofs`**: `TypeCorrect`, `LoadingIsExplained` (`LoadingExplained`),
  `ShownIsInTree` (`ResponseIsShown`), `RequestsAreCurrent` (`SentWithResponses`). `TypeOK`
  needs that there are finitely many runs and messages, so that there is always another
  number. `LoadingExplained` is not inductive, since a page load that waits for a tree
  explains no loading action; the invariant is that a loading action has a run that is past
  that wait, or was left behind by one of the two ways the property names. The other two
  speak of the moment when a message is handled; `Leaves` says what the worker will have for
  a name after the first messages of its queue. `Agrees`: after all of them it has what the
  state has, for the actions whose response was told, or nothing if its cache is to be
  cleared. `Shows`: before a request for parameters is handled, it has what was shown when
  the run sent it. A worker without an evaluator has no data (`FreshWorker`), and the sets
  that are left of a load are left only while one is under way (`Staged`, `Idle`). Names are
  unique on a page, or the answers of two actions would overwrite each other; the server
  refuses a second one.
- **`Replay_proofs`**: `TypeCorrect`, `ReplaysAreExact` (`ReplaysExactly`), `WorkerInSync`
  (`InSync`), `PagesKeepTheirLayout` (`OwnLayout`), for any widgets, pages and objects and
  any number of edits, undos and redos. `Good(canvas)` is about the replay object. `Owned`:
  an object belongs to one widget, which has it now or in a difference, so that changing a
  widget in place never changes another. `Chained`: what the cell had after one item it had
  before the next, across both stacks, so the differences an undo takes from the cell are
  those of the item on top. The rest says that the differences of an item lead from the
  widgets before it to those after it and back (`Leads`, `Reverts`), provided it is of one
  update and what it brings back has not been changed meanwhile: what `torn` records. Undo
  and redo are exact only because of all of them. `InSync` and `OwnLayout` are about rest,
  and need what is true while messages are under way: one evaluation (`OneEval`) and one
  clearing of the cache (`OneClear`) at a time; `Tracked`: the worker has what the layout
  will be once all answers are received, but for the unseen widgets, or is about to be told, by
  the evaluation under way or by the one that an answer overtaking it will leave in the buffer
  (`Overtaken`); `Paged`: every message is
  about the page, and a replay object that is not is replaced by an evaluation that comes
  before every undo.

Model-checked only: all liveness (`ServedWhileAlive`, `DrainEndsOrBlocked`, `QueriesEnd`,
`EverythingEnds`, `FlagsConverge`, `PostEvalRuns`, `LoadFinishes`), which is beyond the
prover. All other properties of the passing runs are theorems.

## 6. Not modelled, and what could follow

Runs are kept to a dozen, so that checking everything takes minutes. What is left of
the parts of section 1:

- H, trigger batching: a flush that throws leaves its batch behind and no new microtask
  is queued for it. It is one object of one thread, and its one hazard is in the list.
- J, tenant configuration: read, merge, write without a version; in the list as well.
- K, snapshots: several documents written one after the other, without a transaction
  in the service; worth a model of its own.
- R, presence: the room a socket waits for is one field, overwritten by each event
  before the authentication ends.
- M and L: pure and sequential, or covered by the lock of D. Some git operations work in
  the repository without the lock (connecting, importing, the rest of the checkout of a
  remote branch); they are no processes of `GitAutoCommit`, whose exclusion is that of
  those that ask for it.
- N to Q: visual, sequential, third-party, or about security.

Inside the modelled parts: of A nothing that changes state; of B `evalTreeWithChanges`, the
restart of the listener and the published mode; of C the plugins; of D what git does
on disk; of F parsing, validation paths and the map for linting; of G property panes and
the action and JS editors, which use the same replay class on one object; of I JS functions on
page load and uploads. B, G and I are not composed into one state machine: each has the
others' part it depends on as a few nondeterministic actions, and their product is
beyond TLC.

Next theorems: a refinement of the loop of `EvalQueue` by that of `Replay`; that what
`Replay` and `ActionExecution` assume of the evaluation loop is what `EvalQueue` proves.
