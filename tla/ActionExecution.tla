---------------------------- MODULE ActionExecution ----------------------------
(***************************************************************************)
(* How the client runs the queries and APIs of a page                      *)
(* (sagas/ActionExecution/PluginActionSaga.ts): runs from the editor, from *)
(* event handlers and on page load, what the redux state keeps of them     *)
(* (actionsReducer), and how their data reach the worker's tree            *)
(* (handlers/updateActionData.ts), from which it pushes them to the canvas *)
(* (see EvalQueue for the tree there).                                     *)
(*                                                                         *)
(* The state knows an action by its id, the worker by its name.  Responses *)
(* are numbers, 0 is undefined; a number that nothing holds for a name any *)
(* more is used again.  Sagas run to their next blocking effect, so one    *)
(* action is the code between two of them; messages arrive in order.       *)
(***************************************************************************)
EXTENDS Naturals, Sequences, FiniteSets, SequencesExt

CONSTANTS
    Actions,     \* the actions of the application, by id
    Names,       \* their names
    Name,        \* Name[a]: unique on its page only
    Pages,       \* the pages
    PageOf,      \* PageOf[a]
    OnLoad,      \* OnLoad[p]: sets of actions to run on page load, in order
    Reads,       \* Reads[a]: names whose data the bindings of a mention
    Confirms,    \* the actions with confirmBeforeExecute
    MaxAsked     \* bound: number of things a user does

ASSUME ActionAssumption ==
    /\ IsFiniteSet(Actions)
    /\ Name \in [Actions -> Names] /\ PageOf \in [Actions -> Pages]
    /\ \A a, b \in Actions : Name[a] = Name[b] /\ PageOf[a] = PageOf[b] => a = b
    /\ OnLoad \in [Pages -> Seq((SUBSET Actions) \ {{}})]
    /\ Reads \in [Actions -> SUBSET Names] /\ Confirms \subseteq Actions
    /\ MaxAsked \in Nat

VARIABLES
    page,       \* the current page
    fetch,      \* page fetches that wait for the worker's cache to be cleared
    asked,      \* number of things the user did: runs, clears, pages, refreshes
    due,        \* FETCH_ALL_PAGE_ENTITY_COMPLETION waits for its evaluation
    client,     \* the redux state of the actions and the sagas of their runs
    worker,     \* the evaluator, the data in its tree and store
    toMain      \* messages the worker posted

vars == <<page, fetch, asked, due, client, worker, toMain>>

Nothing == [n \in Names |-> 0]
Data == [Names -> Nat]
Responses == [Actions -> Nat]

Run == {r \in [n : Nat, action : Actions, kind : {"pane", "trigger", "load"},
                at : {"saving", "confirm", "params", "http", "tree"}] :
           (r.at = "saving" => r.kind = "pane") /\ (r.at = "tree" => r.kind = "load")}

\* "shown" is a history: what the state had for the names that the bindings
\* mention when the request was made.
Requests ==
    [kind : {"update"}, name : Names, data : Nat]
        \cup [kind : {"params"}, run : Run, shown : SUBSET (Names \X Nat)]
        \cup [kind : {"eval"}, load : BOOLEAN]
        \cup [kind : {"clear"}]
Replies ==
    [kind : {"tree"}, load : BOOLEAN] \cup [kind : {"push"}] \cup [kind : {"values"}, run : Run]
        \cup [kind : {"cleared"}]

\* isLoading and data of the state; the runs in progress and the sets that are
\* left of the page load.  Histories: "dropped" are the actions with isLoading
\* whose run ended without resetting it, "apart" those whose response the worker
\* was not told as the state has it: given up on page load, answered while a
\* page was fetched or by an action of the same name on another page, or told
\* when there was no evaluator.
Client ==
    [loading : SUBSET Actions, data : Responses, runs : SUBSET Run,
     rest : Seq(SUBSET Actions), toWorker : Seq(Requests),
     dropped : SUBSET Actions, apart : SUBSET Actions]

TypeOK ==
    /\ page \in Pages /\ fetch \subseteq [page : Pages, refresh : BOOLEAN]
    /\ asked \in 0..MaxAsked /\ due \in BOOLEAN
    /\ client \in Client
    /\ worker \in [exists : BOOLEAN, data : Data]
    /\ toMain \in Seq(Replies)

\* The entities of the first page have arrived.
Init ==
    /\ page \in Pages
    /\ fetch = {} /\ asked = 0 /\ due = TRUE
    /\ client = [loading |-> {}, data |-> [a \in Actions |-> 0], runs |-> {},
                 rest |-> <<>>, toWorker |-> <<>>,
                 dropped |-> {}, apart |-> {}]
    /\ worker = [exists |-> FALSE, data |-> Nothing]
    /\ toMain = <<>>

-----------------------------------------------------------------------------
(* The sagas of the runs: each operator is what one of them does to the     *)
(* state of the client.                                                     *)

Values(f) == {f[x] : x \in DOMAIN f}
Least(used) == CHOOSE n \in 1..Cardinality(used) + 1 : n \notin used
Messages(s, kinds) ==
    {m \in Values(s.toWorker) \cup Values(toMain) : m.kind \in kinds}

\* A number for a response of a name, and one for a run.
Response(s, n) ==
    Least({s.data[a] : a \in {b \in Actions : Name[b] = n}} \cup {worker.data[n]}
          \cup {m.data : m \in {u \in Messages(s, {"update"}) : u.name = n}}
          \cup UNION {{e[2] : e \in m.shown} : m \in Messages(s, {"params"})})
Serial(s) ==
    Least({r.n : r \in s.runs} \cup {m.run.n : m \in Messages(s, {"params", "values"})})

Post(s, ms) == [s EXCEPT !.toWorker = @ \o ms]
OfLoad(s) == {r \in s.runs : r.kind = "load"}

\* The worker was told the response that the editor shows.
Told(s, a) == PageOf[a] = page /\ a \notin s.apart
Mentioned(s, a) ==
    {<<Name[b], s.data[b]>> :
        b \in {b \in Actions : fetch = {} /\ Name[b] \in Reads[a] /\ Told(s, b)}}

\* executePluginActionSaga from the confirmation on, of several actions:
\* EXECUTE_PLUGIN_ACTION_REQUEST, and the bindings are sent to the worker; an
\* action without bindings is sent to the server at once.
Execute(s, rs) ==
    LET begun == {[r EXCEPT !.at = IF Reads[r.action] = {} THEN "http" ELSE "params"] : r \in rs}
        ask == {[kind |-> "params", run |-> r, shown |-> Mentioned(s, r.action)] : r \in {q \in begun : q.at = "params"}}
    IN  Post([s EXCEPT !.runs = (@ \ rs) \cup begun,
                       !.loading = @ \cup {r.action : r \in rs}], SetToSeq(ask))

\* New runs of several actions, up to the confirmation.
Start(s, as, kind) ==
    LET rs == {[n |-> Serial(s), action |-> a, kind |-> kind, at |-> "confirm"] : a \in as}
    IN  Execute([s EXCEPT !.runs = @ \cup rs], {r \in rs : r.action \notin Confirms})

\* A saga is cancelled where it waits.
Cancel(s, rs) ==
    [s EXCEPT !.runs = @ \ rs, !.dropped = @ \cup {r.action : r \in rs}]

\* executePageLoadActionsSaga: the next set when all of the last one ended.
Advance(s) ==
    IF OfLoad(s) = {} /\ s.rest # <<>>
    THEN Start([s EXCEPT !.rest = Tail(@)], Head(s.rest), "load")
    ELSE s

\* EXECUTE_PAGE_LOAD_ACTIONS: takeLatest cancels the load before.
StartLoad(s, sets) ==
    [Cancel(s, OfLoad(s)) EXCEPT !.rest = sets]

Over(s, r) == [s EXCEPT !.runs = @ \ {r}]

ResetLoading(s, a) ==
    [s EXCEPT !.loading = @ \ {a}]

\* A run that the server never answered: RUN_ACTION_ERROR for the editor,
\* EXECUTE_PLUGIN_ACTION_ERROR with EMPTY_RESPONSE on page load.
GiveUp(s, r) ==
    LET a == r.action
    IN  CASE r.kind = "pane" -> Over(ResetLoading(s, a), r)
          [] r.kind = "load" ->
                Over([ResetLoading(s, a) EXCEPT !.data[a] = 0, !.apart = @ \cup {a}], r)
          [] r.kind = "trigger" -> Over(s, r)

-----------------------------------------------------------------------------
(* Runs                                                                     *)

\* The state after the sagas went on, with "dropped" cut to what it still says.
Settles(s) ==
    \E t \in {s} : \E u \in {Advance(t)} :
        client' = [u EXCEPT !.dropped = @ \cap u.loading]
Becomes(s) ==
    /\ Settles(s)
    /\ UNCHANGED <<page, fetch, due, worker, toMain>>
Asks == asked < MaxAsked /\ asked' = asked + 1

\* RUN_ACTION_REQUEST: takeLatest cancels the run before, of whatever action.
\* A run that finds unsaved changes has them saved first.
RunFromPane(a, unsaved) ==
    /\ Asks /\ PageOf[a] = page
    /\ LET s == [Cancel(client, {r \in client.runs : r.kind = "pane"}) EXCEPT
                    !.loading = @ \cup {a}]
       IN  Becomes(IF unsaved
                   THEN [s EXCEPT !.runs = @ \cup {[n |-> Serial(s), action |-> a,
                                                    kind |-> "pane", at |-> "saving"]}]
                   ELSE Start(s, {a}, "pane"))

\* UPDATE_ACTION_SUCCESS, of whatever action.
Saved ==
    /\ \E r \in client.runs : r.at = "saving"
    /\ UNCHANGED asked
    /\ LET rs == {r \in client.runs : r.at = "saving"}
           on == {[r EXCEPT !.at = "confirm"] : r \in rs}
       IN  Becomes(Execute([client EXCEPT !.runs = (@ \ rs) \cup on],
                           {r \in on : r.action \notin Confirms}))

\* run() in an event handler.
RunFromTrigger(a) ==
    /\ Asks /\ PageOf[a] = page
    /\ Becomes(Start(client, {a}, "trigger"))

\* The answers to the confirmation.
Confirm(r) ==
    /\ r.at = "confirm"
    /\ UNCHANGED asked
    /\ Becomes(Execute(client, {r}))

Decline(r) ==
    /\ r.at = "confirm"
    /\ UNCHANGED asked
    /\ Becomes(GiveUp(ResetLoading(client, r.action), r))

\* The response of a run in the state.
Answered(s, a, n) ==
    LET named == {b \in Actions : Name[b] = Name[a]}
    IN  [s EXCEPT !.data[a] = n,
                  !.apart = IF fetch = {} /\ PageOf[a] = page THEN @ \ {a} ELSE @ \cup named]
Update(a, n) == <<[kind |-> "update", name |-> Name[a], data |-> n]>>

\* Mutant: the next set is started before the data are sent to the worker.
AnswerLate(r, good) ==
    /\ r.at = "http"
    /\ UNCHANGED asked
    /\ LET a == r.action
           n == Response(client, Name[a])
           s == Answered(ResetLoading([client EXCEPT !.runs = @ \ {r}], a), a, n)
       IN  Becomes(Post(Advance(Over(s, r)), Update(a, n)))

\* Mutant: isLoading is reset for successful runs alone.
AnswerBusy(r, good) ==
    /\ r.at = "http"
    /\ UNCHANGED asked
    /\ LET a == r.action
           n == Response(client, Name[a])
           s == Answered(IF good THEN ResetLoading(client, a) ELSE client, a, n)
       IN  Becomes(Over(Post(s, Update(a, n)), r))

\* Mutant: every run waits for the tree.
AnswerWaits(r, good) ==
    /\ r.at = "http"
    /\ UNCHANGED asked
    /\ LET a == r.action
           n == Response(client, Name[a])
           s == Answered(ResetLoading([client EXCEPT !.runs = @ \ {r}], a), a, n)
       IN  Becomes([Post(s, Update(a, n)) EXCEPT !.runs = @ \cup {[r EXCEPT !.at = "tree"]}])

\* The server answers, or the request fails: both are responses.  On page
\* load the saga of a successful run waits for the next tree.
Answer(r, good) ==
    /\ r.at = "http"
    /\ UNCHANGED asked
    /\ LET a == r.action
           n == Response(client, Name[a])
           s == Answered(ResetLoading([client EXCEPT !.runs = @ \ {r}], a), a, n)
           t == Post(s, Update(a, n))
       IN  Becomes(IF r.kind = "load" /\ good
                   THEN [t EXCEPT !.runs = @ \cup {[r EXCEPT !.at = "tree"]}]
                   ELSE Over(t, r))

\* The request is refused before it is answered (clientDefinedError: it is
\* too large), or its parameters could not be made.
Refused(r) ==
    /\ r.at = "http"
    /\ UNCHANGED asked
    /\ LET s == IF r.kind = "trigger"
                THEN [client EXCEPT !.dropped = @ \cup {r.action}] ELSE client
       IN  Becomes(GiveUp(s, r))

\* CLEAR_ACTION_RESPONSE of several actions, each with its UPDATE_ACTION_DATA.
Cleaned(s, as) ==
    Post([s EXCEPT !.data = [a \in Actions |-> IF a \in as THEN 0 ELSE @[a]],
                   !.apart = @ \ as],
         SetToSeq({[kind |-> "update", name |-> Name[a], data |-> 0] : a \in as}))

\* clear() in an event handler.
ClearResponse(a) ==
    /\ Asks /\ PageOf[a] = page
    /\ Becomes(Cleaned(client, {a}))

-----------------------------------------------------------------------------
(* Pages                                                                    *)

OnPageLoad(p) == UNION {OnLoad[p][i] : i \in DOMAIN OnLoad[p]}

\* A page is there and its saga has the worker's cache cleared.
FetchPage(p, refresh) ==
    /\ Asks /\ fetch = {}
    /\ refresh => p = page
    /\ fetch' = {[page |-> p, refresh |-> refresh]}
    /\ Settles(Post(client, <<[kind |-> "clear"]>>))
    /\ UNCHANGED <<page, due, worker, toMain>>

\* The page of a refresh cannot be fetched: softRefreshActionsSaga goes on.
RefreshFails ==
    /\ Asks /\ fetch = {}
    /\ LET as == {a \in Actions \ OnPageLoad(page) :
                    PageOf[a] = page /\ client.data[a] # 0}
       IN  Settles(StartLoad(Cleaned(client, as), OnLoad[page]))
    /\ UNCHANGED <<page, fetch, due, worker, toMain>>

\* An evaluation is requested, for an edit or for a new page, which ends with
\* its page load; evaluations are one at a time.
Evaluate ==
    /\ \/ due /\ UNCHANGED asked
       \/ Asks
    /\ \A i \in DOMAIN client.toWorker : client.toWorker[i].kind # "eval"
    /\ \A i \in DOMAIN toMain : toMain[i].kind # "tree"
    /\ client' = Post(client, <<[kind |-> "eval", load |-> due]>>)
    /\ due' = FALSE
    /\ UNCHANGED <<page, fetch, worker, toMain>>

-----------------------------------------------------------------------------
(* The worker                                                               *)

Request == Head(client.toWorker)
Taken == [client EXCEPT !.toWorker = Tail(@)]
Take(kind) ==
    /\ client.toWorker # <<>> /\ Request.kind = kind
    /\ UNCHANGED <<page, fetch, asked, due>>

\* Mutant: the main thread is not told.
UpdateSilently ==
    /\ Take("update")
    /\ client' = Taken
    /\ IF worker.exists
       THEN worker' = [worker EXCEPT !.data[Request.name] = Request.data]
       ELSE UNCHANGED worker
    /\ UNCHANGED toMain

\* The histories without a response that met no evaluator.
Without(m, e) ==
    IF m.kind = "params" THEN [m EXCEPT !.shown = @ \ {e}] ELSE m
Lost(s, name, data) ==
    [s EXCEPT !.apart = @ \cup {a \in Actions : Name[a] = name /\ s.data[a] = data},
              !.toWorker = [i \in DOMAIN s.toWorker |-> Without(s.toWorker[i], <<name, data>>)]]

\* handleActionsDataUpdate: the tree, the data store, the dependants, and the
\* differences are pushed; nothing of it without an evaluator.
UpdateActionData ==
    /\ Take("update")
    /\ IF worker.exists
       THEN /\ worker' = [worker EXCEPT !.data[Request.name] = Request.data]
            /\ toMain' = Append(toMain, [kind |-> "push"])
            /\ client' = Taken
       ELSE /\ client' = Lost(Taken, Request.name, Request.data)
            /\ UNCHANGED <<worker, toMain>>

EvalActionBindings ==
    /\ Take("params")
    /\ client' = Taken
    /\ toMain' = Append(toMain, [kind |-> "values", run |-> Request.run])
    /\ UNCHANGED worker

EvalTree ==
    /\ Take("eval")
    /\ client' = Taken
    /\ worker' = [worker EXCEPT !.exists = TRUE]
    /\ toMain' = Append(toMain, [kind |-> "tree", load |-> Request.load])

\* Mutant: the store keeps its data for the next evaluator.
KeepStore ==
    /\ Take("clear")
    /\ client' = Taken
    /\ worker' = [worker EXCEPT !.exists = FALSE]
    /\ toMain' = Append(toMain, [kind |-> "cleared"])

ClearCache ==
    /\ Take("clear")
    /\ client' = Taken
    /\ worker' = [exists |-> FALSE, data |-> Nothing]
    /\ toMain' = Append(toMain, [kind |-> "cleared"])

Worker == UpdateActionData \/ EvalActionBindings \/ EvalTree \/ ClearCache

-----------------------------------------------------------------------------
(* The answers of the worker                                                *)

Receive(kinds) ==
    /\ toMain # <<>> /\ Head(toMain).kind \in kinds
    /\ toMain' = Tail(toMain)
    /\ UNCHANGED <<asked, worker>>

\* SET_EVALUATED_TREE, for which successful runs of the page load wait, and
\* then the page load the evaluation came with.
ReceiveTree ==
    /\ Receive({"tree", "push"})
    /\ LET waiting == {r \in client.runs : r.at = "tree"}
           s == Advance([client EXCEPT !.runs = @ \ waiting])
       IN  Settles(IF Head(toMain).kind = "tree" /\ Head(toMain).load THEN StartLoad(s, OnLoad[page]) ELSE s)
    /\ UNCHANGED <<page, fetch, due>>

\* The parameters are there and the request is sent.
ReceiveValues ==
    /\ Receive({"values"})
    /\ LET r == Head(toMain).run
       IN  client' = IF r \in client.runs
                     THEN [client EXCEPT !.runs = (@ \ {r}) \cup {[r EXCEPT !.at = "http"]}]
                     ELSE client
    /\ UNCHANGED <<page, fetch, due>>

\* The rest of handleFetchedPage, SWITCH_CURRENT_PAGE_ID included, and of a
\* soft refresh.
ReceiveCleared ==
    /\ Receive({"cleared"})
    /\ fetch' = {} /\ due' = TRUE
    /\ \E f \in fetch :
          /\ page' = f.page
          /\ LET s == [client EXCEPT !.data = [a \in Actions |-> 0]]
             IN  Settles(IF f.refresh THEN StartLoad(s, OnLoad[f.page]) ELSE s)

Main == ReceiveTree \/ ReceiveValues \/ ReceiveCleared

Next ==
    \/ \E a \in Actions : \/ \E unsaved \in BOOLEAN : RunFromPane(a, unsaved)
                          \/ RunFromTrigger(a)
                          \/ ClearResponse(a)
    \/ \E r \in client.runs : \/ Confirm(r) \/ Decline(r) \/ Refused(r)
                              \/ \E good \in BOOLEAN : Answer(r, good)
    \/ \E p \in Pages, refresh \in BOOLEAN : FetchPage(p, refresh)
    \/ RefreshFails \/ Evaluate \/ Saved
    \/ Worker \/ Main

\* The worker and the main thread run, a page that arrived is evaluated, and
\* requests are answered, refused or time out.  Users need not answer a
\* confirmation, and a save need not succeed.
Fairness ==
    /\ WF_vars(Worker) /\ WF_vars(Main)
    /\ WF_vars(Evaluate /\ due)
    /\ WF_vars(\E r \in OfLoad(client) : Answer(r, FALSE) \/ Answer(r, TRUE))

Spec == Init /\ [][Next]_vars /\ Fairness

-----------------------------------------------------------------------------
(* Properties                                                               *)

\* When the worker has been told everything, its tree has for an action of the
\* page what the editor shows as its response, through page switches with runs
\* in flight.
ResponseIsShown ==
    client.toWorker = <<>> /\ fetch = {} =>
        \A a \in Actions : Told(client, a) => worker.data[Name[a]] = client.data[a]

\* isLoading without a run of the action means that takeLatest cancelled one,
\* or that a trigger's request was refused.  A saga that waits for a save which
\* has failed (UPDATE_ACTION_SUCCESS) or for an answer of the user is a run.
LoadingExplained ==
    client.loading \subseteq {r.action : r \in client.runs} \cup client.dropped

\* A request is sent with the responses the editor showed when its parameters
\* were asked for: those of the sets before it on page load, and of runs that
\* were awaited, are among them.
SentWithResponses ==
    [][EvalActionBindings /\ worker.exists /\ Request.run \in client.runs =>
          \A e \in Request.shown : worker.data[e[1]] = e[2]]_vars

\* A page load goes on to its end, unless a confirmation is not answered.
LoadFinishes ==
    OfLoad(client) # {} ~> \/ OfLoad(client) = {}
                           \/ \E r \in OfLoad(client) : r.at = "confirm"
=============================================================================
