-------------------------------- MODULE Replay --------------------------------
(***************************************************************************)
(* Undo and redo of the canvas: the worker keeps the widgets of the page   *)
(* as it saw them last, the differences of each update in one cell of a    *)
(* Yjs map, and the undo manager of that map (entities/Replay/index.ts);   *)
(* the main thread applies what an undo or redo answers to its layout      *)
(* (sagas/ReplaySaga.ts), while edits, evaluations and page switches go    *)
(* on.                                                                     *)
(*                                                                         *)
(* A widget is one value or absent.  The worker's widgets are objects on a *)
(* heap, because differences hold the objects that were added or deleted:  *)
(* a later undo or redo changes them in place.                             *)
(***************************************************************************)
EXTENDS Naturals, Sequences, FiniteSets, SequencesExt

CONSTANTS
    Widgets,   \* the widgets of all pages
    Values,    \* the values of a widget's property
    None,      \* the value of an absent widget
    Pages,     \* the pages
    PageOf,    \* PageOf[w]
    Objects,   \* bound: the objects the worker holds at a time
    MaxEdits,  \* bound: number of edits, page switches and layout steps that change
               \* what an undo or redo answered
    MaxItems,  \* bound: items of the stacks when an undo or redo is asked for
    MaxFlight  \* bound: undos and redos in flight

ASSUME ReplayAssumption ==
    /\ IsFiniteSet(Objects) /\ 0 \notin Objects
    /\ IsFiniteSet(Widgets) /\ Cardinality(Widgets) <= Cardinality(Objects)
    /\ Values # {} /\ None \notin Values
    /\ PageOf \in [Widgets -> Pages]
    /\ MaxEdits \in Nat /\ MaxItems \in Nat /\ MaxFlight \in Nat

VARIABLES
    page,      \* the current page
    fetching,  \* pages whose saga waits for the worker's cache to be cleared
    layout,    \* the canvas widgets of the state
    edits,     \* what MaxEdits bounds
    evals,     \* the loop of evaluations: one in flight, actions buffered
    toWorker,  \* requests
    toMain,    \* answers
    exists,    \* the worker has an evaluator
    canvas,    \* its replay object for the canvas
    unseen,    \* history: widgets changed without the replay object being told,
               \* by auto height and layout updates, since it was told of any
    switch     \* history of the page switches: "running" until the evaluation
               \* of the new page is requested, "strayed" for good if an undo
               \* or redo, or another evaluation, is requested before

vars == <<page, fetching, layout, edits, evals, toWorker, toMain, exists, canvas, unseen, switch>>

Layouts == [Widgets -> Values \cup {None}]
LayoutsOf(p) == {l \in Layouts : \A w \in Widgets : PageOf[w] # p => l[w] = None}

\* Objects of the worker, 0 for an absent widget.
NoObject == 0
Entities == [Widgets -> Objects \cup {NoObject}]
Heaps == [Objects -> Values]

\* The kinds of deep-diff: N and D hold the object, E both values.
Diffs ==
    [kind : {"N", "D"}, widget : Widgets, object : Objects]
        \cup [kind : {"E"}, widget : Widgets, from : Values, to : Values]

\* An item of the stacks is what the cell had before and after; "merged" if it
\* took a second update, and the history "other": the widgets that taking it
\* from its stack should lead to.
Item == [before : SUBSET Diffs, after : SUBSET Diffs, merged : BOOLEAN, other : Layouts]

\* "recent" is the undo manager's lastChange # 0; "torn" the history that an item
\* of two updates has been undone, of which only the second is reverted, or that
\* a widget came back whose object had been changed.
Canvas == [entity : Entities, heap : Heaps, cell : SUBSET Diffs,
           undo : Seq(Item), redo : Seq(Item), recent : BOOLEAN, torn : SUBSET {"merged", "changed"}]

Requests ==
    [kind : {"eval"}, widgets : Layouts, replay : BOOLEAN]
        \cup [kind : {"UNDO", "REDO", "clear"}]
Replies ==
    [kind : {"tree", "cleared", "nothing"}] \cup [kind : {"replayed"}, widgets : Layouts]

TypeOK ==
    /\ page \in Pages /\ fetching \subseteq Pages /\ layout \in Layouts
    /\ edits \in 0..MaxEdits
    /\ evals \in {"idle", "running", "buffered"}
    /\ toWorker \in Seq(Requests) /\ toMain \in Seq(Replies)
    /\ exists \in BOOLEAN /\ canvas \in Canvas
    /\ unseen \subseteq Widgets /\ switch \in {"done", "running", "strayed"}

-----------------------------------------------------------------------------
(* The replay object                                                        *)

Shown(c) == [w \in Widgets |-> IF c.entity[w] = NoObject THEN None ELSE c.heap[c.entity[w]]]

ObjectsIn(diffs) == {d.object : d \in {e \in diffs : e.kind # "E"}}
Held(c) ==
    (UNION {ObjectsIn(c.undo[i].before \cup c.undo[i].after) : i \in DOMAIN c.undo})
        \cup (UNION {ObjectsIn(c.redo[i].before \cup c.redo[i].after) : i \in DOMAIN c.redo})
        \cup ObjectsIn(c.cell)
Live(c) == Held(c) \cup {c.entity[w] : w \in Widgets}

\* What nothing holds any more is as good as new.
Collected(c) ==
    [c EXCEPT !.heap = [o \in Objects |-> IF o \in Live(c) THEN @[o] ELSE CHOOSE v \in Values : TRUE]]

\* Objects for new widgets, and the bound: there are enough that nothing holds.
Fresh(used) == CHOOSE f \in [Widgets -> Objects \ used] : IsInjective(f)
Room(c) == Cardinality(Widgets) <= Cardinality(Objects \ Live(c))

\* Widgets as they arrive in a message: objects of their own.
Cloned(widgets, used) ==
    [w \in Widgets |-> IF widgets[w] = None THEN NoObject ELSE Fresh(used)[w]]

Filled(heap, entity, widgets) ==
    [o \in Objects |-> IF \E w \in Widgets : entity[w] = o
                       THEN widgets[CHOOSE w \in Widgets : entity[w] = o] ELSE heap[o]]

\* new ReplayCanvas
NewCanvas(widgets) ==
    LET e == Cloned(widgets, {})
        any == [o \in Objects |-> CHOOSE v \in Values : TRUE]
    IN  [entity |-> e, heap |-> Filled(any, e, widgets), cell |-> {},
         undo |-> <<>>, redo |-> <<>>, recent |-> FALSE, torn |-> {}]

\* Mutant: a deleted widget is there but undefined, which is an edit.
DiffUndefined(c, entity, widgets) ==
    LET old == Shown(c)
    IN  {[kind |-> "N", widget |-> w, object |-> entity[w]] :
            w \in {w \in Widgets : old[w] = None /\ widgets[w] # None}}
        \cup {[kind |-> "E", widget |-> w, from |-> old[w], to |-> widgets[w]] :
            w \in {w \in Widgets : old[w] # widgets[w] /\ old[w] # None}}

\* deepDiff
Diff(c, entity, widgets) ==
    LET old == Shown(c)
    IN  {[kind |-> "N", widget |-> w, object |-> entity[w]] :
            w \in {w \in Widgets : old[w] = None /\ widgets[w] # None}}
        \cup {[kind |-> "D", widget |-> w, object |-> c.entity[w]] :
            w \in {w \in Widgets : old[w] # None /\ widgets[w] = None}}
        \cup {[kind |-> "E", widget |-> w, from |-> old[w], to |-> widgets[w]] :
            w \in {w \in Widgets : old[w] # widgets[w] /\ None \notin {old[w], widgets[w]}}}

\* UndoManager: what is put into the cell within 100 ms of the last change
\* becomes part of the item on top.
Put(c, diffs, quick) ==
    LET top == Last(c.undo)
        item == IF quick THEN [top EXCEPT !.after = diffs, !.merged = TRUE]
                ELSE [before |-> c.cell, after |-> diffs, merged |-> FALSE, other |-> Shown(c)]
    IN  [c EXCEPT !.cell = diffs, !.recent = TRUE, !.redo = <<>>,
                  !.undo = Append(IF quick THEN Front(@) ELSE @, item)]
CanMerge(c) == c.recent /\ c.undo # <<>>

\* Mutant: the entity is not replaced by the widgets it was compared with.
UpdateCellOnly(c, widgets, quick) ==
    IF Shown(c) = widgets THEN c
    ELSE LET e == Cloned(widgets, Live(c))
         IN  Collected([Put(c, Diff(c, e, widgets), quick) EXCEPT !.heap = Filled(@, e, widgets)])

\* update
Update(c, widgets, quick) ==
    IF Shown(c) = widgets THEN c
    ELSE LET e == Cloned(widgets, Live(c))
         IN  Collected([Put(c, Diff(c, e, widgets), quick) EXCEPT
                           !.entity = e, !.heap = Filled(@, e, widgets)])

\* applyChange and revertChange: the object of the widget afterwards; of a
\* widget that is not there an edit makes one.
Change(c, d, back) ==
    LET o == c.entity[d.widget]
    IN  IF d.kind = "E" THEN (IF o = NoObject THEN Fresh(Live(c))[d.widget] ELSE o)
        ELSE IF (d.kind = "D") = back THEN d.object ELSE NoObject

\* The differences are about different widgets, so their order is no matter.
ApplyDiffs(c, diffs, back) ==
    LET Of(w) == {d \in diffs : d.widget = w}
        In(o) == {d \in diffs : d.kind = "E" /\ Change(c, d, back) = o}
        The(ds) == CHOOSE d \in ds : TRUE
    IN  [c EXCEPT
            !.entity = [w \in Widgets |-> IF Of(w) = {} THEN @[w] ELSE Change(c, The(Of(w)), back)],
            !.heap = [o \in Objects |-> IF In(o) = {} THEN @[o]
                                        ELSE IF back THEN The(In(o)).from ELSE The(In(o)).to]]

\* A widget that is to come back has been changed in place since, by an undo or
\* redo of another update.
Changed(c, item, diffs, kind) ==
    \E d \in diffs : d.kind = kind /\ c.heap[d.object] # item.other[d.widget]
Tears(c, item, diffs, kind) ==
    {t \in {"merged", "changed"} :
        IF t = "merged" THEN item.merged ELSE Changed(c, item, diffs, kind)}

\* replay("UNDO"): the differences are taken first.
Undo(c) ==
    LET item == Last(c.undo)
        popped == [c EXCEPT !.undo = Front(@), !.cell = item.before, !.recent = FALSE,
                            !.redo = <<[item EXCEPT !.other = Shown(c)]>> \o @,
                            !.torn = @ \cup Tears(c, item, c.cell, "D")]
    IN  ApplyDiffs(popped, c.cell, TRUE)

\* Mutant: as for an undo, the differences are taken first.
RedoEarly(c) ==
    LET item == Head(c.redo)
        pushed == [c EXCEPT !.redo = Tail(@), !.cell = item.after,
                            !.undo = Append(@, [item EXCEPT !.other = Shown(c)]),
                            !.torn = @ \cup Tears(c, item, item.after, "N")]
    IN  ApplyDiffs(pushed, c.cell, FALSE)

\* replay("REDO"): the differences are taken afterwards.
Redo(c) ==
    LET item == Head(c.redo)
        pushed == [c EXCEPT !.redo = Tail(@), !.cell = item.after,
                            !.undo = Append(@, [item EXCEPT !.other = Shown(c)]),
                            !.torn = @ \cup Tears(c, item, item.after, "N")]
    IN  ApplyDiffs(pushed, item.after, FALSE)

-----------------------------------------------------------------------------
(* The main thread                                                          *)

Replaying ==
    Cardinality({i \in DOMAIN toWorker : toWorker[i].kind \in {"UNDO", "REDO"}})
        + Cardinality({i \in DOMAIN toMain : toMain[i].kind \in {"nothing", "replayed"}})

\* The first page is there and was evaluated.
Init ==
    /\ page \in Pages /\ fetching = {}
    /\ layout \in LayoutsOf(page)
    /\ edits = 0 /\ evals = "idle"
    /\ toWorker = <<>> /\ toMain = <<>>
    /\ exists = TRUE /\ canvas = NewCanvas(layout)
    /\ unseen = {} /\ switch = "done"

Post(widgets, replay) == Append(toWorker, [kind |-> "eval", widgets |-> widgets, replay |-> replay])
Posted ==
    switch' = IF switch # "running" THEN switch
              ELSE IF fetching' = {} THEN "done" ELSE "strayed"

\* An action that is evaluated, with or without shouldReplay = false: an action
\* that is buffered loses it.  W are the widgets that the replay object has not
\* been told of but for this evaluation.
Evaluate(widgets, replay, W) ==
    IF evals = "idle"
    THEN /\ evals' = "running"
         /\ toWorker' = Post(widgets, replay)
         /\ unseen' = IF replay THEN {} ELSE W
         /\ Posted
    ELSE /\ evals' = "buffered"
         /\ unseen' = W
         /\ UNCHANGED <<toWorker, switch>>

Differing(l, m) == {w \in Widgets : l[w] # m[w]}

\* What may become of the layout l when heights, sections and their children are
\* computed anew: widgets change, or go with the section that is left empty.
Adjusted(l) == {m \in Layouts : \A w \in Widgets : l[w] = None => m[w] = None}

EditTo(l) ==
    /\ edits < MaxEdits
    /\ l \in LayoutsOf(page) /\ Cardinality(Differing(l, layout)) = 1
    /\ layout' = l /\ edits' = edits + 1
    /\ UNCHANGED <<page, fetching, toMain, exists, canvas>>

\* Widgets are added, changed or deleted; with shouldReplay = false it is the
\* skeleton of a building block or an auto height that asks for an evaluation.
Edit(l, replay) ==
    /\ EditTo(l)
    /\ Evaluate(l, replay, unseen \cup Differing(l, layout))

\* Auto height, and the height of the main canvas: widgets that are there change
\* and nothing is evaluated.
Resize(l) ==
    /\ EditTo(l)
    /\ \A w \in Differing(l, layout) : None \notin {l[w], layout[w]}
    /\ unseen' = unseen \cup Differing(l, layout)
    /\ UNCHANGED <<evals, toWorker, switch>>

\* undoRedoSaga, up to its request.
AskReplay(kind) ==
    /\ kind \in {"UNDO", "REDO"} /\ Replaying < MaxFlight
    /\ Len(canvas.undo) + Len(canvas.redo) <= MaxItems
    /\ toWorker' = Append(toWorker, [kind |-> kind])
    /\ switch' = IF switch = "running" THEN "strayed" ELSE switch
    /\ UNCHANGED <<page, fetching, layout, edits, evals, toMain, exists, canvas, unseen>>

\* handleFetchedPage, up to clearEvalCache.
FetchPage(p) ==
    /\ edits < MaxEdits /\ fetching = {}
    /\ edits' = edits + 1 /\ fetching' = {p}
    /\ switch' = IF switch = "done" THEN "running" ELSE switch
    /\ toWorker' = Append(toWorker, [kind |-> "clear"])
    /\ UNCHANGED <<page, layout, evals, toMain, exists, canvas, unseen>>

Receive(kind) ==
    /\ toMain # <<>> /\ Head(toMain).kind = kind
    /\ toMain' = Tail(toMain)
    /\ UNCHANGED <<exists, canvas>>

\* The rest of handleFetchedPage.
ReceiveCleared ==
    /\ Receive("cleared")
    /\ fetching' = {}
    /\ \E p \in fetching : /\ page' = p
                           /\ layout' \in LayoutsOf(p)
    /\ Evaluate(layout', TRUE, unseen)
    /\ UNCHANGED edits

\* The rest of undoRedoSaga: the worker's widgets, after a layout step, become the
\* canvas; the worker is not told what the step made of them.
ReceiveReplayed ==
    /\ Receive("replayed")
    /\ \/ /\ layout' = Head(toMain).widgets
          /\ UNCHANGED edits
       \/ /\ edits < MaxEdits /\ edits' = edits + 1
          /\ layout' \in Adjusted(Head(toMain).widgets)
    /\ UNCHANGED <<page, fetching>>
    /\ Evaluate(layout', FALSE, Differing(layout', Head(toMain).widgets))

ReceiveNothing ==
    /\ Receive("nothing")
    /\ UNCHANGED <<page, fetching, layout, edits, evals, toWorker, unseen, switch>>

\* The evaluation is over; what was buffered is evaluated.
ReceiveTree ==
    /\ Receive("tree")
    /\ UNCHANGED <<page, fetching, layout, edits>>
    /\ IF evals = "buffered"
       THEN /\ evals' = "running"
            /\ toWorker' = Post(layout, TRUE)
            /\ unseen' = {}
            /\ Posted
       ELSE /\ evals' = "idle"
            /\ UNCHANGED <<toWorker, unseen, switch>>

-----------------------------------------------------------------------------
(* The worker                                                               *)

Request == Head(toWorker)
Take(kind) ==
    /\ toWorker # <<>> /\ Request.kind = kind
    /\ toWorker' = Tail(toWorker)
    /\ UNCHANGED <<page, fetching, layout, edits, evals, unseen, switch>>

\* evalTree: a new replay object with a new evaluator, an update otherwise.
EvalTree(quick) ==
    /\ Take("eval")
    /\ Room(canvas) /\ (quick => CanMerge(canvas))
    /\ exists' = TRUE
    /\ canvas' = IF ~exists THEN NewCanvas(Request.widgets)
                 ELSE IF Request.replay THEN Update(canvas, Request.widgets, quick)
                 ELSE canvas
    /\ toMain' = Append(toMain, [kind |-> "tree"])

Answer(c) == Append(toMain, [kind |-> "replayed", widgets |-> Shown(c)])

UndoAsked ==
    /\ Take("UNDO") /\ Room(canvas)
    /\ IF canvas.undo = <<>>
       THEN toMain' = Append(toMain, [kind |-> "nothing"]) /\ UNCHANGED canvas
       ELSE /\ canvas' = Collected(Undo(canvas))
            /\ toMain' = Answer(canvas')
    /\ UNCHANGED exists

RedoAsked ==
    /\ Take("REDO") /\ Room(canvas)
    /\ IF canvas.redo = <<>>
       THEN toMain' = Append(toMain, [kind |-> "nothing"]) /\ UNCHANGED canvas
       ELSE /\ canvas' = Collected(Redo(canvas))
            /\ toMain' = Answer(canvas')
    /\ UNCHANGED exists

\* Mutant: the evaluator stays, and with it the replay object.
ClearNothing ==
    /\ Take("clear")
    /\ toMain' = Append(toMain, [kind |-> "cleared"])
    /\ UNCHANGED <<canvas, exists>>

\* clearCache: the replay objects stay.
ClearCache ==
    /\ Take("clear")
    /\ exists' = FALSE
    /\ toMain' = Append(toMain, [kind |-> "cleared"])
    /\ UNCHANGED canvas

Next ==
    \/ \E l \in Layouts : \/ Resize(l)
                         \/ \E replay \in BOOLEAN : Edit(l, replay)
    \/ AskReplay("UNDO") \/ AskReplay("REDO")
    \/ \E p \in Pages : FetchPage(p)
    \/ ReceiveCleared \/ ReceiveReplayed \/ ReceiveNothing \/ ReceiveTree
    \/ \E quick \in BOOLEAN : EvalTree(quick)
    \/ UndoAsked \/ RedoAsked \/ ClearCache

Spec == Init /\ [][Next]_vars

-----------------------------------------------------------------------------
(* Properties                                                               *)

\* At rest the replay object has the widgets of the canvas, so that the next
\* update is recorded against what the user sees; but for the widgets that auto
\* height or layout updates changed since the worker was told of any update.
\* Evaluations that were asked for between an undo and its answer, buffered or
\* not, and page switches make no difference.
InSync ==
    evals = "idle" /\ Replaying = 0 => Differing(Shown(canvas), layout) \subseteq unseen

\* An undo leads back to the widgets before the update, whatever came between;
\* a redo to those before the undo.  Not so in a torn replay object.
ReplaysExactly ==
    [][/\ UndoAsked /\ canvas.undo # <<>> /\ canvas'.torn = {} =>
              Shown(canvas') = Last(canvas.undo).other
       /\ RedoAsked /\ canvas.redo # <<>> /\ canvas'.torn = {} =>
              Shown(canvas') = Head(canvas.redo).other]_vars

\* The tests of entities/Replay say that an undo reverts the update; here where
\* the items undone are of one update each.
UndoReverts ==
    [][UndoAsked /\ canvas.undo # <<>> /\ "merged" \notin canvas'.torn =>
           Shown(canvas') = Last(canvas.undo).other]_vars

\* A page has its own widgets, whatever undo, redo or evaluation was under way
\* when it was fetched; but for one asked for while it was.
OwnLayout == switch # "strayed" => layout \in LayoutsOf(page)
=============================================================================
