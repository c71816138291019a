---------------------------- MODULE Replay_proofs ----------------------------
(***************************************************************************)
(* Proofs about Replay, for any widgets, values and pages, any number of   *)
(* objects that suffices for the widgets, and any bounds.                  *)
(*                                                                         *)
(* The invariant has two halves.  Good(canvas) is about the replay object: *)
(* an object belongs to one widget, the cell goes through what its items   *)
(* had before and after, and the differences of each item lead from the    *)
(* widgets before it to those after it.  The rest is about the messages    *)
(* under way: one evaluation and one clearing of the cache at a time, what *)
(* the layout will be when all are received, and the page they are about.  *)
(***************************************************************************)
EXTENDS Replay, FiniteSetTheorems, FunctionTheorems, TLAPS

-----------------------------------------------------------------------------
(* The invariant                                                            *)

\* All differences a replay object has.
AllDiffs(c) ==
    c.cell
        \cup (UNION {c.undo[i].before \cup c.undo[i].after : i \in DOMAIN c.undo})
        \cup (UNION {c.redo[i].before \cup c.redo[i].after : i \in DOMAIN c.redo})

\* An object belongs to one widget, which holds it now or in a difference.
Holds(c, w, o) ==
    \/ c.entity[w] = o
    \/ \E d \in AllDiffs(c) : d.kind # "E" /\ d.widget = w /\ d.object = o
Owned(c) ==
    \A v, w \in Widgets, o \in Objects : Holds(c, v, o) /\ Holds(c, w, o) => v = w

\* Differences that were taken together are about different widgets.
OneEach(D) == \A d, e \in D : d.widget = e.widget => d = e
Single(c) ==
    /\ \A i \in DOMAIN c.undo : OneEach(c.undo[i].before) /\ OneEach(c.undo[i].after)
    /\ \A i \in DOMAIN c.redo : OneEach(c.redo[i].before) /\ OneEach(c.redo[i].after)
    /\ OneEach(c.cell)

\* What the cell had after one item it had before the next.
Chained(c) ==
    /\ Len(c.undo) > 0 => c.cell = c.undo[Len(c.undo)].after
    /\ Len(c.redo) > 0 => c.cell = c.redo[1].before
    /\ \A i \in 1..(Len(c.undo) - 1) : c.undo[i].after = c.undo[i + 1].before
    /\ \A i \in 1..(Len(c.redo) - 1) : c.redo[i].after = c.redo[i + 1].before

\* The differences D are those between the widgets a and b.
Leads(a, D, b) ==
    /\ \A w \in Widgets : (\A d \in D : d.widget # w) => a[w] = b[w]
    /\ \A d \in D :
          /\ d.kind = "N" => a[d.widget] = None
          /\ d.kind = "D" => b[d.widget] = None
          /\ d.kind = "E" => a[d.widget] = d.from /\ b[d.widget] = d.to

\* Each item of the stacks leads from where its undo leads to where its redo does.
After(c, i) == IF i = Len(c.undo) THEN Shown(c) ELSE c.undo[i + 1].other
Before(c, i) == IF i = 1 THEN Shown(c) ELSE c.redo[i - 1].other
Reverts(c) ==
    c.torn = {} =>
        /\ \A i \in DOMAIN c.undo :
              ~c.undo[i].merged => Leads(c.undo[i].other, c.undo[i].after, After(c, i))
        /\ \A i \in DOMAIN c.redo :
              /\ ~c.redo[i].merged
              /\ Leads(Before(c, i), c.redo[i].after, c.redo[i].other)

Good(c) == c \in Canvas /\ Owned(c) /\ Single(c) /\ Chained(c) /\ Reverts(c)

-----------------------------------------------------------------------------
(* Objects                                                                  *)

LEMMA DiffFacts ==
    ASSUME NEW d \in Diffs
    PROVE  /\ d.widget \in Widgets /\ d.kind \in {"N", "D", "E"}
           /\ d.kind # "E" => d.object \in Objects
           /\ d.kind = "E" => d.from \in Values /\ d.to \in Values
BY DEF Diffs

LEMMA AllDiffsAre ==
    ASSUME NEW c, NEW d
    PROVE  d \in AllDiffs(c) <=>
               \/ d \in c.cell
               \/ \E i \in DOMAIN c.undo : d \in c.undo[i].before \/ d \in c.undo[i].after
               \/ \E i \in DOMAIN c.redo : d \in c.redo[i].before \/ d \in c.redo[i].after
<1> DEFINE U(i) == c.undo[i].before \cup c.undo[i].after
           R(i) == c.redo[i].before \cup c.redo[i].after
<1>1. /\ \A i : d \in U(i) <=> d \in c.undo[i].before \/ d \in c.undo[i].after
      /\ \A i : d \in R(i) <=> d \in c.redo[i].before \/ d \in c.redo[i].after
  OBVIOUS
<1> DEFINE us == UNION {U(i) : i \in DOMAIN c.undo}
           rs == UNION {R(i) : i \in DOMAIN c.redo}
<1>2. AllDiffs(c) = c.cell \cup us \cup rs
  BY DEF AllDiffs
<1>3. d \in us <=> \E i \in DOMAIN c.undo : d \in U(i)
  <2> HIDE DEF U
  <2> QED OBVIOUS
<1>4. d \in rs <=> \E i \in DOMAIN c.redo : d \in R(i)
  <2> HIDE DEF R
  <2> QED OBVIOUS
<1>5. d \in AllDiffs(c) <=> d \in c.cell \/ d \in us \/ d \in rs
  <2> HIDE DEF us, rs
  <2> QED BY <1>2
<1>6. d \in us <=> \E i \in DOMAIN c.undo : d \in c.undo[i].before \/ d \in c.undo[i].after
  <2> HIDE DEF us
  <2> QED BY <1>3
<1>7. d \in rs <=> \E i \in DOMAIN c.redo : d \in c.redo[i].before \/ d \in c.redo[i].after
  <2> HIDE DEF rs
  <2> QED BY <1>4
<1> HIDE DEF us, rs
<1> QED BY <1>5, <1>6, <1>7

LEMMA CanvasFacts ==
    ASSUME NEW c \in Canvas
    PROVE  /\ c.entity \in Entities /\ c.heap \in Heaps /\ c.cell \in SUBSET Diffs
           /\ c.undo \in Seq(Item) /\ c.redo \in Seq(Item)
           /\ c.recent \in BOOLEAN /\ c.torn \in SUBSET {"merged", "changed"}
           /\ \A i \in DOMAIN c.undo : c.undo[i] \in Item
           /\ \A i \in DOMAIN c.redo : c.redo[i] \in Item
           /\ AllDiffs(c) \in SUBSET Diffs
<1>1. /\ c.entity \in Entities /\ c.heap \in Heaps /\ c.cell \in SUBSET Diffs
      /\ c.undo \in Seq(Item) /\ c.redo \in Seq(Item)
      /\ c.recent \in BOOLEAN /\ c.torn \in SUBSET {"merged", "changed"}
  BY DEF Canvas
<1>2. /\ \A i \in DOMAIN c.undo : c.undo[i] \in Item
      /\ \A i \in DOMAIN c.redo : c.redo[i] \in Item
  BY <1>1
<1>3. \A x \in Item : x.before \subseteq Diffs /\ x.after \subseteq Diffs
  BY DEF Item
<1>4. \A d \in AllDiffs(c) : d \in Diffs
  BY <1>1, <1>2, <1>3, AllDiffsAre
<1> QED BY <1>1, <1>2, <1>4

LEMMA ItemFacts ==
    ASSUME NEW x \in Item
    PROVE  /\ x.before \in SUBSET Diffs /\ x.after \in SUBSET Diffs
           /\ x.merged \in BOOLEAN /\ x.other \in Layouts
BY DEF Item

LEMMA ShownFacts ==
    ASSUME NEW c, c.entity \in Entities, c.heap \in Heaps
    PROVE  /\ Shown(c) \in Layouts
           /\ \A w \in Widgets : /\ c.entity[w] = NoObject => Shown(c)[w] = None
                                 /\ c.entity[w] # NoObject =>
                                       /\ c.entity[w] \in Objects
                                       /\ Shown(c)[w] = c.heap[c.entity[w]]
                                       /\ Shown(c)[w] \in Values /\ Shown(c)[w] # None
BY ReplayAssumption DEF Shown, Layouts, Entities, Heaps, NoObject

\* An object is live if something holds it.
LEMMA LiveIsHeld ==
    ASSUME NEW c \in Canvas, NEW o
    PROVE  o \in Live(c) <=> \E w \in Widgets : Holds(c, w, o)
<1>1. \A D : o \in ObjectsIn(D) <=> \E d \in D : d.kind # "E" /\ d.object = o
  BY DEF ObjectsIn
<1>2. o \in Held(c) <=> \E d \in AllDiffs(c) : d.kind # "E" /\ d.object = o
  <2> DEFINE U(i) == c.undo[i].before \cup c.undo[i].after
             R(i) == c.redo[i].before \cup c.redo[i].after
             us == UNION {ObjectsIn(U(i)) : i \in DOMAIN c.undo}
             rs == UNION {ObjectsIn(R(i)) : i \in DOMAIN c.redo}
  <2>1. Held(c) = us \cup rs \cup ObjectsIn(c.cell)
    BY DEF Held
  <2>2. o \in Held(c) <=> o \in us \/ o \in rs \/ o \in ObjectsIn(c.cell)
    <3> HIDE DEF us, rs
    <3> QED BY <2>1
  <2>3. o \in us <=> \E i \in DOMAIN c.undo : o \in ObjectsIn(U(i))
    <3> HIDE DEF U
    <3> QED OBVIOUS
  <2>4. o \in rs <=> \E i \in DOMAIN c.redo : o \in ObjectsIn(R(i))
    <3> HIDE DEF R
    <3> QED OBVIOUS
  <2>5. /\ \A i \in DOMAIN c.undo : \A d \in U(i) : d \in AllDiffs(c)
        /\ \A i \in DOMAIN c.redo : \A d \in R(i) : d \in AllDiffs(c)
        /\ \A d \in c.cell : d \in AllDiffs(c)
    BY AllDiffsAre
  <2>6. ASSUME NEW d \in AllDiffs(c)
        PROVE  d \in c.cell \/ (\E i \in DOMAIN c.undo : d \in U(i)) \/ \E i \in DOMAIN c.redo : d \in R(i)
    BY <2>6, AllDiffsAre
  <2> HIDE DEF U, R, us, rs
  <2>7. ASSUME o \in Held(c) PROVE \E d \in AllDiffs(c) : d.kind # "E" /\ d.object = o
    BY <1>1, <2>2, <2>3, <2>4, <2>5, <2>7
  <2>8. ASSUME NEW d \in AllDiffs(c), d.kind # "E", d.object = o PROVE o \in Held(c)
    BY <1>1, <2>2, <2>3, <2>4, <2>6, <2>8
  <2> QED BY <2>7, <2>8
<1>3. \A d \in AllDiffs(c) : d.widget \in Widgets
  BY CanvasFacts, DiffFacts
<1> QED BY <1>2, <1>3 DEF Live, Holds

\* With room there is an object of its own for each widget.
LEMMA FreshFacts ==
    ASSUME NEW all, Cardinality(Widgets) <= Cardinality(Objects \ all),
           NEW used, used \subseteq all
    PROVE  /\ Fresh(used) \in [Widgets -> Objects \ used]
           /\ \A v, w \in Widgets : Fresh(used)[v] = Fresh(used)[w] => v = w
<1> DEFINE free == Objects \ used
<1>1. /\ IsFiniteSet(Widgets) /\ IsFiniteSet(free) /\ IsFiniteSet(Objects \ all)
      /\ Cardinality(Objects \ all) <= Cardinality(free)
  <2>1. IsFiniteSet(Objects) /\ IsFiniteSet(Widgets)
    BY ReplayAssumption
  <2>2. IsFiniteSet(free)
    BY <2>1, FS_Subset
  <2> HIDE DEF free
  <2>3. (Objects \ all) \in SUBSET free
    BY DEF free
  <2> QED BY <2>1, <2>2, <2>3, FS_Subset
<1> DEFINE m == Cardinality(Widgets)
           n == Cardinality(free)
<1>2. m \in Nat /\ n \in Nat /\ m <= n
  <2>1. Cardinality(Objects \ all) \in Nat /\ m \in Nat /\ n \in Nat
    BY <1>1, FS_CardinalityType
  <2> HIDE DEF n, m, free
  <2> QED BY <1>1, <2>1 DEF n, m
<1>3. ExistsInjection(1..m, 1..n)
  <2> HIDE DEF n, m
  <2> QED BY <1>2, Fun_NatInjLeq
<1>4. ExistsInjection(Widgets, 1..m)
  <2>1. ExistsBijection(1..m, Widgets)
    BY <1>1, FS_CardinalityType
  <2>2. ExistsBijection(Widgets, 1..m)
    BY <2>1, Fun_ExistsBijSymmetric
  <2> QED BY <2>2, Fun_ExistsBijEquiv
<1>5. ExistsInjection(1..n, free)
  <2>1. ExistsBijection(1..n, free)
    BY <1>1, FS_CardinalityType
  <2> QED BY <2>1, Fun_ExistsBijEquiv
<1>6. ExistsInjection(Widgets, free)
  <2> HIDE DEF n, m, free
  <2>1. ExistsInjection(Widgets, 1..n)
    BY <1>3, <1>4, Fun_ExistsInjTransitive
  <2> QED BY <2>1, <1>5, Fun_ExistsInjTransitive
<1>7. PICK f : f \in Injection(Widgets, free)
  BY <1>6, Fun_ExistsInj
<1>8. f \in [Widgets -> free] /\ IsInjective(f)
  <2>1. f \in [Widgets -> free] /\ \A v, w \in Widgets : f[v] = f[w] => v = w
    BY <1>7, Fun_InjectionProperties
  <2> QED BY <2>1 DEF IsInjective
<1>9. Fresh(used) \in [Widgets -> free] /\ IsInjective(Fresh(used))
  BY <1>8 DEF Fresh
<1> QED BY <1>9 DEF IsInjective

LEMMA RoomFor ==
    ASSUME NEW c, Room(c), NEW used, used \subseteq Live(c)
    PROVE  /\ Fresh(used) \in [Widgets -> Objects \ used]
           /\ \A v, w \in Widgets : Fresh(used)[v] = Fresh(used)[w] => v = w
BY FreshFacts DEF Room

\* Widgets from a message: objects that nothing holds, with their values.
\* No two widgets have the same object.
Distinct(e) == \A v, w \in Widgets : e[v] = e[w] /\ e[v] # NoObject => v = w

LEMMA ClonedFacts ==
    ASSUME NEW all, Cardinality(Widgets) <= Cardinality(Objects \ all),
           NEW widgets \in Layouts, NEW e, e = Cloned(widgets, all)
    PROVE  /\ e \in Entities
           /\ \A w \in Widgets : /\ e[w] = NoObject <=> widgets[w] = None
                                 /\ e[w] # NoObject => e[w] \in Objects \ all
           /\ Distinct(e)
<1>1. /\ Fresh(all) \in [Widgets -> Objects \ all]
      /\ \A v, w \in Widgets : Fresh(all)[v] = Fresh(all)[w] => v = w
  BY FreshFacts
<1>2. NoObject \notin Objects
  BY ReplayAssumption DEF NoObject
<1>3. \A w \in Widgets : e[w] = IF widgets[w] = None THEN NoObject ELSE Fresh(all)[w]
  BY DEF Cloned
<1>4. e \in Entities
  BY <1>1 DEF Cloned, Entities
<1> QED BY <1>1, <1>2, <1>3, <1>4 DEF Distinct

\* A heap in which those objects have their values.
LEMMA FilledFacts ==
    ASSUME NEW all, Cardinality(Widgets) <= Cardinality(Objects \ all),
           NEW widgets \in Layouts, NEW heap \in Heaps, NEW e, e = Cloned(widgets, all)
    PROVE  /\ Filled(heap, e, widgets) \in Heaps
           /\ \A w \in Widgets : e[w] # NoObject => Filled(heap, e, widgets)[e[w]] = widgets[w]
<1>1. /\ e \in Entities
      /\ \A w \in Widgets : /\ e[w] = NoObject <=> widgets[w] = None
                            /\ e[w] # NoObject => e[w] \in Objects \ all
      /\ Distinct(e)
  BY ClonedFacts
<1>2. NoObject \notin Objects
  BY ReplayAssumption DEF NoObject
<1>3. ASSUME NEW o \in Objects, NEW w \in Widgets, e[w] = o
      PROVE  Filled(heap, e, widgets)[o] = widgets[w]
  <2>1. e[w] # NoObject
    BY <1>2, <1>3
  <2>2. w = CHOOSE v \in Widgets : e[v] = o
    BY <1>1, <1>3, <2>1 DEF Distinct
  <2> QED BY <1>3, <2>2 DEF Filled
<1>4. ASSUME NEW o \in Objects PROVE Filled(heap, e, widgets)[o] \in Values
  <2>1. CASE \E w \in Widgets : e[w] = o
    BY <1>1, <1>2, <1>3, <2>1 DEF Layouts
  <2>2. CASE ~\E w \in Widgets : e[w] = o
    BY <2>2 DEF Filled, Heaps
  <2> QED BY <2>1, <2>2
<1>5. Filled(heap, e, widgets) \in Heaps
  BY <1>4 DEF Filled, Heaps
<1> QED BY <1>1, <1>3, <1>5

\* What widgets an entity of clones shows.
LEMMA ClonedShown ==
    ASSUME NEW all, Cardinality(Widgets) <= Cardinality(Objects \ all),
           NEW widgets \in Layouts, NEW heap \in Heaps,
           NEW c, c.entity = Cloned(widgets, all), c.heap = Filled(heap, c.entity, widgets)
    PROVE  Shown(c) = widgets
<1>1. \A w \in Widgets : /\ c.entity[w] = NoObject <=> widgets[w] = None
                         /\ c.entity[w] # NoObject => c.heap[c.entity[w]] = widgets[w]
  BY ClonedFacts, FilledFacts
<1> QED BY <1>1 DEF Shown, Layouts

\* What a canvas is depends on its heap by what it shows only.
LEMMA GoodOfShown ==
    ASSUME NEW c, Good(c), NEW d \in Canvas, d.entity = c.entity, d.cell = c.cell,
           d.undo = c.undo, d.redo = c.redo, d.torn = c.torn, Shown(d) = Shown(c)
    PROVE  Good(d)
<1>1. AllDiffs(d) = AllDiffs(c)
  BY DEF AllDiffs
<1>2. Owned(d)
  BY <1>1 DEF Good, Owned, Holds
<1>3. Single(d) /\ Chained(d)
  BY DEF Good, Single, Chained
<1>4. Reverts(d)
  BY DEF Good, Reverts, After, Before
<1> QED BY <1>2, <1>3, <1>4 DEF Good

LEMMA CollectedFacts ==
    ASSUME NEW c \in Canvas
    PROVE  LET d == Collected(c)
           IN  /\ d \in Canvas /\ Shown(d) = Shown(c)
               /\ d.entity = c.entity /\ d.cell = c.cell /\ d.undo = c.undo
               /\ d.redo = c.redo /\ d.torn = c.torn /\ AllDiffs(d) = AllDiffs(c)
               /\ Good(c) => Good(d)
<1> DEFINE d == Collected(c)
<1>1. /\ d.entity = c.entity /\ d.cell = c.cell /\ d.undo = c.undo /\ d.redo = c.redo
      /\ d.torn = c.torn /\ d.recent = c.recent
      /\ d.heap = [o \in Objects |-> IF o \in Live(c) THEN c.heap[o] ELSE CHOOSE v \in Values : TRUE]
  BY DEF Canvas, Collected
<1>2. d.heap \in Heaps
  BY <1>1, CanvasFacts, ReplayAssumption DEF Heaps
<1>3. d \in Canvas
  BY <1>2 DEF Collected, Canvas
<1>4. \A w \in Widgets : c.entity[w] \in Live(c)
  BY DEF Live
<1>5. \A w \in Widgets : c.entity[w] # NoObject => d.heap[c.entity[w]] = c.heap[c.entity[w]]
  BY <1>1, <1>4, CanvasFacts DEF Entities
<1>6. Shown(d) = Shown(c)
  BY <1>1, <1>5 DEF Shown
<1>7. AllDiffs(d) = AllDiffs(c)
  BY <1>1 DEF AllDiffs
<1> HIDE DEF d
<1>8. Good(c) => Good(d)
  BY <1>1, <1>3, <1>6, GoodOfShown
<1> QED BY <1>1, <1>3, <1>6, <1>7, <1>8 DEF d

LEMMA NewCanvasGood ==
    ASSUME NEW widgets \in Layouts
    PROVE  LET c == NewCanvas(widgets)
           IN  /\ Good(c) /\ Shown(c) = widgets /\ AllDiffs(c) = {}
<1> DEFINE c == NewCanvas(widgets)
           any == [o \in Objects |-> CHOOSE v \in Values : TRUE]
           none == {}
           e == Cloned(widgets, none)
<1>1. /\ c.entity = e /\ c.heap = Filled(any, e, widgets) /\ c.cell = {}
      /\ c.undo = <<>> /\ c.redo = <<>> /\ c.recent = FALSE /\ c.torn = {}
      /\ c = [entity |-> e, heap |-> Filled(any, e, widgets), cell |-> {},
              undo |-> <<>>, redo |-> <<>>, recent |-> FALSE, torn |-> {}]
  BY DEF NewCanvas
<1>2. Cardinality(Widgets) <= Cardinality(Objects \ none)
  <2>1. Objects \ none = Objects
    OBVIOUS
  <2> QED BY <2>1, ReplayAssumption
<1>3. any \in Heaps
  BY ReplayAssumption DEF Heaps
<1> HIDE DEF any, none, e, c
<1>4. /\ e \in Entities /\ Filled(any, e, widgets) \in Heaps
      /\ Distinct(e)
  <2>1. e = Cloned(widgets, none)
    BY DEF e
  <2> QED BY <1>2, <1>3, <2>1, ClonedFacts, FilledFacts
<1>5. c \in Canvas
  BY <1>1, <1>4 DEF Canvas
<1>6. Shown(c) = widgets
  <2>1. c.entity = Cloned(widgets, none) /\ c.heap = Filled(any, c.entity, widgets)
    BY <1>1 DEF e
  <2> QED BY <1>2, <1>3, <2>1, ClonedShown
<1>7. AllDiffs(c) = {}
  BY <1>1 DEF AllDiffs
<1>8. Owned(c)
  BY <1>1, <1>4, <1>7, ReplayAssumption DEF Owned, Holds, Distinct, NoObject
<1>9. Single(c) /\ Chained(c) /\ Reverts(c)
  BY <1>1 DEF Single, Chained, Reverts, OneEach
<1> QED BY <1>5, <1>6, <1>7, <1>8, <1>9 DEF Good, c

-----------------------------------------------------------------------------
(* update                                                                   *)

\* The differences of deep-diff: one for each widget that differs, about the
\* objects of the two entities.
LEMMA DiffIs ==
    ASSUME NEW c \in Canvas, NEW widgets \in Layouts, NEW e \in Entities,
           \A w \in Widgets : e[w] = NoObject <=> widgets[w] = None
    PROVE  LET D == Diff(c, e, widgets)
           IN  /\ D \in SUBSET Diffs /\ OneEach(D) /\ Leads(Shown(c), D, widgets)
               /\ \A d \in D : /\ d.kind = "N" => d.object = e[d.widget]
                               /\ d.kind = "D" => d.object = c.entity[d.widget]
                               /\ Shown(c)[d.widget] # None \/ widgets[d.widget] # None
<1> DEFINE old == Shown(c)
           D == Diff(c, e, widgets)
           Added == {w \in Widgets : old[w] = None /\ widgets[w] # None}
           Deleted == {w \in Widgets : old[w] # None /\ widgets[w] = None}
           Edited == {w \in Widgets : old[w] # widgets[w] /\ None \notin {old[w], widgets[w]}}
           ns == {[kind |-> "N", widget |-> w, object |-> e[w]] : w \in Added}
           ds == {[kind |-> "D", widget |-> w, object |-> c.entity[w]] : w \in Deleted}
           es == {[kind |-> "E", widget |-> w, from |-> old[w], to |-> widgets[w]] : w \in Edited}
<1>1. D = ns \cup ds \cup es
  BY DEF Diff
<1>2. /\ old \in Layouts
      /\ \A w \in Widgets : c.entity[w] = NoObject <=> old[w] = None
      /\ \A w \in Widgets : c.entity[w] # NoObject => c.entity[w] \in Objects
      /\ \A w \in Widgets : e[w] # NoObject => e[w] \in Objects
  BY CanvasFacts, ShownFacts DEF Entities
<1> HIDE DEF old, D
<1>3. ASSUME NEW d \in ns
      PROVE  /\ d \in Diffs /\ d.kind = "N" /\ d.object = e[d.widget]
             /\ d.widget \in Widgets /\ old[d.widget] = None /\ widgets[d.widget] # None
  <2>1. PICK w \in Added : d = [kind |-> "N", widget |-> w, object |-> e[w]]
    BY <1>3
  <2> QED BY <1>2, <2>1 DEF Diffs
<1>4. ASSUME NEW d \in ds
      PROVE  /\ d \in Diffs /\ d.kind = "D" /\ d.object = c.entity[d.widget]
             /\ d.widget \in Widgets /\ old[d.widget] # None /\ widgets[d.widget] = None
  <2>1. PICK w \in Deleted : d = [kind |-> "D", widget |-> w, object |-> c.entity[w]]
    BY <1>4
  <2> QED BY <1>2, <2>1 DEF Diffs
<1>5. ASSUME NEW d \in es
      PROVE  /\ d \in Diffs /\ d.kind = "E" /\ d.from = old[d.widget] /\ d.to = widgets[d.widget]
             /\ d.widget \in Widgets /\ old[d.widget] # None /\ widgets[d.widget] # None
             /\ old[d.widget] # widgets[d.widget]
  <2>1. PICK w \in Edited : d = [kind |-> "E", widget |-> w, from |-> old[w], to |-> widgets[w]]
    BY <1>5
  <2> QED BY <1>2, <2>1 DEF Diffs, Layouts
<1>6. \A w \in Widgets : old[w] # widgets[w] =>
          w \in Added \/ w \in Deleted \/ w \in Edited
  OBVIOUS
<1>7. \A w \in Widgets : old[w] # widgets[w] => \E d \in D : d.widget = w
  <2> SUFFICES ASSUME NEW w \in Widgets, old[w] # widgets[w] PROVE \E d \in D : d.widget = w
    OBVIOUS
  <2>1. CASE w \in Added
    <3> DEFINE d == [kind |-> "N", widget |-> w, object |-> e[w]]
    <3>1. d \in ns /\ d.widget = w
      BY <2>1
    <3> HIDE DEF d
    <3> QED BY <1>1, <3>1
  <2>2. CASE w \in Deleted
    <3> DEFINE d == [kind |-> "D", widget |-> w, object |-> c.entity[w]]
    <3>1. d \in ds /\ d.widget = w
      BY <2>2
    <3> HIDE DEF d
    <3> QED BY <1>1, <3>1
  <2>3. CASE w \in Edited
    <3> DEFINE d == [kind |-> "E", widget |-> w, from |-> old[w], to |-> widgets[w]]
    <3>1. d \in es /\ d.widget = w
      BY <2>3
    <3> HIDE DEF d
    <3> QED BY <1>1, <3>1
  <2> QED BY <1>6, <2>1, <2>2, <2>3
<1>8. OneEach(D)
  <2> SUFFICES ASSUME NEW a \in D, NEW b \in D, a.widget = b.widget PROVE a = b
    BY DEF OneEach
  <2>1. CASE a \in ns
    <3>1. b \in ns
      BY <1>1, <1>3, <1>4, <1>5, <2>1
    <3>2. PICK v \in Added : a = [kind |-> "N", widget |-> v, object |-> e[v]]
      BY <2>1
    <3>3. PICK w \in Added : b = [kind |-> "N", widget |-> w, object |-> e[w]]
      BY <3>1
    <3> QED BY <3>2, <3>3
  <2>2. CASE a \in ds
    <3>1. b \in ds
      BY <1>1, <1>3, <1>4, <1>5, <2>2
    <3>2. PICK v \in Deleted : a = [kind |-> "D", widget |-> v, object |-> c.entity[v]]
      BY <2>2
    <3>3. PICK w \in Deleted : b = [kind |-> "D", widget |-> w, object |-> c.entity[w]]
      BY <3>1
    <3> QED BY <3>2, <3>3
  <2>3. CASE a \in es
    <3>1. b \in es
      BY <1>1, <1>3, <1>4, <1>5, <2>3
    <3>2. PICK v \in Edited : a = [kind |-> "E", widget |-> v, from |-> old[v], to |-> widgets[v]]
      BY <2>3
    <3>3. PICK w \in Edited : b = [kind |-> "E", widget |-> w, from |-> old[w], to |-> widgets[w]]
      BY <3>1
    <3> QED BY <3>2, <3>3
  <2> QED BY <1>1, <2>1, <2>2, <2>3
<1> HIDE DEF ns, ds, es, Added, Deleted, Edited
<1>9. Leads(old, D, widgets)
  BY <1>1, <1>3, <1>4, <1>5, <1>7 DEF Leads
<1>10. D \in SUBSET Diffs
  BY <1>1, <1>3, <1>4, <1>5
<1>11. \A d \in D : /\ d.kind = "N" => d.object = e[d.widget]
                    /\ d.kind = "D" => d.object = c.entity[d.widget]
                    /\ old[d.widget] # None \/ widgets[d.widget] # None
  BY <1>1, <1>3, <1>4, <1>5
<1> QED BY <1>8, <1>9, <1>10, <1>11 DEF old, D

\* The item of an update: its own, or with what it had before that on top.
LEMMA PutFacts ==
    ASSUME NEW c \in Canvas, NEW D \in SUBSET Diffs, NEW quick \in BOOLEAN, quick => CanMerge(c)
    PROVE  LET p == Put(c, D, quick)
               m == IF quick THEN Len(c.undo) - 1 ELSE Len(c.undo)
           IN  /\ p \in Canvas /\ p.entity = c.entity /\ p.heap = c.heap /\ p.cell = D
               /\ p.redo = <<>> /\ p.torn = c.torn
               /\ m \in Nat /\ Len(p.undo) = m + 1
               /\ \A i \in 1..m : p.undo[i] = c.undo[i]
               /\ p.undo[m + 1].after = D /\ p.undo[m + 1].merged = quick
               /\ p.undo[m + 1].before = IF quick THEN c.undo[m + 1].before ELSE c.cell
               /\ p.undo[m + 1].other = IF quick THEN c.undo[m + 1].other ELSE Shown(c)
<1> DEFINE top == Last(c.undo)
           base == IF quick THEN Front(c.undo) ELSE c.undo
           item == IF quick THEN [top EXCEPT !.after = D, !.merged = TRUE]
                   ELSE [before |-> c.cell, after |-> D, merged |-> FALSE, other |-> Shown(c)]
           p == Put(c, D, quick)
           m == IF quick THEN Len(c.undo) - 1 ELSE Len(c.undo)
<1>1. /\ c.undo \in Seq(Item) /\ Len(c.undo) \in Nat /\ c.cell \in SUBSET Diffs
      /\ Shown(c) \in Layouts
  BY CanvasFacts, ShownFacts
<1>2. quick => Len(c.undo) > 0
  BY <1>1 DEF CanMerge
<1>3. /\ m \in Nat /\ base \in Seq(Item) /\ Len(base) = m /\ \A i \in 1..m : base[i] = c.undo[i]
  BY <1>1, <1>2 DEF Front
<1>4. quick => top \in Item /\ top = c.undo[m + 1]
  BY <1>1, <1>2 DEF Last
<1>5. /\ item \in Item /\ item.after = D /\ item.merged = quick
      /\ item.before = IF quick THEN c.undo[m + 1].before ELSE c.cell
      /\ item.other = IF quick THEN c.undo[m + 1].other ELSE Shown(c)
  <2>1. CASE quick
    BY <1>4, <2>1 DEF Item
  <2>2. CASE ~quick
    BY <1>1, <2>2 DEF Item
  <2> QED BY <2>1, <2>2
<1>6. p = [c EXCEPT !.cell = D, !.recent = TRUE, !.redo = <<>>, !.undo = Append(base, item)]
  BY DEF Put
<1> HIDE DEF p, base, item, top
<1>7. /\ p.entity = c.entity /\ p.heap = c.heap /\ p.cell = D
      /\ p.redo = <<>> /\ p.torn = c.torn /\ p.undo = Append(base, item)
      /\ p \in Canvas
  <2>1. Append(base, item) \in Seq(Item)
    BY <1>3, <1>5
  <2>2. <<>> \in Seq(Item)
    OBVIOUS
  <2> DEFINE q == Append(base, item)
             none == <<>>
  <2>3. q \in Seq(Item) /\ none \in Seq(Item) /\ p = [c EXCEPT !.cell = D, !.recent = TRUE, !.redo = none, !.undo = q]
    BY <1>6, <2>1, <2>2
  <2> HIDE DEF q, none
  <2>4. p \in Canvas
    BY <2>3 DEF Canvas
  <2>5. /\ p.entity = c.entity /\ p.heap = c.heap /\ p.cell = D
        /\ p.redo = none /\ p.torn = c.torn /\ p.undo = q
    BY <2>3 DEF Canvas
  <2> QED BY <2>4, <2>5 DEF q, none
<1>8. /\ Len(p.undo) = m + 1 /\ p.undo[m + 1] = item
      /\ \A i \in 1..m : p.undo[i] = c.undo[i]
  BY <1>3, <1>5, <1>7
<1> QED BY <1>3, <1>5, <1>7, <1>8 DEF p

\* update: the replay object shows the widgets afterwards, and its undo leads
\* back to what it showed; no new difference is about a widget absent from both.
LEMMA UpdateGood ==
    ASSUME NEW c, Good(c), Room(c), NEW widgets \in Layouts,
           NEW quick \in BOOLEAN, quick => CanMerge(c)
    PROVE  LET u == Update(c, widgets, quick)
           IN  /\ Good(u) /\ Shown(u) = widgets
               /\ \A d \in AllDiffs(u) : \/ d \in AllDiffs(c)
                                         \/ Shown(c)[d.widget] # None \/ widgets[d.widget] # None
<1>1. CASE Shown(c) = widgets
  BY <1>1 DEF Update
<1>2. CASE Shown(c) # widgets
  <2> DEFINE all == Live(c)
             e == Cloned(widgets, all)
             D == Diff(c, e, widgets)
             p == Put(c, D, quick)
             heap == Filled(c.heap, e, widgets)
             u == [p EXCEPT !.entity = e, !.heap = Filled(@, e, widgets)]
             m == IF quick THEN Len(c.undo) - 1 ELSE Len(c.undo)
  <2>1. Update(c, widgets, quick) = Collected(u)
    BY <1>2 DEF Update
  <2>2. c \in Canvas /\ Owned(c) /\ Single(c) /\ Chained(c) /\ Reverts(c)
    BY DEF Good
  <2>3. /\ e \in Entities
        /\ \A w \in Widgets : /\ e[w] = NoObject <=> widgets[w] = None
                              /\ e[w] # NoObject => e[w] \in Objects \ all
        /\ Distinct(e) /\ heap \in Heaps
    <3>1. Cardinality(Widgets) <= Cardinality(Objects \ all) /\ e = Cloned(widgets, all)
      BY DEF Room
    <3> HIDE DEF all, e
    <3>2. /\ e \in Entities /\ Distinct(e)
          /\ \A w \in Widgets : /\ e[w] = NoObject <=> widgets[w] = None
                                /\ e[w] # NoObject => e[w] \in Objects \ all
      BY <3>1, ClonedFacts
    <3>3. heap \in Heaps
      BY <2>2, <3>1, CanvasFacts, FilledFacts
    <3> QED BY <3>2, <3>3
  <2> HIDE DEF e
  <2>4. /\ D \in SUBSET Diffs /\ OneEach(D) /\ Leads(Shown(c), D, widgets)
        /\ \A d \in D : /\ d.kind = "N" => d.object = e[d.widget]
                        /\ d.kind = "D" => d.object = c.entity[d.widget]
                        /\ Shown(c)[d.widget] # None \/ widgets[d.widget] # None
    BY <2>2, <2>3, DiffIs
  <2> HIDE DEF D
  <2>5. /\ p \in Canvas /\ p.entity = c.entity /\ p.heap = c.heap /\ p.cell = D
        /\ p.redo = <<>> /\ p.torn = c.torn
        /\ m \in Nat /\ Len(p.undo) = m + 1
        /\ \A i \in 1..m : p.undo[i] = c.undo[i]
        /\ p.undo[m + 1].after = D /\ p.undo[m + 1].merged = quick
        /\ p.undo[m + 1].before = IF quick THEN c.undo[m + 1].before ELSE c.cell
        /\ p.undo[m + 1].other = IF quick THEN c.undo[m + 1].other ELSE Shown(c)
    BY <2>2, <2>4, PutFacts
  <2> HIDE DEF p
  <2>6. /\ u \in Canvas /\ u.entity = e /\ u.heap = heap /\ u.cell = D /\ u.undo = p.undo
        /\ u.redo = <<>> /\ u.torn = c.torn
    BY <2>3, <2>5 DEF Canvas
  <2> HIDE DEF u, heap
  <2>7. Shown(u) = widgets
    <3>1. /\ Cardinality(Widgets) <= Cardinality(Objects \ all)
          /\ u.entity = Cloned(widgets, all) /\ u.heap = Filled(c.heap, u.entity, widgets)
      BY <2>6 DEF Room, e, heap
    <3> HIDE DEF all
    <3> QED BY <2>2, <3>1, CanvasFacts, ClonedShown
  <2>8. /\ c.undo \in Seq(Item) /\ Len(c.undo) \in Nat /\ DOMAIN c.undo = 1..Len(c.undo)
        /\ u.undo \in Seq(Item) /\ Len(u.undo) = m + 1 /\ DOMAIN u.undo = 1..(m + 1)
        /\ DOMAIN u.redo = {} /\ Len(u.redo) = 0
        /\ quick => m + 1 = Len(c.undo)
        /\ ~quick => m = Len(c.undo)
    BY <2>2, <2>5, <2>6, CanvasFacts
  <2>9. \A d \in AllDiffs(u) : d \in D \/ d \in AllDiffs(c)
    <3> SUFFICES ASSUME NEW d \in AllDiffs(u) PROVE d \in D \/ d \in AllDiffs(c)
      OBVIOUS
    <3>1. \/ d \in D
          \/ \E i \in 1..(m + 1) : d \in u.undo[i].before \/ d \in u.undo[i].after
      BY <2>6, <2>8, AllDiffsAre
    <3>2. ASSUME NEW i \in 1..(m + 1), d \in u.undo[i].before \/ d \in u.undo[i].after
          PROVE  d \in D \/ d \in AllDiffs(c)
      <4>1. CASE i \in 1..m
        BY <2>5, <2>6, <2>8, <3>2, <4>1, AllDiffsAre
      <4>2. CASE i = m + 1
        BY <2>5, <2>6, <2>8, <3>2, <4>2, AllDiffsAre
      <4> QED BY <2>5, <4>1, <4>2
    <3> QED BY <3>1, <3>2
  <2>10. Owned(u)
    <3>1. ASSUME NEW w \in Widgets, NEW o \in Objects, Holds(u, w, o)
          PROVE  e[w] = o \/ (Holds(c, w, o) /\ o \in all)
      <4>1. CASE u.entity[w] = o
        BY <2>6, <4>1
      <4>2. ASSUME NEW d \in AllDiffs(u), d.kind # "E", d.widget = w, d.object = o
            PROVE  e[w] = o \/ Holds(c, w, o)
        <5>1. d.kind \in {"N", "D"}
          BY <2>6, <4>2, CanvasFacts, DiffFacts
        <5> QED BY <2>4, <2>9, <4>2, <5>1 DEF Holds
      <4>3. Holds(c, w, o) => o \in all
        BY <2>2, LiveIsHeld
      <4> QED BY <3>1, <4>1, <4>2, <4>3 DEF Holds
    <3>2. NoObject \notin Objects
      BY ReplayAssumption DEF NoObject
    <3> HIDE DEF all
    <3> QED BY <2>2, <2>3, <3>1, <3>2 DEF Owned, Distinct
  <2>11. Single(u)
    <3>1. ASSUME NEW i \in 1..(m + 1)
          PROVE  OneEach(u.undo[i].before) /\ OneEach(u.undo[i].after)
      <4>1. CASE i \in 1..m
        BY <2>2, <2>5, <2>6, <2>8, <4>1 DEF Single
      <4>2. CASE i = m + 1
        BY <2>2, <2>4, <2>5, <2>6, <2>8, <4>2 DEF Single
      <4> QED BY <2>5, <4>1, <4>2
    <3> QED BY <2>4, <2>6, <2>8, <3>1 DEF Single
  <2>12. Chained(u)
    <3>1. ASSUME NEW i \in 1..m PROVE u.undo[i].after = u.undo[i + 1].before
      <4>1. CASE i + 1 \in 1..m
        BY <2>2, <2>5, <2>6, <2>8, <4>1 DEF Chained
      <4>2. CASE i = m
        BY <2>2, <2>5, <2>6, <2>8, <4>2 DEF Chained
      <4> QED BY <2>5, <4>1, <4>2
    <3> QED BY <2>5, <2>6, <2>8, <3>1 DEF Chained
  <2>13. Reverts(u)
    <3> SUFFICES ASSUME c.torn = {}, NEW i \in 1..(m + 1), ~u.undo[i].merged
                 PROVE  Leads(u.undo[i].other, u.undo[i].after, After(u, i))
      BY <2>6, <2>8 DEF Reverts
    <3>1. CASE i = m + 1
      BY <2>4, <2>5, <2>6, <2>7, <2>8, <3>1 DEF After
    <3>2. CASE i \in 1..m
      <4>1. u.undo[i] = c.undo[i] /\ Leads(c.undo[i].other, c.undo[i].after, After(c, i))
        BY <2>2, <2>5, <2>6, <2>8, <3>2 DEF Reverts
      <4>2. After(u, i) = After(c, i)
        <5>1. After(u, i) = u.undo[i + 1].other
          BY <2>5, <2>8, <3>2 DEF After
        <5>2. CASE i + 1 \in 1..m
          BY <2>5, <2>6, <2>8, <5>1, <5>2 DEF After
        <5>3. CASE i = m
          BY <2>5, <2>6, <2>8, <5>1, <5>3 DEF After
        <5> QED BY <2>5, <3>2, <5>2, <5>3
      <4> QED BY <4>1, <4>2
    <3> QED BY <2>5, <3>1, <3>2
  <2>14. Good(u)
    BY <2>6, <2>10, <2>11, <2>12, <2>13 DEF Good
  <2> QED BY <2>1, <2>4, <2>6, <2>7, <2>9, <2>14, CollectedFacts
<1> QED BY <1>1, <1>2

-----------------------------------------------------------------------------
(* applyDiffs                                                               *)

\* With objects that nothing holds for the widgets an edit makes.
HasFresh(c) ==
    /\ Fresh(Live(c)) \in [Widgets -> Objects \ Live(c)]
    /\ \A v, w \in Widgets : Fresh(Live(c))[v] = Fresh(Live(c))[w] => v = w

\* The objects a widget may have afterwards are not those of another.
May(c, w, o) == Holds(c, w, o) \/ o = Fresh(Live(c))[w]

LEMMA MayOwned ==
    ASSUME NEW c \in Canvas, Owned(c), HasFresh(c), NEW v \in Widgets, NEW w \in Widgets,
           NEW o \in Objects, May(c, v, o), May(c, w, o)
    PROVE  v = w
<1>1. \A u \in Widgets : Holds(c, u, o) => o \in Live(c)
  BY LiveIsHeld
<1> QED BY <1>1 DEF May, Owned, HasFresh

LEMMA ChangeFacts ==
    ASSUME NEW c \in Canvas, HasFresh(c), NEW d \in AllDiffs(c), NEW back \in BOOLEAN
    PROVE  LET o == Change(c, d, back)
           IN  /\ o \in Objects \cup {NoObject}
               /\ o # NoObject => May(c, d.widget, o)
               /\ d.kind = "E" => o # NoObject
               /\ d.kind # "E" => o = IF (d.kind = "D") = back THEN d.object ELSE NoObject
<1>1. d \in Diffs /\ d.widget \in Widgets /\ (d.kind # "E" => d.object \in Objects)
  BY CanvasFacts, DiffFacts
<1>2. NoObject \notin Objects
  BY ReplayAssumption DEF NoObject
<1>3. c.entity[d.widget] \in Objects \cup {NoObject}
  BY <1>1, CanvasFacts DEF Entities
<1> DEFINE o == Change(c, d, back)
<1>4. CASE d.kind = "E"
  <2>1. o = IF c.entity[d.widget] = NoObject THEN Fresh(Live(c))[d.widget] ELSE c.entity[d.widget]
    BY <1>4 DEF Change
  <2>2. Fresh(Live(c))[d.widget] \in Objects
    BY <1>1 DEF HasFresh
  <2> HIDE DEF o
  <2> QED BY <1>2, <1>3, <1>4, <2>1, <2>2 DEF May, Holds, o
<1>5. CASE d.kind # "E"
  <2>1. o = IF (d.kind = "D") = back THEN d.object ELSE NoObject
    BY <1>5 DEF Change
  <2>2. Holds(c, d.widget, d.object)
    BY <1>5 DEF Holds
  <2> HIDE DEF o
  <2> QED BY <1>1, <1>2, <1>5, <2>1, <2>2 DEF May, o
<1> QED BY <1>4, <1>5

LEMMA Applied ==
    ASSUME NEW c \in Canvas, Owned(c), HasFresh(c), NEW D \in SUBSET AllDiffs(c), OneEach(D),
           NEW back \in BOOLEAN
    PROVE  LET r == ApplyDiffs(c, D, back)
           IN  /\ r \in Canvas /\ Owned(r) /\ r.cell = c.cell /\ r.undo = c.undo
               /\ r.redo = c.redo /\ r.torn = c.torn
               /\ \A w \in Widgets : (\A d \in D : d.widget # w) => Shown(r)[w] = Shown(c)[w]
               /\ \A d \in D :
                     /\ d.kind = "E" => Shown(r)[d.widget] = IF back THEN d.from ELSE d.to
                     /\ d.kind # "E" => Shown(r)[d.widget] =
                            IF (d.kind = "D") = back THEN c.heap[d.object] ELSE None
<1> DEFINE Of(w) == {d \in D : d.widget = w}
           In(o) == {d \in D : d.kind = "E" /\ Change(c, d, back) = o}
           The(ds) == CHOOSE d \in ds : TRUE
           entity == [w \in Widgets |-> IF Of(w) = {} THEN c.entity[w] ELSE Change(c, The(Of(w)), back)]
           heap == [o \in Objects |-> IF In(o) = {} THEN c.heap[o]
                                      ELSE IF back THEN The(In(o)).from ELSE The(In(o)).to]
           r == ApplyDiffs(c, D, back)
<1>1. r = [c EXCEPT !.entity = entity, !.heap = heap]
  BY DEF ApplyDiffs
<1>2. /\ \A d \in D : d \in Diffs /\ d \in AllDiffs(c) /\ d.widget \in Widgets
      /\ \A d \in D : d.kind = "E" => d.from \in Values /\ d.to \in Values
      /\ c.entity \in Entities /\ c.heap \in Heaps
  BY CanvasFacts, DiffFacts
<1>3. NoObject \notin Objects
  BY ReplayAssumption DEF NoObject
<1>4. ASSUME NEW d \in D
      PROVE  /\ Change(c, d, back) \in Objects \cup {NoObject}
             /\ Change(c, d, back) # NoObject => May(c, d.widget, Change(c, d, back))
             /\ d.kind = "E" => Change(c, d, back) # NoObject
             /\ d.kind # "E" =>
                    Change(c, d, back) = IF (d.kind = "D") = back THEN d.object ELSE NoObject
  BY <1>2, ChangeFacts
\* The entity: what was there without a difference, the change of the one.
<1>5. ASSUME NEW w \in Widgets, \A d \in D : d.widget # w
      PROVE  entity[w] = c.entity[w]
  BY <1>5
<1>6. ASSUME NEW d \in D
      PROVE  entity[d.widget] = Change(c, d, back)
  <2>1. Of(d.widget) = {d}
    BY DEF OneEach
  <2>2. The(Of(d.widget)) = d
    BY <2>1
  <2> QED BY <1>2, <2>1, <2>2
<1>7. \A w \in Widgets : (\A d \in D : d.widget # w) \/ \E d \in D : d.widget = w
  OBVIOUS
\* The heap: an object is changed by the one edit of its widget.
<1>8. ASSUME NEW d \in D, d.kind = "E"
      PROVE  heap[Change(c, d, back)] = IF back THEN d.from ELSE d.to
  <2> DEFINE o == Change(c, d, back)
  <2>1. o \in Objects /\ May(c, d.widget, o)
    BY <1>4, <1>8
  <2>2. ASSUME NEW f \in In(o) PROVE f = d
    <3>1. f \in D /\ f.kind = "E" /\ Change(c, f, back) = o
      OBVIOUS
    <3> HIDE DEF o
    <3>2. May(c, f.widget, o)
      BY <1>3, <1>4, <2>1, <3>1
    <3> QED BY <1>2, <2>1, <3>1, <3>2, MayOwned DEF OneEach
  <2>3. In(o) = {d}
    BY <1>8, <2>2
  <2>4. The(In(o)) = d
    BY <2>3
  <2> QED BY <2>1, <2>3, <2>4
<1>9. ASSUME NEW o \in Objects, NEW w \in Widgets, May(c, w, o),
             \A d \in D : d.widget = w => d.kind # "E"
      PROVE  heap[o] = c.heap[o]
  <2>1. ASSUME NEW f \in In(o) PROVE FALSE
    <3>1. f \in D /\ f.kind = "E" /\ Change(c, f, back) = o
      OBVIOUS
    <3>2. May(c, f.widget, o)
      BY <1>3, <1>4, <3>1
    <3> QED BY <1>2, <1>9, <3>1, <3>2, MayOwned
  <2> QED BY <2>1
<1>10. entity \in Entities
  <2>1. ASSUME NEW w \in Widgets PROVE entity[w] \in Objects \cup {NoObject}
    <3> HIDE DEF entity, Of
    <3>1. CASE \A d \in D : d.widget # w
      BY <1>2, <1>5, <3>1 DEF Entities
    <3>2. CASE \E d \in D : d.widget = w
      BY <1>4, <1>6, <3>2
    <3> QED BY <3>1, <3>2
  <2> QED BY <2>1 DEF Entities
<1>11. heap \in Heaps
  <2>1. ASSUME NEW o \in Objects PROVE heap[o] \in Values
    <3>1. CASE In(o) = {}
      BY <1>2, <3>1 DEF Heaps
    <3>2. CASE In(o) # {}
      <4>1. The(In(o)) \in In(o)
        BY <3>2
      <4>2. The(In(o)).from \in Values /\ The(In(o)).to \in Values
        BY <1>2, <4>1
      <4> HIDE DEF The, In
      <4> QED BY <3>2, <4>2
    <3> QED BY <3>1, <3>2
  <2> QED BY <2>1 DEF Heaps
<1> HIDE DEF entity, heap, r, Of, In, The
<1>12. /\ r \in Canvas /\ r.entity = entity /\ r.heap = heap /\ r.cell = c.cell
       /\ r.undo = c.undo /\ r.redo = c.redo /\ r.torn = c.torn
  BY <1>1, <1>10, <1>11 DEF Canvas
<1>13. Owned(r)
  <2>1. AllDiffs(r) = AllDiffs(c)
    BY <1>12 DEF AllDiffs
  <2>2. ASSUME NEW w \in Widgets, NEW o \in Objects, Holds(r, w, o) PROVE May(c, w, o)
    <3>1. CASE r.entity[w] = o
      <4>1. CASE \A d \in D : d.widget # w
        BY <1>5, <1>12, <3>1, <4>1 DEF May, Holds
      <4>2. CASE \E d \in D : d.widget = w
        BY <1>3, <1>4, <1>6, <1>12, <3>1, <4>2
      <4> QED BY <4>1, <4>2
    <3>2. CASE \E d \in AllDiffs(r) : d.kind # "E" /\ d.widget = w /\ d.object = o
      BY <2>1, <3>2 DEF May, Holds
    <3> QED BY <2>2, <3>1, <3>2 DEF Holds
  <2> QED BY <2>2, MayOwned DEF Owned
<1>14. ASSUME NEW w \in Widgets, \A d \in D : d.widget # w
       PROVE  Shown(r)[w] = Shown(c)[w]
  <2>1. r.entity[w] = c.entity[w]
    BY <1>5, <1>12, <1>14
  <2>2. c.entity[w] # NoObject => r.heap[c.entity[w]] = c.heap[c.entity[w]]
    BY <1>2, <1>9, <1>12, <1>14 DEF Entities, May, Holds
  <2> QED BY <2>1, <2>2 DEF Shown
<1>15. ASSUME NEW d \in D, d.kind = "E"
       PROVE  Shown(r)[d.widget] = IF back THEN d.from ELSE d.to
  BY <1>2, <1>4, <1>6, <1>8, <1>12, <1>15 DEF Shown
<1>16. ASSUME NEW d \in D, d.kind # "E"
       PROVE  Shown(r)[d.widget] = IF (d.kind = "D") = back THEN c.heap[d.object] ELSE None
  <2>1. r.entity[d.widget] = IF (d.kind = "D") = back THEN d.object ELSE NoObject
    BY <1>4, <1>6, <1>12, <1>16
  <2>2. d.widget \in Widgets /\ d.object \in Objects /\ May(c, d.widget, d.object)
    BY <1>2, <1>16, DiffFacts DEF May, Holds
  <2>3. \A f \in D : f.widget = d.widget => f.kind # "E"
    BY <1>16 DEF OneEach
  <2>4. r.heap[d.object] = c.heap[d.object]
    BY <1>9, <1>12, <2>2, <2>3
  <2> QED BY <1>3, <2>1, <2>2, <2>4 DEF Shown
<1> QED BY <1>12, <1>13, <1>14, <1>15, <1>16 DEF r

-----------------------------------------------------------------------------
(* replay                                                                   *)

LEMMA TearsFacts ==
    ASSUME NEW c, NEW item, NEW diffs, NEW kind
    PROVE  /\ Tears(c, item, diffs, kind) \in SUBSET {"merged", "changed"}
           /\ Tears(c, item, diffs, kind) = {} =>
                 /\ ~item.merged
                 /\ \A d \in diffs : d.kind = kind => c.heap[d.object] = item.other[d.widget]
<1>1. "merged" \in Tears(c, item, diffs, kind) <=> item.merged
  BY DEF Tears
<1>2. "changed" \in Tears(c, item, diffs, kind) <=> Changed(c, item, diffs, kind)
  BY DEF Tears
<1>3. Tears(c, item, diffs, kind) \in SUBSET {"merged", "changed"}
  BY DEF Tears
<1> HIDE DEF Tears
<1> QED BY <1>1, <1>2, <1>3 DEF Changed

\* A replay object with no other differences and the same entity has room too.
LEMMA FreshOfFewer ==
    ASSUME NEW c \in Canvas, Room(c), NEW p \in Canvas, p.entity = c.entity,
           AllDiffs(p) \subseteq AllDiffs(c)
    PROVE  HasFresh(p)
<1>1. \A w, o : Holds(p, w, o) => Holds(c, w, o)
  BY DEF Holds
<1>2. Live(p) \subseteq Live(c)
  BY <1>1, LiveIsHeld
<1> QED BY <1>2, RoomFor DEF HasFresh

\* The stacks and the cell of an undo.
Popped(c) ==
    LET item == Last(c.undo)
    IN  [c EXCEPT !.undo = Front(@), !.cell = item.before, !.recent = FALSE,
                  !.redo = <<[item EXCEPT !.other = Shown(c)]>> \o @,
                  !.torn = @ \cup Tears(c, item, c.cell, "D")]

LEMMA PoppedFacts ==
    ASSUME NEW c \in Canvas, c.undo # <<>>
    PROVE  LET p == Popped(c)
               n == Len(c.undo)
               item == c.undo[n]
           IN  /\ n \in Nat /\ n > 0 /\ item \in Item
               /\ p \in Canvas /\ p.entity = c.entity /\ p.heap = c.heap /\ p.cell = item.before
               /\ p.torn = c.torn \cup Tears(c, item, c.cell, "D")
               /\ Len(p.undo) = n - 1 /\ \A i \in 1..(n - 1) : p.undo[i] = c.undo[i]
               /\ Len(p.redo) = Len(c.redo) + 1
               /\ \A i \in 1..Len(c.redo) : p.redo[i + 1] = c.redo[i]
               /\ p.redo[1].before = item.before /\ p.redo[1].after = item.after
               /\ p.redo[1].merged = item.merged /\ p.redo[1].other = Shown(c)
<1> DEFINE p == Popped(c)
           n == Len(c.undo)
           item == c.undo[n]
           new == [item EXCEPT !.other = Shown(c)]
           undo == Front(c.undo)
           redo == <<new>> \o c.redo
           torn == c.torn \cup Tears(c, item, c.cell, "D")
<1>1. /\ c.undo \in Seq(Item) /\ c.redo \in Seq(Item) /\ Shown(c) \in Layouts
      /\ n \in Nat /\ n > 0 /\ item \in Item
  BY CanvasFacts, ShownFacts
<1>2. /\ undo \in Seq(Item) /\ Len(undo) = n - 1 /\ \A i \in 1..(n - 1) : undo[i] = c.undo[i]
  BY <1>1 DEF Front
<1>3. /\ new \in Item /\ new.before = item.before /\ new.after = item.after
      /\ new.merged = item.merged /\ new.other = Shown(c)
  <2> HIDE DEF item
  <2> QED BY <1>1 DEF Item
<1>4. /\ redo \in Seq(Item) /\ Len(redo) = Len(c.redo) + 1 /\ redo[1] = new
      /\ \A i \in 1..Len(c.redo) : redo[i + 1] = c.redo[i]
  <2> HIDE DEF new
  <2> QED BY <1>1, <1>3
<1>5. torn \in SUBSET {"merged", "changed"} /\ item.before \in SUBSET Diffs
  <2>1. item.before \in SUBSET Diffs
    BY <1>1, ItemFacts
  <2>2. Tears(c, item, c.cell, "D") \in SUBSET {"merged", "changed"}
    BY TearsFacts
  <2> QED BY <2>1, <2>2, CanvasFacts
<1>6. p = [c EXCEPT !.undo = undo, !.cell = item.before, !.recent = FALSE, !.redo = redo, !.torn = torn]
  BY DEF Popped, Last
<1> HIDE DEF p, item, new, undo, redo, torn
<1>7. /\ p \in Canvas /\ p.entity = c.entity /\ p.heap = c.heap /\ p.cell = item.before
      /\ p.torn = torn /\ p.undo = undo /\ p.redo = redo
  BY <1>2, <1>4, <1>5, <1>6 DEF Canvas
<1> QED BY <1>1, <1>2, <1>3, <1>4, <1>7 DEF p, item, torn

\* An undo: it leads back to the widgets before the update.
LEMMA UndoGood ==
    ASSUME NEW c, Good(c), Room(c), c.undo # <<>>
    PROVE  LET u == Collected(Undo(c))
           IN  /\ Good(u)
               /\ u.torn = {} => Shown(u) = c.undo[Len(c.undo)].other
               /\ AllDiffs(u) \subseteq AllDiffs(c)
               /\ \A w \in Widgets : Shown(u)[w] # None =>
                      Shown(c)[w] # None \/ \E d \in AllDiffs(c) : d.widget = w
<1> DEFINE p == Popped(c)
           n == Len(c.undo)
           item == c.undo[n]
           r == ApplyDiffs(p, c.cell, TRUE)
<1>1. Undo(c) = r
  BY DEF Undo, Popped
<1>2. c \in Canvas /\ Owned(c) /\ Single(c) /\ Chained(c) /\ Reverts(c)
  BY DEF Good
<1>3. /\ n \in Nat /\ n > 0 /\ item \in Item
      /\ p \in Canvas /\ p.entity = c.entity /\ p.heap = c.heap /\ p.cell = item.before
      /\ p.torn = c.torn \cup Tears(c, item, c.cell, "D")
      /\ Len(p.undo) = n - 1 /\ \A i \in 1..(n - 1) : p.undo[i] = c.undo[i]
      /\ Len(p.redo) = Len(c.redo) + 1
      /\ \A i \in 1..Len(c.redo) : p.redo[i + 1] = c.redo[i]
      /\ p.redo[1].before = item.before /\ p.redo[1].after = item.after
      /\ p.redo[1].merged = item.merged /\ p.redo[1].other = Shown(c)
  BY <1>2, PoppedFacts
<1> HIDE DEF p
<1>4. /\ c.undo \in Seq(Item) /\ DOMAIN c.undo = 1..n /\ n = Len(c.undo) /\ item = c.undo[n]
      /\ n \in 1..n /\ c.redo \in Seq(Item) /\ DOMAIN c.redo = 1..Len(c.redo) /\ Len(c.redo) \in Nat
      /\ p.undo \in Seq(Item) /\ DOMAIN p.undo = 1..(n - 1)
      /\ p.redo \in Seq(Item) /\ DOMAIN p.redo = 1..(Len(c.redo) + 1)
  BY <1>2, <1>3, CanvasFacts
<1> HIDE DEF n, item
<1>5. item.after = c.cell
  BY <1>2, <1>3, <1>4 DEF Chained
\* Its differences are there before and afterwards.
<1>6. AllDiffs(p) \subseteq AllDiffs(c)
  <2> SUFFICES ASSUME NEW d \in AllDiffs(p) PROVE d \in AllDiffs(c)
    OBVIOUS
  <2>1. \/ d \in item.before
        \/ \E i \in 1..(n - 1) : d \in p.undo[i].before \/ d \in p.undo[i].after
        \/ \E i \in 1..(Len(c.redo) + 1) : d \in p.redo[i].before \/ d \in p.redo[i].after
    BY <1>3, <1>4, AllDiffsAre
  <2>2. ASSUME d \in item.before \/ d \in item.after PROVE d \in AllDiffs(c)
    BY <1>3, <1>4, <2>2, AllDiffsAre
  <2>3. ASSUME NEW i \in 1..(n - 1), d \in p.undo[i].before \/ d \in p.undo[i].after
        PROVE  d \in AllDiffs(c)
    BY <1>3, <1>4, <2>3, AllDiffsAre
  <2>4. ASSUME NEW i \in 1..(Len(c.redo) + 1), d \in p.redo[i].before \/ d \in p.redo[i].after
        PROVE  d \in AllDiffs(c)
    <3>1. CASE i = 1
      BY <1>3, <2>2, <2>4, <3>1
    <3>2. CASE i # 1
      <4>1. i - 1 \in 1..Len(c.redo) /\ p.redo[i] = c.redo[i - 1]
        BY <1>3, <1>4, <3>2
      <4> QED BY <1>4, <2>4, <4>1, AllDiffsAre
    <3> QED BY <3>1, <3>2
  <2> QED BY <2>1, <2>2, <2>3, <2>4
<1>7. c.cell \in SUBSET AllDiffs(p)
  <2>1. 1 \in DOMAIN p.redo
    BY <1>4
  <2> QED BY <1>3, <1>5, <2>1, AllDiffsAre
<1>8. Owned(p)
  BY <1>2, <1>3, <1>6 DEF Owned, Holds
<1>9. OneEach(c.cell)
  BY <1>2 DEF Single
<1>10. HasFresh(p)
  BY <1>2, <1>3, <1>6, FreshOfFewer
<1>11. /\ r \in Canvas /\ Owned(r) /\ r.cell = p.cell /\ r.undo = p.undo
       /\ r.redo = p.redo /\ r.torn = p.torn
       /\ \A w \in Widgets : (\A d \in c.cell : d.widget # w) => Shown(r)[w] = Shown(p)[w]
       /\ \A d \in c.cell :
             /\ d.kind = "E" => Shown(r)[d.widget] = d.from
             /\ d.kind # "E" => Shown(r)[d.widget] = IF d.kind = "D" THEN p.heap[d.object] ELSE None
  BY <1>3, <1>7, <1>8, <1>9, <1>10, Applied
<1> HIDE DEF r
\* Its stacks, with the indices they had.
<1>12. /\ DOMAIN r.undo = 1..(n - 1) /\ Len(r.undo) = n - 1
        /\ DOMAIN r.redo = 1..(Len(c.redo) + 1) /\ Len(r.redo) = Len(c.redo) + 1
        /\ r.redo[1].before = item.before /\ r.redo[1].after = item.after
        /\ r.redo[1].merged = item.merged /\ r.redo[1].other = Shown(c)
  BY <1>3, <1>4, <1>11
<1>13. ASSUME NEW i \in 1..(n - 1)
        PROVE  r.undo[i] = c.undo[i] /\ i \in DOMAIN c.undo /\ i + 1 \in DOMAIN c.undo /\ i # n
  BY <1>3, <1>4, <1>11
<1>14. ASSUME NEW i \in 1..(Len(c.redo) + 1), i # 1
        PROVE  r.redo[i] = c.redo[i - 1] /\ i - 1 \in DOMAIN c.redo /\ i \in Nat
  <2>1. i - 1 \in 1..Len(c.redo) /\ (i - 1) + 1 = i
    BY <1>4, <1>14
  <2>2. p.redo[(i - 1) + 1] = c.redo[i - 1]
    BY <1>3, <2>1
  <2> QED BY <1>4, <1>11, <2>1, <2>2
<1>15. Shown(p) = Shown(c)
  BY <1>3 DEF Shown
<1>16. /\ Shown(r) \in Layouts /\ Shown(c) \in Layouts /\ item.other \in Layouts
       /\ \A d \in c.cell : d.widget \in Widgets /\ d.kind \in {"N", "D", "E"}
  BY <1>2, <1>3, <1>11, CanvasFacts, ShownFacts, ItemFacts, DiffFacts
<1>17. AllDiffs(r) = AllDiffs(p)
  BY <1>11 DEF AllDiffs
<1>18. r.torn = {} =>
           /\ c.torn = {} /\ ~item.merged
           /\ \A d \in c.cell : d.kind = "D" => c.heap[d.object] = item.other[d.widget]
  <2>1. r.torn = {} => c.torn = {} /\ Tears(c, item, c.cell, "D") = {}
    BY <1>3, <1>11
  <2> QED BY <2>1, TearsFacts
<1>19. r.torn = {} => Leads(item.other, c.cell, Shown(c))
  BY <1>2, <1>4, <1>3, <1>5, <1>18 DEF Reverts, After
<1>20. ASSUME r.torn = {} PROVE Shown(r) = item.other
  <2>1. ASSUME NEW w \in Widgets PROVE Shown(r)[w] = item.other[w]
    <3>1. CASE \A d \in c.cell : d.widget # w
      BY <1>11, <1>15, <1>19, <1>20, <3>1 DEF Leads
    <3>2. ASSUME NEW d \in c.cell, d.widget = w PROVE Shown(r)[w] = item.other[w]
      BY <1>3, <1>11, <1>16, <1>18, <1>19, <1>20, <3>2 DEF Leads
    <3> QED BY <3>1, <3>2
  <2> QED BY <1>16, <2>1 DEF Layouts
<1>21. Single(r)
  <2>1. \A i \in DOMAIN r.undo : OneEach(r.undo[i].before) /\ OneEach(r.undo[i].after)
    BY <1>2, <1>12, <1>13 DEF Single
  <2>2. OneEach(item.before) /\ OneEach(item.after)
    BY <1>2, <1>4 DEF Single
  <2>3. ASSUME NEW i \in DOMAIN r.redo PROVE OneEach(r.redo[i].before) /\ OneEach(r.redo[i].after)
    <3>1. CASE i = 1
      BY <1>12, <2>2, <3>1
    <3>2. CASE i # 1
      BY <1>2, <1>12, <1>14, <3>2 DEF Single
    <3> QED BY <3>1, <3>2
  <2> QED BY <1>3, <1>11, <2>1, <2>2, <2>3 DEF Single
<1>22. Chained(r)
  <2>1. ASSUME NEW i \in 1..(Len(r.undo) - 1) PROVE r.undo[i].after = r.undo[i + 1].before
    <3>1. i \in 1..(n - 1) /\ i + 1 \in 1..(n - 1)
      BY <1>3, <1>12
    <3>2. c.undo[i].after = c.undo[i + 1].before
      BY <1>2, <1>4, <3>1 DEF Chained
    <3> QED BY <1>13, <3>1, <3>2
  <2>2. ASSUME Len(r.undo) > 0 PROVE r.cell = r.undo[Len(r.undo)].after
    <3>1. n - 1 \in 1..(n - 1) /\ (n - 1) + 1 = n
      BY <1>3, <1>12, <2>2
    <3>2. c.undo[n - 1].after = c.undo[(n - 1) + 1].before
      BY <1>2, <1>4, <3>1 DEF Chained
    <3>3. r.undo[n - 1] = c.undo[n - 1]
      BY <1>13, <3>1
    <3> QED BY <1>3, <1>4, <1>11, <1>12, <3>1, <3>2, <3>3
  <2>3. ASSUME NEW i \in 1..(Len(r.redo) - 1) PROVE r.redo[i].after = r.redo[i + 1].before
    <3>1. i + 1 \in 1..(Len(c.redo) + 1) /\ i + 1 # 1 /\ (i + 1) - 1 = i /\ i \in 1..Len(c.redo)
      BY <1>4, <1>12
    <3>2. r.redo[i + 1] = c.redo[i]
      BY <1>14, <3>1
    <3>3. CASE i = 1
      BY <1>2, <1>4, <1>5, <1>12, <3>1, <3>2, <3>3 DEF Chained
    <3>4. CASE i # 1
      <4>1. r.redo[i] = c.redo[i - 1]
        <5>1. i \in 1..(Len(c.redo) + 1)
          BY <1>4, <3>1
        <5> QED BY <1>14, <3>4, <5>1
      <4>2. i - 1 \in 1..(Len(c.redo) - 1) /\ (i - 1) + 1 = i
        BY <1>4, <3>1, <3>4
      <4>3. c.redo[i - 1].after = c.redo[(i - 1) + 1].before
        BY <1>2, <4>2 DEF Chained
      <4> QED BY <3>2, <4>1, <4>2, <4>3
    <3> QED BY <3>3, <3>4
  <2> QED BY <1>3, <1>11, <1>12, <2>1, <2>2, <2>3 DEF Chained
<1>23. Reverts(r)
  <2> SUFFICES ASSUME r.torn = {}
               PROVE  /\ \A i \in DOMAIN r.undo : ~r.undo[i].merged =>
                             Leads(r.undo[i].other, r.undo[i].after, After(r, i))
                      /\ \A i \in DOMAIN r.redo : /\ ~r.redo[i].merged
                                                  /\ Leads(Before(r, i), r.redo[i].after, r.redo[i].other)
    BY DEF Reverts
  <2>1. Shown(r) = item.other
    BY <1>20
  <2>2. ASSUME NEW i \in DOMAIN r.undo, ~r.undo[i].merged
        PROVE  Leads(r.undo[i].other, r.undo[i].after, After(r, i))
    <3>1. i \in 1..(n - 1) /\ r.undo[i] = c.undo[i] /\ i \in DOMAIN c.undo /\ i # n
      BY <1>12, <1>13, <2>2
    <3>2. Leads(c.undo[i].other, c.undo[i].after, After(c, i))
      BY <1>2, <1>18, <2>2, <3>1 DEF Reverts
    <3>3. After(c, i) = c.undo[i + 1].other
      BY <1>4, <3>1 DEF After
    <3>4. After(r, i) = c.undo[i + 1].other
      <4>1. CASE i = n - 1
        BY <1>3, <1>4, <1>12, <2>1, <3>1, <4>1 DEF After
      <4>2. CASE i # n - 1
        <5>1. i + 1 \in 1..(n - 1)
          BY <1>3, <3>1, <4>2
        <5>2. After(r, i) = r.undo[i + 1].other
          BY <1>12, <4>2 DEF After
        <5> QED BY <1>13, <5>1, <5>2
      <4> QED BY <4>1, <4>2
    <3> QED BY <3>1, <3>2, <3>3, <3>4
  <2>3. ASSUME NEW i \in DOMAIN r.redo
        PROVE  /\ ~r.redo[i].merged
               /\ Leads(Before(r, i), r.redo[i].after, r.redo[i].other)
    <3>1. CASE i = 1
      <4>1. /\ ~r.redo[i].merged /\ r.redo[i].after = c.cell /\ r.redo[i].other = Shown(c)
            /\ Before(r, i) = item.other
        BY <1>5, <1>18, <1>12, <2>1, <3>1 DEF Before
      <4> QED BY <1>19, <4>1
    <3>2. CASE i # 1
      <4>1. i - 1 \in DOMAIN c.redo /\ r.redo[i] = c.redo[i - 1] /\ i \in Nat
        BY <1>12, <1>14, <3>2
      <4>2. /\ ~c.redo[i - 1].merged
            /\ Leads(Before(c, i - 1), c.redo[i - 1].after, c.redo[i - 1].other)
        BY <1>2, <1>18, <4>1 DEF Reverts
      <4>3. Before(r, i) = Before(c, i - 1)
        <5>1. CASE i = 2
          BY <1>12, <5>1 DEF Before
        <5>2. CASE i # 2
          <6>1. i - 1 \in 1..(Len(c.redo) + 1) /\ i - 1 # 1 /\ (i - 1) - 1 = i - 2
            BY <1>4, <4>1, <5>2
          <6>2. r.redo[i - 1] = c.redo[(i - 1) - 1]
            BY <1>14, <6>1
          <6> QED BY <3>2, <6>1, <6>2 DEF Before
        <5> QED BY <5>1, <5>2
      <4> QED BY <4>1, <4>2, <4>3
    <3> QED BY <3>1, <3>2
  <2> QED BY <2>2, <2>3
<1>24. Good(r)
  BY <1>11, <1>21, <1>22, <1>23 DEF Good
<1>25. ASSUME NEW w \in Widgets, Shown(r)[w] # None
       PROVE  Shown(c)[w] # None \/ \E d \in AllDiffs(c) : d.widget = w
  BY <1>6, <1>7, <1>11, <1>15, <1>25
<1> QED BY <1>1, <1>4, <1>6, <1>11, <1>17, <1>20, <1>24, <1>25, CollectedFacts

\* The stacks and the cell of a redo.
Pushed(c) ==
    LET item == Head(c.redo)
    IN  [c EXCEPT !.redo = Tail(@), !.cell = item.after,
                  !.undo = Append(@, [item EXCEPT !.other = Shown(c)]),
                  !.torn = @ \cup Tears(c, item, item.after, "N")]

LEMMA PushedFacts ==
    ASSUME NEW c \in Canvas, c.redo # <<>>
    PROVE  LET p == Pushed(c)
               m == Len(c.undo)
               n == Len(c.redo)
               item == c.redo[1]
           IN  /\ m \in Nat /\ n \in Nat /\ n > 0 /\ item \in Item
               /\ p \in Canvas /\ p.entity = c.entity /\ p.heap = c.heap /\ p.cell = item.after
               /\ p.torn = c.torn \cup Tears(c, item, item.after, "N")
               /\ Len(p.redo) = n - 1 /\ \A i \in 1..(n - 1) : p.redo[i] = c.redo[i + 1]
               /\ Len(p.undo) = m + 1 /\ \A i \in 1..m : p.undo[i] = c.undo[i]
               /\ p.undo[m + 1].before = item.before /\ p.undo[m + 1].after = item.after
               /\ p.undo[m + 1].merged = item.merged /\ p.undo[m + 1].other = Shown(c)
<1> DEFINE p == Pushed(c)
           m == Len(c.undo)
           n == Len(c.redo)
           item == c.redo[1]
           new == [item EXCEPT !.other = Shown(c)]
           undo == Append(c.undo, new)
           redo == Tail(c.redo)
           torn == c.torn \cup Tears(c, item, item.after, "N")
<1>1. /\ c.undo \in Seq(Item) /\ c.redo \in Seq(Item) /\ Shown(c) \in Layouts
      /\ m \in Nat /\ n \in Nat /\ n > 0 /\ item \in Item
  BY CanvasFacts, ShownFacts
<1>2. /\ redo \in Seq(Item) /\ Len(redo) = n - 1 /\ \A i \in 1..(n - 1) : redo[i] = c.redo[i + 1]
  BY <1>1
<1>3. /\ new \in Item /\ new.before = item.before /\ new.after = item.after
      /\ new.merged = item.merged /\ new.other = Shown(c)
  <2> HIDE DEF item
  <2> QED BY <1>1 DEF Item
<1>4. /\ undo \in Seq(Item) /\ Len(undo) = m + 1 /\ undo[m + 1] = new
      /\ \A i \in 1..m : undo[i] = c.undo[i]
  <2> HIDE DEF new
  <2> QED BY <1>1, <1>3
<1>5. torn \in SUBSET {"merged", "changed"} /\ item.after \in SUBSET Diffs
  <2>1. item.after \in SUBSET Diffs
    BY <1>1, ItemFacts
  <2>2. Tears(c, item, item.after, "N") \in SUBSET {"merged", "changed"}
    BY TearsFacts
  <2> QED BY <2>1, <2>2, CanvasFacts
<1>6. p = [c EXCEPT !.redo = redo, !.cell = item.after, !.undo = undo, !.torn = torn]
  <2>1. Head(c.redo) = c.redo[1]
    BY <1>1
  <2> QED BY <2>1 DEF Pushed
<1> HIDE DEF p, item, new, undo, redo, torn
<1>7. /\ p \in Canvas /\ p.entity = c.entity /\ p.heap = c.heap /\ p.cell = item.after
      /\ p.torn = torn /\ p.undo = undo /\ p.redo = redo
  BY <1>2, <1>4, <1>5, <1>6 DEF Canvas
<1> QED BY <1>1, <1>2, <1>3, <1>4, <1>7 DEF p, item, torn

\* A redo: it leads back to the widgets before the undo.
LEMMA RedoGood ==
    ASSUME NEW c, Good(c), Room(c), c.redo # <<>>
    PROVE  LET u == Collected(Redo(c))
           IN  /\ Good(u)
               /\ u.torn = {} => Shown(u) = c.redo[1].other
               /\ AllDiffs(u) \subseteq AllDiffs(c)
               /\ \A w \in Widgets : Shown(u)[w] # None =>
                      Shown(c)[w] # None \/ \E d \in AllDiffs(c) : d.widget = w
<1> DEFINE p == Pushed(c)
           m == Len(c.undo)
           n == Len(c.redo)
           item == c.redo[1]
           D == item.after
           r == ApplyDiffs(p, D, FALSE)
<1>1. c \in Canvas /\ Owned(c) /\ Single(c) /\ Chained(c) /\ Reverts(c)
  BY DEF Good
<1>2. /\ m \in Nat /\ n \in Nat /\ n > 0 /\ item \in Item
      /\ p \in Canvas /\ p.entity = c.entity /\ p.heap = c.heap /\ p.cell = D
      /\ p.torn = c.torn \cup Tears(c, item, D, "N")
      /\ Len(p.redo) = n - 1 /\ \A i \in 1..(n - 1) : p.redo[i] = c.redo[i + 1]
      /\ Len(p.undo) = m + 1 /\ \A i \in 1..m : p.undo[i] = c.undo[i]
      /\ p.undo[m + 1].before = item.before /\ p.undo[m + 1].after = D
      /\ p.undo[m + 1].merged = item.merged /\ p.undo[m + 1].other = Shown(c)
  BY <1>1, PushedFacts
<1>3. Redo(c) = r
  <2>1. Head(c.redo) = c.redo[1]
    BY <1>1, <1>2, CanvasFacts
  <2> QED BY <2>1 DEF Redo, Pushed
<1> HIDE DEF p
<1>4. /\ c.undo \in Seq(Item) /\ DOMAIN c.undo = 1..m /\ m = Len(c.undo)
      /\ c.redo \in Seq(Item) /\ DOMAIN c.redo = 1..n /\ n = Len(c.redo) /\ item = c.redo[1]
      /\ D = item.after /\ 1 \in 1..n
      /\ p.undo \in Seq(Item) /\ DOMAIN p.undo = 1..(m + 1)
      /\ p.redo \in Seq(Item) /\ DOMAIN p.redo = 1..(n - 1)
  BY <1>1, <1>2, CanvasFacts
<1> HIDE DEF m, n, item, D
<1>5. c.cell = item.before
  BY <1>1, <1>2, <1>4 DEF Chained
\* Its differences are there before and afterwards.
<1>6. AllDiffs(p) \subseteq AllDiffs(c)
  <2> SUFFICES ASSUME NEW d \in AllDiffs(p) PROVE d \in AllDiffs(c)
    OBVIOUS
  <2>1. \/ d \in D
        \/ \E i \in 1..(m + 1) : d \in p.undo[i].before \/ d \in p.undo[i].after
        \/ \E i \in 1..(n - 1) : d \in p.redo[i].before \/ d \in p.redo[i].after
    BY <1>2, <1>4, AllDiffsAre
  <2>2. ASSUME d \in item.before \/ d \in D PROVE d \in AllDiffs(c)
    BY <1>4, <2>2, AllDiffsAre
  <2>3. ASSUME NEW i \in 1..(m + 1), d \in p.undo[i].before \/ d \in p.undo[i].after
        PROVE  d \in AllDiffs(c)
    <3>1. CASE i = m + 1
      BY <1>2, <2>2, <2>3, <3>1
    <3>2. CASE i # m + 1
      <4>1. i \in 1..m /\ p.undo[i] = c.undo[i]
        BY <1>2, <3>2
      <4> QED BY <1>4, <2>3, <4>1, AllDiffsAre
    <3> QED BY <3>1, <3>2
  <2>4. ASSUME NEW i \in 1..(n - 1), d \in p.redo[i].before \/ d \in p.redo[i].after
        PROVE  d \in AllDiffs(c)
    <3>1. i + 1 \in 1..n /\ p.redo[i] = c.redo[i + 1]
      BY <1>2
    <3> QED BY <1>4, <2>4, <3>1, AllDiffsAre
  <2> QED BY <2>1, <2>2, <2>3, <2>4
<1>7. D \in SUBSET AllDiffs(p)
  BY <1>2, AllDiffsAre
<1>8. Owned(p)
  BY <1>1, <1>2, <1>6 DEF Owned, Holds
<1>9. OneEach(D) /\ OneEach(item.before)
  BY <1>1, <1>4 DEF Single
<1>10. HasFresh(p)
  BY <1>1, <1>2, <1>6, FreshOfFewer
<1>11. /\ r \in Canvas /\ Owned(r) /\ r.cell = p.cell /\ r.undo = p.undo
       /\ r.redo = p.redo /\ r.torn = p.torn
       /\ \A w \in Widgets : (\A d \in D : d.widget # w) => Shown(r)[w] = Shown(p)[w]
       /\ \A d \in D :
             /\ d.kind = "E" => Shown(r)[d.widget] = d.to
             /\ d.kind # "E" =>
                    Shown(r)[d.widget] = IF (d.kind = "D") = FALSE THEN p.heap[d.object] ELSE None
  BY <1>2, <1>7, <1>8, <1>9, <1>10, Applied
<1> HIDE DEF r
\* Its stacks, with the indices they had.
<1>12. /\ DOMAIN r.undo = 1..(m + 1) /\ Len(r.undo) = m + 1
       /\ DOMAIN r.redo = 1..(n - 1) /\ Len(r.redo) = n - 1
       /\ r.undo[m + 1].before = item.before /\ r.undo[m + 1].after = D
       /\ r.undo[m + 1].merged = item.merged /\ r.undo[m + 1].other = Shown(c)
  BY <1>2, <1>4, <1>11
<1>13. ASSUME NEW i \in 1..m
       PROVE  r.undo[i] = c.undo[i] /\ i \in DOMAIN c.undo
  BY <1>2, <1>4, <1>11
<1>14. ASSUME NEW i \in 1..(n - 1)
       PROVE  r.redo[i] = c.redo[i + 1] /\ i + 1 \in DOMAIN c.redo /\ i \in Nat /\ i + 1 # 1
  BY <1>2, <1>4, <1>11
<1>15. Shown(p) = Shown(c)
  BY <1>2 DEF Shown
<1>16. /\ Shown(r) \in Layouts /\ Shown(c) \in Layouts /\ item.other \in Layouts
       /\ \A d \in D : d.widget \in Widgets /\ d.kind \in {"N", "D", "E"}
  BY <1>1, <1>2, <1>4, <1>11, CanvasFacts, ShownFacts, ItemFacts, DiffFacts
<1>17. AllDiffs(r) = AllDiffs(p)
  BY <1>11 DEF AllDiffs
<1>18. r.torn = {} =>
           /\ c.torn = {} /\ ~item.merged
           /\ \A d \in D : d.kind = "N" => c.heap[d.object] = item.other[d.widget]
  <2>1. r.torn = {} => c.torn = {} /\ Tears(c, item, D, "N") = {}
    BY <1>2, <1>11
  <2> QED BY <2>1, TearsFacts
<1>19. r.torn = {} => Leads(Shown(c), D, item.other)
  BY <1>1, <1>4, <1>18 DEF Reverts, Before
<1>20. ASSUME r.torn = {} PROVE Shown(r) = item.other
  <2>1. ASSUME NEW w \in Widgets PROVE Shown(r)[w] = item.other[w]
    <3>1. CASE \A d \in D : d.widget # w
      BY <1>11, <1>15, <1>19, <1>20, <3>1 DEF Leads
    <3>2. ASSUME NEW d \in D, d.widget = w PROVE Shown(r)[w] = item.other[w]
      BY <1>2, <1>11, <1>16, <1>18, <1>19, <1>20, <3>2 DEF Leads
    <3> QED BY <3>1, <3>2
  <2> QED BY <1>16, <2>1 DEF Layouts
<1>21. Single(r)
  <2>1. \A i \in DOMAIN r.redo : OneEach(r.redo[i].before) /\ OneEach(r.redo[i].after)
    BY <1>1, <1>12, <1>14 DEF Single
  <2>2. ASSUME NEW i \in DOMAIN r.undo PROVE OneEach(r.undo[i].before) /\ OneEach(r.undo[i].after)
    <3>1. CASE i = m + 1
      BY <1>9, <1>12, <3>1
    <3>2. CASE i # m + 1
      <4>1. i \in 1..m
        BY <1>2, <1>12, <3>2
      <4> QED BY <1>1, <1>13, <4>1 DEF Single
    <3> QED BY <3>1, <3>2
  <2> QED BY <1>2, <1>9, <1>11, <2>1, <2>2 DEF Single
<1>22. Chained(r)
  <2>1. ASSUME NEW i \in 1..(Len(r.redo) - 1) PROVE r.redo[i].after = r.redo[i + 1].before
    <3>1. i \in 1..(n - 1) /\ i + 1 \in 1..(n - 1)
      BY <1>2, <1>12
    <3>2. c.redo[i + 1].after = c.redo[(i + 1) + 1].before
      BY <1>1, <1>4, <3>1 DEF Chained
    <3> QED BY <1>14, <3>1, <3>2
  <2>2. ASSUME Len(r.redo) > 0 PROVE r.cell = r.redo[1].before
    <3>1. 1 \in 1..(n - 1)
      BY <1>2, <1>12, <2>2
    <3>2. c.redo[1].after = c.redo[1 + 1].before
      BY <1>1, <1>4, <3>1 DEF Chained
    <3>3. r.redo[1] = c.redo[1 + 1]
      BY <1>14, <3>1
    <3> QED BY <1>2, <1>4, <1>11, <3>2, <3>3
  <2>3. ASSUME NEW i \in 1..(Len(r.undo) - 1) PROVE r.undo[i].after = r.undo[i + 1].before
    <3>1. i \in 1..m /\ r.undo[i] = c.undo[i]
      BY <1>2, <1>12, <1>13
    <3>2. CASE i = m
      BY <1>1, <1>2, <1>4, <1>5, <1>12, <3>1, <3>2 DEF Chained
    <3>3. CASE i # m
      <4>1. i + 1 \in 1..m /\ i \in 1..(m - 1)
        BY <1>2, <3>1, <3>3
      <4>2. r.undo[i + 1] = c.undo[i + 1] /\ c.undo[i].after = c.undo[i + 1].before
        BY <1>1, <1>4, <1>13, <4>1 DEF Chained
      <4> QED BY <3>1, <4>2
    <3> QED BY <3>2, <3>3
  <2> QED BY <1>2, <1>11, <1>12, <2>1, <2>2, <2>3 DEF Chained
<1>23. Reverts(r)
  <2> SUFFICES ASSUME r.torn = {}
               PROVE  /\ \A i \in DOMAIN r.undo : ~r.undo[i].merged =>
                             Leads(r.undo[i].other, r.undo[i].after, After(r, i))
                      /\ \A i \in DOMAIN r.redo : /\ ~r.redo[i].merged
                                                  /\ Leads(Before(r, i), r.redo[i].after, r.redo[i].other)
    BY DEF Reverts
  <2>1. Shown(r) = item.other
    BY <1>20
  <2>2. ASSUME NEW i \in DOMAIN r.undo, ~r.undo[i].merged
        PROVE  Leads(r.undo[i].other, r.undo[i].after, After(r, i))
    <3>1. CASE i = m + 1
      <4>1. /\ r.undo[i].other = Shown(c) /\ r.undo[i].after = D /\ After(r, i) = item.other
        BY <1>12, <2>1, <3>1 DEF After
      <4> QED BY <1>19, <4>1
    <3>2. CASE i # m + 1
      <4>1. i \in 1..m /\ r.undo[i] = c.undo[i] /\ i \in DOMAIN c.undo
        BY <1>2, <1>12, <1>13, <3>2
      <4>2. Leads(c.undo[i].other, c.undo[i].after, After(c, i))
        BY <1>1, <1>18, <2>2, <4>1 DEF Reverts
      <4>3. After(r, i) = r.undo[i + 1].other
        BY <1>12, <3>2 DEF After
      <4>4. After(c, i) = r.undo[i + 1].other
        <5>1. CASE i = m
          BY <1>4, <1>12, <5>1 DEF After
        <5>2. CASE i # m
          <6>1. i + 1 \in 1..m
            BY <1>2, <4>1, <5>2
          <6>2. r.undo[i + 1] = c.undo[i + 1]
            BY <1>13, <6>1
          <6> QED BY <1>4, <5>2, <6>2 DEF After
        <5> QED BY <5>1, <5>2
      <4> QED BY <4>1, <4>2, <4>3, <4>4
    <3> QED BY <3>1, <3>2
  <2>3. ASSUME NEW i \in DOMAIN r.redo
        PROVE  /\ ~r.redo[i].merged
               /\ Leads(Before(r, i), r.redo[i].after, r.redo[i].other)
    <3>1. /\ i \in 1..(n - 1) /\ r.redo[i] = c.redo[i + 1] /\ i + 1 \in DOMAIN c.redo
          /\ i \in Nat /\ i + 1 # 1
      BY <1>12, <1>14
    <3>2. /\ ~c.redo[i + 1].merged
          /\ Leads(Before(c, i + 1), c.redo[i + 1].after, c.redo[i + 1].other)
      BY <1>1, <1>18, <2>3, <3>1 DEF Reverts
    <3>3. Before(c, i + 1) = c.redo[i].other
      BY <3>1 DEF Before
    <3>4. Before(r, i) = c.redo[i].other
      <4>1. CASE i = 1
        BY <1>4, <2>1, <4>1 DEF Before
      <4>2. CASE i # 1
        <5>1. i - 1 \in 1..(n - 1) /\ (i - 1) + 1 = i
          BY <1>2, <3>1, <4>2
        <5>2. r.redo[i - 1] = c.redo[(i - 1) + 1]
          BY <1>14, <5>1
        <5> QED BY <4>2, <5>1, <5>2 DEF Before
      <4> QED BY <4>1, <4>2
    <3> QED BY <3>1, <3>2, <3>3, <3>4
  <2> QED BY <2>2, <2>3
<1>24. Good(r)
  BY <1>11, <1>21, <1>22, <1>23 DEF Good
<1>25. ASSUME NEW w \in Widgets, Shown(r)[w] # None
       PROVE  Shown(c)[w] # None \/ \E d \in AllDiffs(c) : d.widget = w
  BY <1>6, <1>7, <1>11, <1>15, <1>25
<1> QED BY <1>3, <1>4, <1>6, <1>11, <1>17, <1>20, <1>24, <1>25, CollectedFacts

-----------------------------------------------------------------------------
(* The messages                                                             *)

\* The messages of some kinds, by their places.
At(q, kinds) == {i \in DOMAIN q : q[i].kind \in kinds}

Evs == At(toWorker, {"eval"})
Clears == At(toWorker, {"clear"})
Asked == At(toWorker, {"UNDO", "REDO"})
Trees == At(toMain, {"tree"})
Cleareds == At(toMain, {"cleared"})
Answered == At(toMain, {"nothing", "replayed"})
Replayed == At(toMain, {"replayed"})

\* One evaluation is under way unless the loop is idle.
OneEval ==
    /\ \A i, j \in Evs : i = j
    /\ \A i, j \in Trees : i = j
    /\ Evs = {} \/ Trees = {}
    /\ evals = "idle" <=> Evs = {} /\ Trees = {}

\* One clearing of the cache is under way while a page is fetched.
OneClear ==
    /\ \A i, j \in Clears : i = j
    /\ \A i, j \in Cleareds : i = j
    /\ Clears = {} \/ Cleareds = {}
    /\ fetching = {} <=> Clears = {} /\ Cleareds = {}

\* The evaluation under way is, or will be, followed by another with replay:
\* an answer will find it running.
Overtaken ==
    \/ evals = "buffered"
    \/ Evs # {} /\ Replayed # {}
    \/ \E i \in Trees, j \in Replayed : j < i

\* The layout is that of l, or will be when what was answered is received, but
\* for the widgets that are unseen.
Latest(l) ==
    /\ Replayed = {} => Differing(l, layout) \subseteq unseen
    /\ \A i \in Replayed : (\A j \in Replayed : j <= i) => toMain[i].widgets = l

\* InSync with messages under way: the evaluation is of the layout, and unless
\* it is to be recorded the worker has the latest.
Tracked ==
    ~Overtaken =>
        /\ \A i \in Evs : Differing(toWorker[i].widgets, layout) \subseteq unseen
        /\ (\A i \in Evs : ~toWorker[i].replay) => Latest(Shown(canvas))

\* A replay object with widgets of one page.
OfPage(c, p) ==
    /\ Shown(c) \in LayoutsOf(p)
    /\ \A d \in AllDiffs(c) : PageOf[d.widget] = p

\* OwnLayout with messages under way: all are about the page, and a replay
\* object that is not is replaced before an undo gets to it.
Paged ==
    switch # "strayed" =>
        /\ layout \in LayoutsOf(page)
        /\ \A i \in Evs : toWorker[i].widgets \in LayoutsOf(page)
        /\ \A i \in Replayed : toMain[i].widgets \in LayoutsOf(page)
        /\ OfPage(canvas, page) \/ (~exists /\ \A j \in Asked : \E i \in Evs : i < j)
        /\ switch = "done" <=> fetching = {}
        /\ fetching = {} /\ ~exists => Evs # {}
        /\ \A i \in Clears : i = Len(toWorker)
        /\ Cleareds # {} => /\ ~exists /\ toWorker = <<>>
                            /\ \A i \in Cleareds : i = Len(toMain)

IInv == TypeOK /\ Good(canvas) /\ OneEval /\ OneClear /\ Tracked /\ Paged

LEMMA AtAppend ==
    ASSUME NEW S, NEW q \in Seq(S), NEW x \in S
    PROVE  /\ Append(q, x) \in Seq(S) /\ Len(Append(q, x)) = Len(q) + 1 /\ Len(q) \in Nat
           /\ Append(q, x)[Len(q) + 1] = x
           /\ \A i \in 1..Len(q) : Append(q, x)[i] = q[i]
           /\ \A K : At(q, K) \subseteq 1..Len(q)
           /\ \A K : x.kind \in K => At(Append(q, x), K) = At(q, K) \cup {Len(q) + 1}
           /\ \A K : x.kind \notin K => At(Append(q, x), K) = At(q, K)
<1> DEFINE r == Append(q, x)
<1>1. /\ r \in Seq(S) /\ Len(r) = Len(q) + 1 /\ Len(q) \in Nat /\ r[Len(q) + 1] = x
      /\ \A i \in 1..Len(q) : r[i] = q[i]
      /\ DOMAIN r = 1..(Len(q) + 1) /\ DOMAIN q = 1..Len(q)
  OBVIOUS
<1> HIDE DEF r
<1>2. \A i \in 1..(Len(q) + 1) : i \in 1..Len(q) \/ i = Len(q) + 1
  BY <1>1
<1>3. Len(q) + 1 \notin 1..Len(q) /\ Len(q) + 1 \in 1..(Len(q) + 1) /\ 1..Len(q) \subseteq 1..(Len(q) + 1)
  BY <1>1
<1>4. ASSUME NEW K
      PROVE  /\ At(q, K) \subseteq 1..Len(q)
             /\ x.kind \in K => At(r, K) = At(q, K) \cup {Len(q) + 1}
             /\ x.kind \notin K => At(r, K) = At(q, K)
  <2>1. At(q, K) \subseteq 1..Len(q)
    BY <1>1 DEF At
  <2>2. ASSUME NEW i \in 1..Len(q) PROVE i \in At(r, K) <=> i \in At(q, K)
    BY <1>1, <1>3 DEF At
  <2>3. Len(q) + 1 \in At(r, K) <=> x.kind \in K
    BY <1>1, <1>3 DEF At
  <2>4. At(r, K) \subseteq 1..(Len(q) + 1)
    BY <1>1 DEF At
  <2> QED BY <1>2, <1>3, <2>1, <2>2, <2>3, <2>4
<1> QED BY <1>1, <1>4 DEF r

LEMMA AtTail ==
    ASSUME NEW S, NEW q \in Seq(S), q # <<>>
    PROVE  /\ Tail(q) \in Seq(S) /\ Len(Tail(q)) = Len(q) - 1 /\ Len(q) \in Nat /\ Len(q) >= 1
           /\ Head(q) = q[1] /\ Head(q) \in S
           /\ \A i \in 1..(Len(q) - 1) : Tail(q)[i] = q[i + 1]
           /\ \A K : At(q, K) \subseteq 1..Len(q)
           /\ \A K : 1 \in At(q, K) <=> q[1].kind \in K
           /\ \A K, i : i \in At(Tail(q), K) => i \in 1..(Len(q) - 1) /\ i + 1 \in At(q, K)
           /\ \A K : \A i \in At(q, K) : i # 1 => i - 1 \in At(Tail(q), K)
<1> DEFINE r == Tail(q)
<1>1. /\ r \in Seq(S) /\ Len(r) = Len(q) - 1 /\ Len(q) \in Nat /\ Len(q) >= 1
      /\ \A i \in 1..(Len(q) - 1) : r[i] = q[i + 1]
      /\ DOMAIN r = 1..(Len(q) - 1) /\ DOMAIN q = 1..Len(q) /\ Head(q) = q[1] /\ q[1] \in S
  OBVIOUS
<1> HIDE DEF r
<1>2. ASSUME NEW K
      PROVE  /\ At(q, K) \subseteq 1..Len(q)
             /\ 1 \in At(q, K) <=> q[1].kind \in K
    BY <1>1 DEF At
<1>3. ASSUME NEW K, NEW i \in At(r, K)
      PROVE  i \in 1..(Len(q) - 1) /\ i + 1 \in At(q, K)
  <2>1. i \in 1..(Len(q) - 1) /\ r[i].kind \in K
    BY <1>1 DEF At
  <2>2. i + 1 \in 1..Len(q) /\ r[i] = q[i + 1]
    BY <1>1, <2>1
  <2> QED BY <1>1, <2>1, <2>2 DEF At
<1>4. ASSUME NEW K, NEW i \in At(q, K), i # 1
      PROVE  i - 1 \in At(r, K)
  <2>1. i \in 1..Len(q) /\ q[i].kind \in K
    BY <1>1 DEF At
  <2>2. i - 1 \in 1..(Len(q) - 1) /\ (i - 1) + 1 = i
    BY <1>1, <1>4, <2>1
  <2>3. r[i - 1] = q[i]
    BY <1>1, <2>2
  <2> QED BY <1>1, <2>1, <2>2, <2>3 DEF At
<1> QED BY <1>1, <1>2, <1>3, <1>4 DEF r

LEMMA NoneReplaying ==
    ASSUME TypeOK
    PROVE  Replaying \in Nat /\ (Replaying = 0 <=> Asked = {} /\ Answered = {})
<1> DEFINE m == Len(toWorker)
           n == Len(toMain)
<1>1. m \in Nat /\ n \in Nat /\ DOMAIN toWorker = 1..m /\ DOMAIN toMain = 1..n
  BY DEF TypeOK
<1>2. Asked \in SUBSET (1..m) /\ Answered \in SUBSET (1..n)
  BY <1>1 DEF Asked, Answered, At
<1> HIDE DEF m, n
<1>3. IsFiniteSet(Asked) /\ IsFiniteSet(Answered)
  <2>1. IsFiniteSet(1..m) /\ IsFiniteSet(1..n)
    BY <1>1, FS_Interval
  <2> QED BY <1>2, <2>1, FS_Subset
<1>4. /\ Cardinality(Asked) \in Nat /\ Cardinality(Answered) \in Nat
      /\ Cardinality(Asked) = 0 <=> Asked = {}
      /\ Cardinality(Answered) = 0 <=> Answered = {}
  BY <1>3, FS_CardinalityType, FS_EmptySet
<1>5. Replaying = Cardinality(Asked) + Cardinality(Answered)
  BY DEF Replaying, Asked, Answered, At
<1> QED BY <1>4, <1>5

LEMMA MessageFacts ==
    /\ \A l \in Layouts : \A b \in BOOLEAN :
          LET m == [kind |-> "eval", widgets |-> l, replay |-> b]
          IN  m \in Requests /\ m.kind = "eval" /\ m.widgets = l /\ m.replay = b
    /\ \A k \in {"UNDO", "REDO", "clear"} : LET m == [kind |-> k] IN m \in Requests /\ m.kind = k
    /\ \A k \in {"tree", "cleared", "nothing"} : LET m == [kind |-> k] IN m \in Replies /\ m.kind = k
    /\ \A l \in Layouts : LET m == [kind |-> "replayed", widgets |-> l]
                          IN  m \in Replies /\ m.kind = "replayed" /\ m.widgets = l
    /\ \A m \in Requests : m.kind \in {"eval", "UNDO", "REDO", "clear"}
    /\ \A m \in Requests : m.kind = "eval" => m.widgets \in Layouts /\ m.replay \in BOOLEAN
    /\ \A m \in Replies : m.kind \in {"tree", "cleared", "nothing", "replayed"}
    /\ \A m \in Replies : m.kind = "replayed" => m.widgets \in Layouts
BY DEF Requests, Replies

LEMMA PageLayouts == \A p \in Pages : LayoutsOf(p) \subseteq Layouts
BY DEF LayoutsOf

-----------------------------------------------------------------------------
(* Types and the replay object                                              *)

LEMMA PostTyped ==
    ASSUME TypeOK, NEW l \in Layouts, NEW replay \in BOOLEAN, Posted
    PROVE  /\ Post(l, replay) \in Seq(Requests)
           /\ switch' \in {"done", "running", "strayed"}
<1>1. [kind |-> "eval", widgets |-> l, replay |-> replay] \in Requests
  BY MessageFacts
<1>2. Post(l, replay) \in Seq(Requests)
  BY <1>1 DEF Post, TypeOK
<1>3. switch' \in {"done", "running", "strayed"}
  BY DEF Posted, TypeOK
<1> QED BY <1>2, <1>3

LEMMA EvaluateTyped ==
    ASSUME TypeOK, NEW l \in Layouts, NEW replay \in BOOLEAN, NEW W \in SUBSET Widgets,
           Evaluate(l, replay, W)
    PROVE  /\ toWorker' \in Seq(Requests) /\ evals' \in {"idle", "running", "buffered"}
           /\ unseen' \in SUBSET Widgets /\ switch' \in {"done", "running", "strayed"}
<1>1. CASE evals = "idle"
  BY <1>1, PostTyped DEF Evaluate
<1>2. CASE evals # "idle"
  BY <1>2 DEF Evaluate, TypeOK
<1> QED BY <1>1, <1>2

\* What is received.
LEMMA ReceiveTyped ==
    ASSUME TypeOK, NEW kind, Receive(kind)
    PROVE  /\ toMain' \in Seq(Replies) /\ Head(toMain) \in Replies /\ Head(toMain).kind = kind
           /\ UNCHANGED <<exists, canvas>>
BY AtTail DEF Receive, TypeOK

\* What the layout step makes of an answer.
LEMMA ReplayedTyped ==
    ASSUME TypeOK, ReceiveReplayed
    PROVE  /\ toMain' \in Seq(Replies) /\ UNCHANGED <<exists, canvas>>
           /\ Head(toMain).widgets \in Layouts /\ layout' \in Layouts
           /\ \A w \in Widgets : Head(toMain).widgets[w] = None => layout'[w] = None
           /\ edits' \in 0..MaxEdits
<1>1. /\ toMain' \in Seq(Replies) /\ UNCHANGED <<exists, canvas>>
      /\ Head(toMain).widgets \in Layouts
  BY ReceiveTyped, MessageFacts DEF ReceiveReplayed
<1>2. layout' = Head(toMain).widgets \/ layout' \in Adjusted(Head(toMain).widgets)
  BY DEF ReceiveReplayed
<1>3. edits' = edits \/ (edits < MaxEdits /\ edits' = edits + 1)
  BY DEF ReceiveReplayed
<1>4. edits' \in 0..MaxEdits
  BY <1>3, ReplayAssumption DEF TypeOK
<1> QED BY <1>1, <1>2, <1>4 DEF Adjusted

LEMMA TakeTyped ==
    ASSUME TypeOK, NEW kind, Take(kind)
    PROVE  /\ toWorker' \in Seq(Requests) /\ Request \in Requests /\ Request.kind = kind
           /\ UNCHANGED <<page, fetching, layout, edits, evals, unseen, switch>>
BY AtTail DEF Take, Request, TypeOK

\* What the worker does with its replay object.
LEMMA EvalTreeCanvas ==
    ASSUME TypeOK, Good(canvas), NEW quick \in BOOLEAN, EvalTree(quick)
    PROVE  /\ Request.widgets \in Layouts /\ Request.replay \in BOOLEAN
           /\ Good(canvas')
           /\ ~exists \/ Request.replay => Shown(canvas') = Request.widgets
           /\ exists /\ ~Request.replay => canvas' = canvas
           /\ ~exists => AllDiffs(canvas') = {}
           /\ \A d \in AllDiffs(canvas') :
                 \/ d \in AllDiffs(canvas)
                 \/ Shown(canvas)[d.widget] # None \/ Request.widgets[d.widget] # None
<1>1. Request.widgets \in Layouts /\ Request.replay \in BOOLEAN
  BY TakeTyped, MessageFacts DEF EvalTree
<1>2. CASE ~exists
  <2>1. canvas' = NewCanvas(Request.widgets)
    BY <1>2 DEF EvalTree
  <2> QED BY <1>1, <1>2, <2>1, NewCanvasGood
<1>3. CASE exists /\ Request.replay
  <2>1. /\ canvas' = Update(canvas, Request.widgets, quick)
        /\ Room(canvas) /\ (quick => CanMerge(canvas))
    BY <1>3 DEF EvalTree
  <2> QED BY <1>1, <1>3, <2>1, UpdateGood
<1>4. CASE exists /\ ~Request.replay
  BY <1>1, <1>4 DEF EvalTree
<1> QED BY <1>1, <1>2, <1>3, <1>4

LEMMA UndoCanvas ==
    ASSUME TypeOK, Good(canvas), UndoAsked
    PROVE  /\ Good(canvas') /\ AllDiffs(canvas') \subseteq AllDiffs(canvas)
           /\ \A w \in Widgets : Shown(canvas')[w] # None =>
                  Shown(canvas)[w] # None \/ \E d \in AllDiffs(canvas) : d.widget = w
           /\ canvas.undo # <<>> /\ canvas'.torn = {} =>
                  Shown(canvas') = canvas.undo[Len(canvas.undo)].other
           /\ \/ canvas' = canvas /\ toMain' = Append(toMain, [kind |-> "nothing"])
              \/ toMain' = Append(toMain, [kind |-> "replayed", widgets |-> Shown(canvas')])
<1>1. CASE canvas.undo = <<>>
  BY <1>1 DEF UndoAsked
<1>2. CASE canvas.undo # <<>>
  <2>1. /\ canvas' = Collected(Undo(canvas)) /\ Room(canvas)
        /\ toMain' = Append(toMain, [kind |-> "replayed", widgets |-> Shown(canvas')])
    BY <1>2 DEF UndoAsked, Answer
  <2> QED BY <1>2, <2>1, UndoGood
<1> QED BY <1>1, <1>2

LEMMA RedoCanvas ==
    ASSUME TypeOK, Good(canvas), RedoAsked
    PROVE  /\ Good(canvas') /\ AllDiffs(canvas') \subseteq AllDiffs(canvas)
           /\ \A w \in Widgets : Shown(canvas')[w] # None =>
                  Shown(canvas)[w] # None \/ \E d \in AllDiffs(canvas) : d.widget = w
           /\ canvas.redo # <<>> /\ canvas'.torn = {} =>
                  Shown(canvas') = canvas.redo[1].other
           /\ \/ canvas' = canvas /\ toMain' = Append(toMain, [kind |-> "nothing"])
              \/ toMain' = Append(toMain, [kind |-> "replayed", widgets |-> Shown(canvas')])
<1>1. CASE canvas.redo = <<>>
  BY <1>1 DEF RedoAsked
<1>2. CASE canvas.redo # <<>>
  <2>1. /\ canvas' = Collected(Redo(canvas)) /\ Room(canvas)
        /\ toMain' = Append(toMain, [kind |-> "replayed", widgets |-> Shown(canvas')])
    BY <1>2 DEF RedoAsked, Answer
  <2> QED BY <1>2, <2>1, RedoGood
<1> QED BY <1>1, <1>2

LEMMA GoodTyped ==
    ASSUME NEW c, Good(c)
    PROVE  c \in Canvas /\ Shown(c) \in Layouts
BY CanvasFacts, ShownFacts DEF Good

LEMMA TypeStep ==
    ASSUME TypeOK, Good(canvas), [Next]_vars
    PROVE  TypeOK' /\ Good(canvas')
<1>1. ASSUME NEW l \in Layouts, NEW replay \in BOOLEAN, Edit(l, replay)
      PROVE  TypeOK' /\ Good(canvas')
  <2>1. Evaluate(l, replay, unseen \cup Differing(l, layout))
    BY <1>1 DEF Edit
  <2>2. /\ toWorker' \in Seq(Requests) /\ evals' \in {"idle", "running", "buffered"}
        /\ unseen' \in SUBSET Widgets /\ switch' \in {"done", "running", "strayed"}
    <3>1. (unseen \cup Differing(l, layout)) \in SUBSET Widgets
      BY DEF Differing, TypeOK
    <3> QED BY <2>1, <3>1, EvaluateTyped
  <2>3. edits' \in 0..MaxEdits
    BY <1>1, ReplayAssumption DEF Edit, EditTo, TypeOK
  <2> QED BY <1>1, <2>2, <2>3 DEF Edit, EditTo, TypeOK
<1>2. ASSUME NEW kind, AskReplay(kind) PROVE TypeOK' /\ Good(canvas')
  <2>1. kind \in {"UNDO", "REDO"} /\ [kind |-> kind] \in Requests
    BY <1>2, MessageFacts DEF AskReplay
  <2> QED BY <1>2, <2>1 DEF AskReplay, TypeOK
<1>3. ASSUME NEW p \in Pages, FetchPage(p) PROVE TypeOK' /\ Good(canvas')
  <2>1. [kind |-> "clear"] \in Requests
    BY MessageFacts
  <2>2. edits' \in 0..MaxEdits
    BY <1>3, ReplayAssumption DEF FetchPage, TypeOK
  <2> QED BY <1>3, <2>1, <2>2 DEF FetchPage, TypeOK
<1>4. CASE ReceiveCleared
  <2>1. page' \in Pages /\ layout' \in Layouts /\ Evaluate(layout', TRUE, unseen)
    BY <1>4, PageLayouts DEF ReceiveCleared, TypeOK
  <2>2. /\ toWorker' \in Seq(Requests) /\ evals' \in {"idle", "running", "buffered"}
        /\ unseen' \in SUBSET Widgets /\ switch' \in {"done", "running", "strayed"}
    BY <2>1, EvaluateTyped DEF TypeOK
  <2>3. toMain' \in Seq(Replies) /\ UNCHANGED <<exists, canvas>>
    BY <1>4, ReceiveTyped DEF ReceiveCleared
  <2> QED BY <1>4, <2>1, <2>2, <2>3 DEF ReceiveCleared, TypeOK
<1>5. CASE ReceiveReplayed
  <2>1. /\ toMain' \in Seq(Replies) /\ UNCHANGED <<exists, canvas>> /\ layout' \in Layouts
        /\ edits' \in 0..MaxEdits
    BY <1>5, ReplayedTyped
  <2>2. /\ toWorker' \in Seq(Requests) /\ evals' \in {"idle", "running", "buffered"}
        /\ unseen' \in SUBSET Widgets /\ switch' \in {"done", "running", "strayed"}
    <3>1. Differing(layout', Head(toMain).widgets) \in SUBSET Widgets
      BY DEF Differing
    <3> QED BY <1>5, <2>1, <3>1, EvaluateTyped DEF ReceiveReplayed
  <2> QED BY <1>5, <2>1, <2>2 DEF ReceiveReplayed, TypeOK
<1>6. CASE ReceiveNothing
  <2>1. toMain' \in Seq(Replies) /\ UNCHANGED <<exists, canvas>>
    BY <1>6, ReceiveTyped DEF ReceiveNothing
  <2> QED BY <1>6, <2>1 DEF ReceiveNothing, TypeOK
<1>7. CASE ReceiveTree
  <2>1. toMain' \in Seq(Replies) /\ UNCHANGED <<exists, canvas>>
    BY <1>7, ReceiveTyped DEF ReceiveTree
  <2>2. /\ toWorker' \in Seq(Requests) /\ evals' \in {"idle", "running", "buffered"}
        /\ unseen' \in SUBSET Widgets /\ switch' \in {"done", "running", "strayed"}
    <3>1. CASE evals = "buffered"
      <4>1. layout \in Layouts /\ Posted /\ toWorker' = Post(layout, TRUE) /\ evals' = "running"
            /\ unseen' = {}
        BY <1>7, <3>1 DEF ReceiveTree, TypeOK
      <4> QED BY <4>1, PostTyped
    <3>2. CASE evals # "buffered"
      BY <1>7, <3>2 DEF ReceiveTree, TypeOK
    <3> QED BY <3>1, <3>2
  <2> QED BY <1>7, <2>1, <2>2 DEF ReceiveTree, TypeOK
<1>8. ASSUME NEW quick \in BOOLEAN, EvalTree(quick) PROVE TypeOK' /\ Good(canvas')
  <2>1. Good(canvas') /\ canvas' \in Canvas
    BY <1>8, EvalTreeCanvas, GoodTyped
  <2>2. /\ toWorker' \in Seq(Requests)
        /\ UNCHANGED <<page, fetching, layout, edits, evals, unseen, switch>>
    BY <1>8, TakeTyped DEF EvalTree
  <2>3. toMain' \in Seq(Replies) /\ exists' = TRUE
    <3>1. [kind |-> "tree"] \in Replies
      BY MessageFacts
    <3> QED BY <1>8, <3>1 DEF EvalTree, TypeOK
  <2> QED BY <2>1, <2>2, <2>3 DEF TypeOK
<1>9. CASE UndoAsked
  <2>1. Good(canvas') /\ canvas' \in Canvas /\ Shown(canvas') \in Layouts
    BY <1>9, UndoCanvas, GoodTyped
  <2>2. /\ toWorker' \in Seq(Requests) /\ exists' = exists
        /\ UNCHANGED <<page, fetching, layout, edits, evals, unseen, switch>>
    BY <1>9, TakeTyped DEF UndoAsked
  <2>3. \E m \in Replies : toMain' = Append(toMain, m)
    BY <1>9, <2>1, UndoCanvas, MessageFacts
  <2> QED BY <2>1, <2>2, <2>3 DEF TypeOK
<1>10. CASE RedoAsked
  <2>1. Good(canvas') /\ canvas' \in Canvas /\ Shown(canvas') \in Layouts
    BY <1>10, RedoCanvas, GoodTyped
  <2>2. /\ toWorker' \in Seq(Requests) /\ exists' = exists
        /\ UNCHANGED <<page, fetching, layout, edits, evals, unseen, switch>>
    BY <1>10, TakeTyped DEF RedoAsked
  <2>3. \E m \in Replies : toMain' = Append(toMain, m)
    BY <1>10, <2>1, RedoCanvas, MessageFacts
  <2> QED BY <2>1, <2>2, <2>3 DEF TypeOK
<1>11. CASE ClearCache
  <2>1. /\ toWorker' \in Seq(Requests)
        /\ UNCHANGED <<page, fetching, layout, edits, evals, unseen, switch>>
    BY <1>11, TakeTyped DEF ClearCache
  <2>2. toMain' \in Seq(Replies) /\ exists' = FALSE /\ canvas' = canvas
    <3>1. [kind |-> "cleared"] \in Replies
      BY MessageFacts
    <3> QED BY <1>11, <3>1 DEF ClearCache, TypeOK
  <2> QED BY <2>1, <2>2 DEF TypeOK
<1>12. CASE UNCHANGED vars
  BY <1>12 DEF vars, TypeOK
<1>13. ASSUME NEW l \in Layouts, Resize(l) PROVE TypeOK' /\ Good(canvas')
  <2>1. edits' \in 0..MaxEdits
    BY <1>13, ReplayAssumption DEF Resize, EditTo, TypeOK
  <2>2. unseen' \in SUBSET Widgets
    BY <1>13 DEF Resize, Differing, TypeOK
  <2> QED BY <1>13, <2>1, <2>2 DEF Resize, EditTo, TypeOK
<1> QED BY <1>1, <1>2, <1>3, <1>4, <1>5, <1>6, <1>7, <1>8, <1>9, <1>10, <1>11, <1>12, <1>13 DEF Next

-----------------------------------------------------------------------------
(* The queues                                                               *)

\* The places of messages after the first was taken.
Shifted(new, old) ==
    /\ \A i \in new : i \in Nat /\ i >= 1 /\ i + 1 \in old
    /\ \A i \in old : i # 1 => i - 1 \in new

LEMMA Places ==
    ASSUME TypeOK
    PROVE  /\ Len(toWorker) \in Nat /\ Len(toMain) \in Nat
           /\ toWorker = <<>> <=> Len(toWorker) = 0
           /\ Evs \subseteq 1..Len(toWorker) /\ Clears \subseteq 1..Len(toWorker)
           /\ Asked \subseteq 1..Len(toWorker) /\ Trees \subseteq 1..Len(toMain)
           /\ Cleareds \subseteq 1..Len(toMain) /\ Answered \subseteq 1..Len(toMain)
           /\ Replayed \subseteq Answered /\ Replayed \subseteq 1..Len(toMain)
           /\ \A i \in Evs : /\ toWorker[i] \in Requests
                             /\ toWorker[i].widgets \in Layouts /\ toWorker[i].replay \in BOOLEAN
<1>1. /\ Len(toWorker) \in Nat /\ DOMAIN toWorker = 1..Len(toWorker)
      /\ Len(toMain) \in Nat /\ DOMAIN toMain = 1..Len(toMain)
      /\ toWorker = <<>> <=> Len(toWorker) = 0
      /\ \A i \in 1..Len(toWorker) : toWorker[i] \in Requests
  BY DEF TypeOK
<1>2. \A i \in Evs : i \in 1..Len(toWorker) /\ toWorker[i].kind = "eval"
  BY <1>1 DEF Evs, At
<1>3. /\ Clears \subseteq 1..Len(toWorker)
      /\ Asked \subseteq 1..Len(toWorker) /\ Trees \subseteq 1..Len(toMain)
      /\ Cleareds \subseteq 1..Len(toMain) /\ Answered \subseteq 1..Len(toMain)
      /\ Replayed \subseteq Answered /\ Replayed \subseteq 1..Len(toMain)
  BY <1>1 DEF Clears, Asked, Trees, Cleareds, Answered, Replayed, At
<1> QED BY <1>1, <1>2, <1>3, MessageFacts

\* A message is sent.
LEMMA Sent ==
    ASSUME TypeOK, NEW m \in Requests, toWorker' = Append(toWorker, m)
    PROVE  LET n == Len(toWorker) + 1
           IN  /\ Len(toWorker') = n /\ n \in Nat /\ toWorker'[n] = m /\ toWorker' # <<>>
               /\ \A i \in 1..Len(toWorker) : toWorker'[i] = toWorker[i]
               /\ m.kind = "eval" =>
                     Evs' = Evs \cup {n} /\ Clears' = Clears /\ Asked' = Asked
               /\ m.kind = "clear" =>
                     Evs' = Evs /\ Clears' = Clears \cup {n} /\ Asked' = Asked
               /\ m.kind \in {"UNDO", "REDO"} =>
                     Evs' = Evs /\ Clears' = Clears /\ Asked' = Asked \cup {n}
<1> DEFINE n == Len(toWorker) + 1
<1>1. toWorker \in Seq(Requests)
  BY DEF TypeOK
<1>2. /\ Len(toWorker') = n /\ n \in Nat /\ toWorker'[n] = m /\ toWorker' # <<>>
      /\ \A i \in 1..Len(toWorker) : toWorker'[i] = toWorker[i]
  BY <1>1
<1>3. /\ \A K : m.kind \in K => At(toWorker', K) = At(toWorker, K) \cup {n}
      /\ \A K : m.kind \notin K => At(toWorker', K) = At(toWorker, K)
  BY <1>1, AtAppend
<1> HIDE DEF n
<1>4. /\ m.kind = "eval" => Evs' = Evs \cup {n} /\ Clears' = Clears /\ Asked' = Asked
      /\ m.kind = "clear" => Evs' = Evs /\ Clears' = Clears \cup {n} /\ Asked' = Asked
  BY <1>3 DEF Evs, Clears, Asked
<1>5. m.kind \in {"UNDO", "REDO"} => Evs' = Evs /\ Clears' = Clears /\ Asked' = Asked \cup {n}
  BY <1>3 DEF Evs, Clears, Asked
<1> QED BY <1>2, <1>4, <1>5 DEF n

\* An answer is sent.
LEMMA Answers ==
    ASSUME TypeOK, NEW m \in Replies, toMain' = Append(toMain, m)
    PROVE  LET n == Len(toMain) + 1
           IN  /\ Len(toMain') = n /\ n \in Nat /\ toMain'[n] = m
               /\ \A i \in 1..Len(toMain) : toMain'[i] = toMain[i]
               /\ m.kind = "tree" =>
                     /\ Trees' = Trees \cup {n} /\ Cleareds' = Cleareds
                     /\ Answered' = Answered /\ Replayed' = Replayed
               /\ m.kind = "cleared" =>
                     /\ Trees' = Trees /\ Cleareds' = Cleareds \cup {n}
                     /\ Answered' = Answered /\ Replayed' = Replayed
               /\ m.kind = "nothing" =>
                     /\ Trees' = Trees /\ Cleareds' = Cleareds
                     /\ Answered' = Answered \cup {n} /\ Replayed' = Replayed
               /\ m.kind = "replayed" =>
                     /\ Trees' = Trees /\ Cleareds' = Cleareds
                     /\ Answered' = Answered \cup {n} /\ Replayed' = Replayed \cup {n}
<1> DEFINE n == Len(toMain) + 1
<1>1. toMain \in Seq(Replies)
  BY DEF TypeOK
<1>2. /\ Len(toMain') = n /\ n \in Nat /\ toMain'[n] = m
      /\ \A i \in 1..Len(toMain) : toMain'[i] = toMain[i]
  BY <1>1
<1>3. /\ \A K : m.kind \in K => At(toMain', K) = At(toMain, K) \cup {n}
      /\ \A K : m.kind \notin K => At(toMain', K) = At(toMain, K)
  BY <1>1, AtAppend
<1> HIDE DEF n
<1>4. /\ m.kind = "tree" => Trees' = Trees \cup {n} /\ Cleareds' = Cleareds
                            /\ Answered' = Answered /\ Replayed' = Replayed
      /\ m.kind = "cleared" => Trees' = Trees /\ Cleareds' = Cleareds \cup {n}
                               /\ Answered' = Answered /\ Replayed' = Replayed
  BY <1>3 DEF Trees, Cleareds, Answered, Replayed
<1>5. /\ m.kind = "nothing" => Trees' = Trees /\ Cleareds' = Cleareds
                               /\ Answered' = Answered \cup {n} /\ Replayed' = Replayed
      /\ m.kind = "replayed" => Trees' = Trees /\ Cleareds' = Cleareds
                                /\ Answered' = Answered \cup {n} /\ Replayed' = Replayed \cup {n}
  BY <1>3 DEF Trees, Cleareds, Answered, Replayed
<1> QED BY <1>2, <1>4, <1>5 DEF n

\* A message is taken.
LEMMA Taken ==
    ASSUME TypeOK, NEW kind, Take(kind)
    PROVE  /\ kind \in {"eval", "UNDO", "REDO", "clear"}
           /\ Len(toWorker) >= 1 /\ Len(toWorker') = Len(toWorker) - 1 /\ Request = toWorker[1]
           /\ \A i \in 1..(Len(toWorker) - 1) : toWorker'[i] = toWorker[i + 1]
           /\ Shifted(Evs', Evs) /\ Shifted(Clears', Clears) /\ Shifted(Asked', Asked)
           /\ 1 \in Evs <=> kind = "eval"
           /\ 1 \in Clears <=> kind = "clear"
           /\ 1 \in Asked <=> kind \in {"UNDO", "REDO"}
<1>1. /\ toWorker \in Seq(Requests) /\ toWorker # <<>> /\ toWorker' = Tail(toWorker)
      /\ Request.kind = kind
  BY DEF Take, TypeOK
<1>2. /\ Len(toWorker') = Len(toWorker) - 1 /\ Len(toWorker) \in Nat /\ Len(toWorker) >= 1
      /\ Request = toWorker[1] /\ Request \in Requests
      /\ \A i \in 1..(Len(toWorker) - 1) : toWorker'[i] = toWorker[i + 1]
      /\ \A K : 1 \in At(toWorker, K) <=> toWorker[1].kind \in K
  BY <1>1, AtTail DEF Request
<1>3. \A K : Shifted(At(toWorker', K), At(toWorker, K))
  <2> TAKE K
  <2>1. /\ \A i : i \in At(toWorker', K) =>
              i \in 1..(Len(toWorker) - 1) /\ i + 1 \in At(toWorker, K)
        /\ \A i \in At(toWorker, K) : i # 1 => i - 1 \in At(toWorker', K)
    BY <1>1, AtTail
  <2> QED BY <1>2, <2>1 DEF Shifted
<1>4. kind \in {"eval", "UNDO", "REDO", "clear"}
  BY <1>1, <1>2, MessageFacts
<1>5. /\ 1 \in Evs <=> kind = "eval"
      /\ 1 \in Clears <=> kind = "clear"
      /\ 1 \in Asked <=> kind \in {"UNDO", "REDO"}
  BY <1>1, <1>2 DEF Evs, Clears, Asked
<1>6. Shifted(Evs', Evs) /\ Shifted(Clears', Clears) /\ Shifted(Asked', Asked)
  BY <1>3 DEF Evs, Clears, Asked
<1> QED BY <1>2, <1>4, <1>5, <1>6

\* An answer is received.
LEMMA Received ==
    ASSUME TypeOK, NEW kind, Receive(kind)
    PROVE  /\ kind \in {"tree", "cleared", "nothing", "replayed"}
           /\ Len(toMain) >= 1 /\ Len(toMain') = Len(toMain) - 1 /\ Head(toMain) = toMain[1]
           /\ \A i \in 1..(Len(toMain) - 1) : toMain'[i] = toMain[i + 1]
           /\ Shifted(Trees', Trees) /\ Shifted(Cleareds', Cleareds)
           /\ Shifted(Answered', Answered) /\ Shifted(Replayed', Replayed)
           /\ 1 \in Trees <=> kind = "tree"
           /\ 1 \in Cleareds <=> kind = "cleared"
           /\ 1 \in Answered <=> kind \in {"nothing", "replayed"}
           /\ 1 \in Replayed <=> kind = "replayed"
<1>1. /\ toMain \in Seq(Replies) /\ toMain # <<>> /\ toMain' = Tail(toMain)
      /\ Head(toMain).kind = kind
  BY DEF Receive, TypeOK
<1>2. /\ Len(toMain') = Len(toMain) - 1 /\ Len(toMain) \in Nat /\ Len(toMain) >= 1
      /\ Head(toMain) = toMain[1] /\ Head(toMain) \in Replies
      /\ \A i \in 1..(Len(toMain) - 1) : toMain'[i] = toMain[i + 1]
      /\ \A K : 1 \in At(toMain, K) <=> toMain[1].kind \in K
  BY <1>1, AtTail
<1>3. \A K : Shifted(At(toMain', K), At(toMain, K))
  <2> TAKE K
  <2>1. /\ \A i : i \in At(toMain', K) =>
              i \in 1..(Len(toMain) - 1) /\ i + 1 \in At(toMain, K)
        /\ \A i \in At(toMain, K) : i # 1 => i - 1 \in At(toMain', K)
    BY <1>1, AtTail
  <2> QED BY <1>2, <2>1 DEF Shifted
<1>4. kind \in {"tree", "cleared", "nothing", "replayed"}
  BY <1>1, <1>2, MessageFacts
<1>5. /\ 1 \in Trees <=> kind = "tree"
      /\ 1 \in Cleareds <=> kind = "cleared"
      /\ 1 \in Answered <=> kind \in {"nothing", "replayed"}
      /\ 1 \in Replayed <=> kind = "replayed"
  BY <1>1, <1>2 DEF Trees, Cleareds, Answered, Replayed
<1>6. /\ Shifted(Trees', Trees) /\ Shifted(Cleareds', Cleareds)
      /\ Shifted(Answered', Answered) /\ Shifted(Replayed', Replayed)
  BY <1>3 DEF Trees, Cleareds, Answered, Replayed
<1> QED BY <1>2, <1>4, <1>5, <1>6

\* A queue that stays.
LEMMA Still ==
    /\ toWorker' = toWorker => Evs' = Evs /\ Clears' = Clears /\ Asked' = Asked
    /\ toMain' = toMain =>
           /\ Trees' = Trees /\ Cleareds' = Cleareds
           /\ Answered' = Answered /\ Replayed' = Replayed
BY DEF Evs, Clears, Asked, Trees, Cleareds, Answered, Replayed

\* An evaluation is requested, or not as one is under way.
LEMMA EvaluateSends ==
    ASSUME TypeOK, NEW l \in Layouts, NEW replay \in BOOLEAN, NEW W, Evaluate(l, replay, W)
    PROVE  LET n == Len(toWorker) + 1
           IN  /\ Clears' = Clears /\ Asked' = Asked
               /\ evals # "idle" => /\ evals' = "buffered" /\ Evs' = Evs
                                    /\ UNCHANGED <<toWorker, switch>>
               /\ evals = "idle" => /\ evals' = "running" /\ Evs' = Evs \cup {n}
                                    /\ Len(toWorker') = n /\ n \in Nat
                                    /\ \A i \in 1..Len(toWorker) : toWorker'[i] = toWorker[i]
                                    /\ toWorker'[n].widgets = l /\ toWorker'[n].replay = replay
                                    /\ unseen' = IF replay THEN {} ELSE W
                                    /\ Posted
<1>1. CASE evals = "idle"
  <2> DEFINE m == [kind |-> "eval", widgets |-> l, replay |-> replay]
  <2>1. m \in Requests /\ m.kind = "eval" /\ m.widgets = l /\ m.replay = replay
    BY MessageFacts
  <2>2. toWorker' = Append(toWorker, m) /\ evals' = "running" /\ Posted
          /\ unseen' = IF replay THEN {} ELSE W
    BY <1>1 DEF Evaluate, Post
  <2> HIDE DEF m
  <2> QED BY <1>1, <2>1, <2>2, Sent
<1>2. CASE evals # "idle"
  BY <1>2, Still DEF Evaluate
<1> QED BY <1>1, <1>2

LEMMA TreeSends ==
    ASSUME TypeOK, ReceiveTree, evals = "buffered"
    PROVE  LET n == Len(toWorker) + 1
           IN  /\ Clears' = Clears /\ Asked' = Asked
               /\ evals' = "running" /\ Evs' = Evs \cup {n}
               /\ Len(toWorker') = n /\ n \in Nat
               /\ \A i \in 1..Len(toWorker) : toWorker'[i] = toWorker[i]
               /\ toWorker'[n].widgets = layout /\ toWorker'[n].replay = TRUE
               /\ Posted
<1> DEFINE m == [kind |-> "eval", widgets |-> layout, replay |-> TRUE]
<1>1. m \in Requests /\ m.kind = "eval" /\ m.widgets = layout /\ m.replay = TRUE
  BY MessageFacts DEF TypeOK
<1>2. toWorker' = Append(toWorker, m) /\ evals' = "running" /\ Posted
  BY DEF ReceiveTree, Post
<1> HIDE DEF m
<1> QED BY <1>1, <1>2, Sent

\* One evaluation is under way.
LEMMA OneEvalStep ==
    ASSUME TypeOK, Good(canvas), OneEval, [Next]_vars
    PROVE  OneEval'
<1> USE DEF OneEval
<1>1. ASSUME NEW l \in Layouts, NEW replay \in BOOLEAN, Edit(l, replay) PROVE OneEval'
  <2>1. Evaluate(l, replay, unseen \cup Differing(l, layout)) /\ toMain' = toMain
    BY <1>1 DEF Edit, EditTo
  <2> QED BY <2>1, EvaluateSends, Still, Places
<1>2. ASSUME NEW kind, AskReplay(kind) PROVE OneEval'
  <2>1. /\ [kind |-> kind] \in Requests /\ toWorker' = Append(toWorker, [kind |-> kind])
        /\ kind \in {"UNDO", "REDO"} /\ toMain' = toMain /\ evals' = evals
    BY <1>2, MessageFacts DEF AskReplay
  <2>2. Evs' = Evs
    BY <2>1, Sent
  <2> QED BY <2>1, <2>2, Still
<1>3. ASSUME NEW p \in Pages, FetchPage(p) PROVE OneEval'
  <2>1. /\ [kind |-> "clear"] \in Requests /\ toWorker' = Append(toWorker, [kind |-> "clear"])
        /\ toMain' = toMain /\ evals' = evals
    BY <1>3, MessageFacts DEF FetchPage
  <2>2. Evs' = Evs
    BY <2>1, Sent
  <2> QED BY <2>1, <2>2, Still
<1>4. CASE ReceiveCleared
  <2>1. layout' \in Layouts /\ Evaluate(layout', TRUE, unseen) /\ Receive("cleared")
    BY <1>4, PageLayouts DEF ReceiveCleared, TypeOK
  <2>2. Shifted(Trees', Trees) /\ 1 \notin Trees
    BY <2>1, Received
  <2>3. (\A i, j \in Trees' : i = j) /\ (Trees' = {} <=> Trees = {})
    BY <2>2, Places DEF Shifted
  <2>4. /\ Clears' = Clears
        /\ evals # "idle" => evals' = "buffered" /\ Evs' = Evs
        /\ evals = "idle" => evals' = "running" /\ Evs' = Evs \cup {Len(toWorker) + 1}
    BY <2>1, EvaluateSends
  <2> QED BY <2>1, <2>3, <2>4
<1>5. CASE ReceiveReplayed
  <2>1. layout' \in Layouts /\ Evaluate(layout', FALSE, Differing(layout', Head(toMain).widgets)) /\ Receive("replayed")
    BY <1>5, ReplayedTyped DEF ReceiveReplayed
  <2>2. Shifted(Trees', Trees) /\ 1 \notin Trees
    BY <2>1, Received
  <2>3. (\A i, j \in Trees' : i = j) /\ (Trees' = {} <=> Trees = {})
    BY <2>2, Places DEF Shifted
  <2>4. /\ Clears' = Clears
        /\ evals # "idle" => evals' = "buffered" /\ Evs' = Evs
        /\ evals = "idle" => evals' = "running" /\ Evs' = Evs \cup {Len(toWorker) + 1}
    BY <2>1, EvaluateSends
  <2> QED BY <2>1, <2>3, <2>4
<1>6. CASE ReceiveNothing
  <2>1. Receive("nothing") /\ toWorker' = toWorker /\ evals' = evals
    BY <1>6 DEF ReceiveNothing
  <2>2. Shifted(Trees', Trees) /\ 1 \notin Trees
    BY <2>1, Received
  <2> QED BY <2>1, <2>2, Still, Places DEF Shifted
<1>7. CASE ReceiveTree
  <2>1. Shifted(Trees', Trees) /\ 1 \in Trees
    BY <1>7, Received DEF ReceiveTree
  <2>2. Trees' = {} /\ Evs = {}
    BY <2>1, Places DEF Shifted
  <2>3. CASE evals = "buffered"
    BY <1>7, <2>2, <2>3, TreeSends
  <2>4. CASE evals # "buffered"
    BY <1>7, <2>2, <2>4, Still DEF ReceiveTree
  <2> QED BY <2>3, <2>4
<1>8. ASSUME NEW quick \in BOOLEAN, EvalTree(quick) PROVE OneEval'
  <2>1. Take("eval") /\ evals' = evals /\ toMain' = Append(toMain, [kind |-> "tree"])
    BY <1>8, TakeTyped DEF EvalTree
  <2>2. Shifted(Evs', Evs) /\ 1 \in Evs
    BY <2>1, Taken
  <2>3. Evs' = {} /\ Trees = {}
    BY <2>2, Places DEF Shifted
  <2>4. Trees' = Trees \cup {Len(toMain) + 1}
    BY <2>1, Answers, MessageFacts
  <2> QED BY <2>1, <2>2, <2>3, <2>4
<1>9. ASSUME UndoAsked \/ RedoAsked PROVE OneEval'
  <2>1. /\ Take("UNDO") \/ Take("REDO")
        /\ Shown(canvas') \in Layouts
        /\ \/ toMain' = Append(toMain, [kind |-> "nothing"])
           \/ toMain' = Append(toMain, [kind |-> "replayed", widgets |-> Shown(canvas')])
    BY <1>9, UndoCanvas, RedoCanvas, GoodTyped DEF UndoAsked, RedoAsked
  <2>2. Shifted(Evs', Evs) /\ 1 \notin Evs /\ evals' = evals
    BY <2>1, Taken, TakeTyped
  <2>3. Trees' = Trees
    BY <2>1, Answers, MessageFacts
  <2> QED BY <2>2, <2>3, Places DEF Shifted
<1>10. CASE ClearCache
  <2>1. Take("clear") /\ evals' = evals /\ toMain' = Append(toMain, [kind |-> "cleared"])
    BY <1>10, TakeTyped DEF ClearCache
  <2>2. Shifted(Evs', Evs) /\ 1 \notin Evs
    BY <2>1, Taken
  <2>3. Trees' = Trees
    BY <2>1, Answers, MessageFacts
  <2> QED BY <2>1, <2>2, <2>3, Places DEF Shifted
<1>11. CASE UNCHANGED vars
  BY <1>11, Still DEF vars
<1>12. ASSUME NEW l \in Layouts, Resize(l) PROVE OneEval'
  BY <1>12, Still DEF Resize, EditTo
<1> QED BY <1>1, <1>2, <1>3, <1>4, <1>5, <1>6, <1>7, <1>8, <1>9, <1>10, <1>11, <1>12 DEF Next

\* One clearing of the cache is under way.
LEMMA OneClearStep ==
    ASSUME TypeOK, Good(canvas), OneClear, [Next]_vars
    PROVE  OneClear'
<1> USE DEF OneClear
<1>1. ASSUME NEW l \in Layouts, NEW replay \in BOOLEAN, Edit(l, replay) PROVE OneClear'
  <2>1. Evaluate(l, replay, unseen \cup Differing(l, layout)) /\ toMain' = toMain
        /\ fetching' = fetching
    BY <1>1 DEF Edit, EditTo
  <2> QED BY <2>1, EvaluateSends, Still
<1>2. ASSUME NEW kind, AskReplay(kind) PROVE OneClear'
  <2>1. /\ [kind |-> kind] \in Requests /\ toWorker' = Append(toWorker, [kind |-> kind])
        /\ kind \in {"UNDO", "REDO"} /\ toMain' = toMain /\ fetching' = fetching
    BY <1>2, MessageFacts DEF AskReplay
  <2>2. Clears' = Clears
    BY <2>1, Sent
  <2> QED BY <2>1, <2>2, Still
<1>3. ASSUME NEW p \in Pages, FetchPage(p) PROVE OneClear'
  <2>1. /\ [kind |-> "clear"] \in Requests /\ toWorker' = Append(toWorker, [kind |-> "clear"])
        /\ toMain' = toMain /\ fetching = {} /\ fetching' = {p}
    BY <1>3, MessageFacts DEF FetchPage
  <2>2. Clears' = Clears \cup {Len(toWorker) + 1}
    BY <2>1, Sent
  <2> QED BY <2>1, <2>2, Still
<1>4. CASE ReceiveCleared
  <2>1. /\ layout' \in Layouts /\ Evaluate(layout', TRUE, unseen) /\ Receive("cleared")
        /\ fetching' = {}
    BY <1>4, PageLayouts DEF ReceiveCleared, TypeOK
  <2>2. Shifted(Cleareds', Cleareds) /\ 1 \in Cleareds
    BY <2>1, Received
  <2>3. Cleareds' = {} /\ Clears = {}
    BY <2>2, Places DEF Shifted
  <2> QED BY <2>1, <2>3, EvaluateSends
<1>5. CASE ReceiveReplayed
  <2>1. /\ layout' \in Layouts /\ Evaluate(layout', FALSE, Differing(layout', Head(toMain).widgets)) /\ Receive("replayed")
        /\ fetching' = fetching
    BY <1>5, ReplayedTyped DEF ReceiveReplayed
  <2>2. Shifted(Cleareds', Cleareds) /\ 1 \notin Cleareds
    BY <2>1, Received
  <2>3. (\A i, j \in Cleareds' : i = j) /\ (Cleareds' = {} <=> Cleareds = {})
    BY <2>2, Places DEF Shifted
  <2>4. /\ Clears' = Clears
        /\ evals # "idle" => evals' = "buffered" /\ Evs' = Evs
        /\ evals = "idle" => evals' = "running" /\ Evs' = Evs \cup {Len(toWorker) + 1}
    BY <2>1, EvaluateSends
  <2> QED BY <2>1, <2>3, <2>4
<1>6. CASE ReceiveNothing
  <2>1. Receive("nothing") /\ toWorker' = toWorker /\ fetching' = fetching
    BY <1>6 DEF ReceiveNothing
  <2>2. Shifted(Cleareds', Cleareds) /\ 1 \notin Cleareds
    BY <2>1, Received
  <2> QED BY <2>1, <2>2, Still, Places DEF Shifted
<1>7. CASE ReceiveTree
  <2>1. Receive("tree") /\ fetching' = fetching
    BY <1>7 DEF ReceiveTree
  <2>2. Shifted(Cleareds', Cleareds) /\ 1 \notin Cleareds
    BY <2>1, Received
  <2>3. Clears' = Clears
    BY <1>7, TreeSends, Still DEF ReceiveTree
  <2> QED BY <2>1, <2>2, <2>3, Places DEF Shifted
<1>8. ASSUME NEW quick \in BOOLEAN, EvalTree(quick) PROVE OneClear'
  <2>1. Take("eval") /\ fetching' = fetching /\ toMain' = Append(toMain, [kind |-> "tree"])
    BY <1>8, TakeTyped DEF EvalTree
  <2>2. Shifted(Clears', Clears) /\ 1 \notin Clears
    BY <2>1, Taken
  <2>3. Cleareds' = Cleareds
    BY <2>1, Answers, MessageFacts
  <2> QED BY <2>1, <2>2, <2>3, Places DEF Shifted
<1>9. ASSUME UndoAsked \/ RedoAsked PROVE OneClear'
  <2>1. /\ Take("UNDO") \/ Take("REDO")
        /\ Shown(canvas') \in Layouts
        /\ \/ toMain' = Append(toMain, [kind |-> "nothing"])
           \/ toMain' = Append(toMain, [kind |-> "replayed", widgets |-> Shown(canvas')])
    BY <1>9, UndoCanvas, RedoCanvas, GoodTyped DEF UndoAsked, RedoAsked
  <2>2. Shifted(Clears', Clears) /\ 1 \notin Clears /\ fetching' = fetching
    BY <2>1, Taken, TakeTyped
  <2>3. Cleareds' = Cleareds
    BY <2>1, Answers, MessageFacts
  <2> QED BY <2>2, <2>3, Places DEF Shifted
<1>10. CASE ClearCache
  <2>1. Take("clear") /\ fetching' = fetching /\ toMain' = Append(toMain, [kind |-> "cleared"])
    BY <1>10, TakeTyped DEF ClearCache
  <2>2. Shifted(Clears', Clears) /\ 1 \in Clears
    BY <2>1, Taken
  <2>3. Clears' = {} /\ Cleareds = {}
    BY <2>2, Places DEF Shifted
  <2>4. Cleareds' = Cleareds \cup {Len(toMain) + 1}
    BY <2>1, Answers, MessageFacts
  <2> QED BY <2>1, <2>2, <2>3, <2>4
<1>11. CASE UNCHANGED vars
  BY <1>11, Still DEF vars
<1>12. ASSUME NEW l \in Layouts, Resize(l) PROVE OneClear'
  BY <1>12, Still DEF Resize, EditTo
<1> QED BY <1>1, <1>2, <1>3, <1>4, <1>5, <1>6, <1>7, <1>8, <1>9, <1>10, <1>11, <1>12 DEF Next

-----------------------------------------------------------------------------
(* What the worker has                                                      *)

LEMMA DifferingFacts ==
    /\ \A l : Differing(l, l) = {}
    /\ \A k, l, m : Differing(k, m) \subseteq Differing(k, l) \cup Differing(m, l)
BY DEF Differing

\* An evaluation with replay that is requested will be recorded.
LEMMA Records ==
    ASSUME NEW n, Evs' = {n}, toWorker'[n].replay, toWorker'[n].widgets = layout'
    PROVE  Tracked'
BY DifferingFacts DEF Tracked

\* One without is of the layout too.
LEMMA Unrecorded ==
    ASSUME NEW n, Evs' = {n}, toWorker'[n].widgets = layout',
           Replayed' = {} => Differing(Shown(canvas'), layout') \subseteq unseen'
    PROVE  Tracked'
<1> SUFFICES ASSUME ~Overtaken' PROVE Tracked'
  BY DEF Tracked
<1>1. Replayed' = {}
  BY DEF Overtaken
<1> QED BY <1>1, DifferingFacts DEF Tracked, Latest

\* With the loop idle no answer overtakes an evaluation.
LEMMA IdleTracked ==
    ASSUME OneEval, Tracked, evals = "idle"
    PROVE  Evs = {} /\ Trees = {} /\ Latest(Shown(canvas))
BY DEF OneEval, Tracked, Overtaken

\* What is received leaves the answers behind it overtaking what they overtook.
LEMMA ReceivedOvertakes ==
    ASSUME TypeOK, NEW kind, Receive(kind), kind # "replayed", evals' = evals, Evs' = Evs, Overtaken
    PROVE  Overtaken' \/ kind = "tree"
<1>1. /\ Shifted(Trees', Trees) /\ Shifted(Replayed', Replayed)
      /\ 1 \notin Replayed /\ (1 \in Trees <=> kind = "tree")
  BY Received
<1>2. Replayed \subseteq 1..Len(toMain) /\ Trees \subseteq 1..Len(toMain) /\ Len(toMain) \in Nat
  BY Places
<1>3. ASSUME NEW j \in Replayed PROVE j - 1 \in Replayed' /\ j \in Nat
  BY <1>1, <1>2 DEF Shifted
<1>4. CASE Evs # {} /\ Replayed # {}
  BY <1>3, <1>4 DEF Overtaken
<1>5. ASSUME NEW i \in Trees, NEW j \in Replayed, j < i, kind # "tree"
      PROVE  Overtaken'
  <2>1. i - 1 \in Trees' /\ i \in Nat
    BY <1>1, <1>2, <1>5 DEF Shifted
  <2>2. j - 1 < i - 1
    BY <1>3, <1>5, <2>1
  <2> QED BY <1>3, <2>1, <2>2 DEF Overtaken
<1> QED BY <1>4, <1>5 DEF Overtaken

LEMMA LastReceived ==
    ASSUME TypeOK, NEW kind, Receive(kind), kind # "replayed",
           NEW i \in Replayed', \A j \in Replayed' : j <= i
    PROVE  /\ i + 1 \in Replayed /\ \A j \in Replayed : j <= i + 1
           /\ toMain'[i] = toMain[i + 1]
<1>1. /\ Shifted(Replayed', Replayed) /\ 1 \notin Replayed
      /\ \A k \in 1..(Len(toMain) - 1) : toMain'[k] = toMain[k + 1]
  BY Received
<1>2. Replayed \subseteq 1..Len(toMain) /\ Len(toMain) \in Nat
  BY Places
<1>3. i \in Nat /\ i >= 1 /\ i + 1 \in Replayed
  BY <1>1 DEF Shifted
<1>4. ASSUME NEW j \in Replayed PROVE j <= i + 1
  <2>1. j - 1 \in Replayed' /\ j \in Nat
    BY <1>1, <1>2 DEF Shifted
  <2>2. j - 1 <= i
    BY <2>1
  <2> QED BY <1>3, <2>1, <2>2
<1>5. i \in 1..(Len(toMain) - 1)
  BY <1>2, <1>3
<1> QED BY <1>1, <1>3, <1>4, <1>5

LEMMA LatestReceived ==
    ASSUME TypeOK, NEW kind, Receive(kind), kind # "replayed", NEW l, Latest(l),
           layout' = layout, unseen' = unseen
    PROVE  /\ Replayed' = {} => Differing(l, layout') \subseteq unseen'
           /\ \A i \in Replayed' : (\A j \in Replayed' : j <= i) => toMain'[i].widgets = l
<1>1. /\ Shifted(Replayed', Replayed) /\ 1 \notin Replayed
      /\ \A i \in 1..(Len(toMain) - 1) : toMain'[i] = toMain[i + 1]
  BY Received
<1>2. Replayed \subseteq 1..Len(toMain) /\ Len(toMain) \in Nat
  BY Places
<1>3. Replayed' = {} => Replayed = {}
  BY <1>1 DEF Shifted
<1>4. ASSUME NEW i \in Replayed', \A j \in Replayed' : j <= i
      PROVE  toMain'[i].widgets = l
  BY <1>1, <1>2, <1>4, LastReceived DEF Latest
<1> QED BY <1>3, <1>4 DEF Latest

LEMMA TrackedStep ==
    ASSUME TypeOK, Good(canvas), OneEval, OneClear, Tracked, [Next]_vars
    PROVE  Tracked'
<1> SUFFICES ASSUME ~Overtaken', evals' # "buffered"
             PROVE  Tracked'
  BY DEF Tracked, Overtaken
<1>0. /\ evals = "idle" => Evs = {}
      /\ Evs \subseteq 1..Len(toWorker) /\ Trees \subseteq 1..Len(toMain)
      /\ Len(toWorker) \in Nat /\ Len(toMain) \in Nat /\ Replayed \subseteq 1..Len(toMain)
  BY Places DEF OneEval
<1>1. ASSUME NEW l \in Layouts, NEW replay \in BOOLEAN, Edit(l, replay) PROVE Tracked'
  <2>1. /\ Evaluate(l, replay, unseen \cup Differing(l, layout)) /\ layout' = l
        /\ UNCHANGED <<toMain, canvas>>
    BY <1>1 DEF Edit, EditTo
  <2>2. /\ evals = "idle" /\ Evs' = {Len(toWorker) + 1}
        /\ toWorker'[Len(toWorker) + 1].widgets = l
        /\ toWorker'[Len(toWorker) + 1].replay = replay
        /\ unseen' = IF replay THEN {} ELSE unseen \cup Differing(l, layout)
    BY <1>0, <2>1, EvaluateSends
  <2>3. CASE replay
    BY <2>1, <2>2, <2>3, Records
  <2>4. CASE ~replay
    <3>1. Replayed = {} => Differing(Shown(canvas), layout) \subseteq unseen
      BY <2>2, IdleTracked DEF Latest
    <3>2. Replayed' = {} => Differing(Shown(canvas), l) \subseteq unseen \cup Differing(l, layout)
      BY <2>1, <3>1, DifferingFacts, Still
    <3> QED BY <2>1, <2>2, <2>4, <3>2, Unrecorded
  <2> QED BY <2>3, <2>4
\* What changes neither the canvas nor what is under way to or from it.
<1>a. ASSUME Evs' = Evs, Replayed' = Replayed, Trees' = Trees, UNCHANGED <<canvas, evals>>,
             \A i \in Evs : toWorker'[i] = toWorker[i],
             \A i \in Replayed : toMain'[i] = toMain[i],
             \A l : Differing(l, layout) \subseteq unseen => Differing(l, layout') \subseteq unseen'
      PROVE  Tracked'
  <2>1. ~Overtaken
    BY <1>a DEF Overtaken
  <2>2. /\ \A i \in Evs : Differing(toWorker[i].widgets, layout) \subseteq unseen
        /\ (\A i \in Evs : ~toWorker[i].replay) => Latest(Shown(canvas))
    BY <2>1 DEF Tracked
  <2>3. \A i \in Evs' : Differing(toWorker'[i].widgets, layout') \subseteq unseen'
    BY <1>a, <2>2
  <2>4. (\A i \in Evs' : ~toWorker'[i].replay) => Latest(Shown(canvas))'
    <3>1. Latest(Shown(canvas)) => Latest(Shown(canvas))'
      BY <1>a DEF Latest
    <3> QED BY <1>a, <2>2, <3>1
  <2> QED BY <2>3, <2>4 DEF Tracked
<1>2. ASSUME NEW kind, AskReplay(kind) PROVE Tracked'
  <2>1. /\ [kind |-> kind] \in Requests /\ toWorker' = Append(toWorker, [kind |-> kind])
        /\ kind \in {"UNDO", "REDO"} /\ toMain' = toMain
        /\ UNCHANGED <<layout, evals, canvas, unseen>>
    BY <1>2, MessageFacts DEF AskReplay
  <2>2. Evs' = Evs /\ \A i \in 1..Len(toWorker) : toWorker'[i] = toWorker[i]
    BY <2>1, Sent
  <2> QED BY <1>0, <1>a, <2>1, <2>2, Still
<1>3. ASSUME NEW p \in Pages, FetchPage(p) PROVE Tracked'
  <2>1. /\ [kind |-> "clear"] \in Requests /\ toWorker' = Append(toWorker, [kind |-> "clear"])
        /\ toMain' = toMain /\ UNCHANGED <<layout, evals, canvas, unseen>>
    BY <1>3, MessageFacts DEF FetchPage
  <2>2. Evs' = Evs /\ \A i \in 1..Len(toWorker) : toWorker'[i] = toWorker[i]
    BY <2>1, Sent
  <2> QED BY <1>0, <1>a, <2>1, <2>2, Still
<1>4. CASE ReceiveCleared
  <2>1. layout' \in Layouts /\ Evaluate(layout', TRUE, unseen)
    BY <1>4, PageLayouts DEF ReceiveCleared, TypeOK
  <2>2. /\ Evs' = {Len(toWorker) + 1}
        /\ toWorker'[Len(toWorker) + 1].widgets = layout' /\ toWorker'[Len(toWorker) + 1].replay
    BY <1>0, <2>1, EvaluateSends
  <2> QED BY <2>2, Records
<1>5. CASE ReceiveReplayed
  <2>1. /\ layout' \in Layouts /\ Receive("replayed") /\ UNCHANGED canvas
        /\ Evaluate(layout', FALSE, Differing(layout', Head(toMain).widgets))
    BY <1>5, ReplayedTyped DEF ReceiveReplayed
  <2>2. /\ evals = "idle" /\ Evs' = {Len(toWorker) + 1}
        /\ toWorker'[Len(toWorker) + 1].widgets = layout'
        /\ unseen' = Differing(layout', Head(toMain).widgets)
    BY <1>0, <2>1, EvaluateSends
  <2>3. /\ 1 \in Replayed /\ Head(toMain) = toMain[1] /\ Shifted(Replayed', Replayed)
    BY <2>1, Received
  <2>4. ASSUME Replayed' = {} PROVE Shown(canvas) = Head(toMain).widgets
    <3>1. \A j \in Replayed : j <= 1
      BY <2>3, <2>4 DEF Shifted
    <3> QED BY <2>2, <2>3, <3>1, IdleTracked DEF Latest
  <2>5. Replayed' = {} => Differing(Shown(canvas), layout') \subseteq unseen'
    BY <2>2, <2>4 DEF Differing
  <2> QED BY <2>1, <2>2, <2>5, Unrecorded
<1>6. CASE ReceiveNothing
  <2>1. /\ Receive("nothing") /\ toWorker' = toWorker
        /\ UNCHANGED <<layout, evals, canvas, unseen>>
    BY <1>6, ReceiveTyped DEF ReceiveNothing
  <2>2. Evs' = Evs
    BY <2>1, Still
  <2>3. ~Overtaken
    BY <2>1, <2>2, ReceivedOvertakes
  <2>4. PICK l : l = Shown(canvas)
    OBVIOUS
  <2>5. Latest(l) => /\ Replayed' = {} => Differing(l, layout') \subseteq unseen'
                     /\ \A i \in Replayed' : (\A j \in Replayed' : j <= i) => toMain'[i].widgets = l
    BY <2>1, LatestReceived
  <2>6. Latest(Shown(canvas)) => Latest(Shown(canvas))'
    BY <2>1, <2>4, <2>5 DEF Latest
  <2> QED BY <2>1, <2>2, <2>3, <2>6 DEF Tracked
<1>7. CASE ReceiveTree
  <2>1. /\ Receive("tree") /\ UNCHANGED <<layout, canvas>>
    BY <1>7, ReceiveTyped DEF ReceiveTree
  <2>2. 1 \in Trees
    BY <2>1, Received
  <2>3. Evs = {}
    BY <2>2 DEF OneEval
  <2>4. CASE evals = "buffered"
    <3>1. /\ Evs' = {Len(toWorker) + 1}
          /\ toWorker'[Len(toWorker) + 1].widgets = layout /\ toWorker'[Len(toWorker) + 1].replay
      BY <1>7, <2>3, <2>4, TreeSends
    <3> QED BY <2>1, <3>1, Records
  <2>5. CASE evals # "buffered"
    <3>1. toWorker' = toWorker /\ unseen' = unseen
      BY <1>7, <2>5 DEF ReceiveTree
    <3>2. ~Overtaken
      <4>1. \A i \in Trees, j \in Replayed : i = 1 /\ ~(j < i)
        BY <1>0, <2>2 DEF OneEval
      <4> QED BY <2>3, <2>5, <4>1 DEF Overtaken
    <3>3. PICK l : l = Shown(canvas)
      OBVIOUS
    <3>4. Latest(l)
      BY <2>3, <3>2, <3>3 DEF Tracked
    <3>5. /\ Replayed' = {} => Differing(l, layout') \subseteq unseen'
          /\ \A i \in Replayed' : (\A j \in Replayed' : j <= i) => toMain'[i].widgets = l
      BY <2>1, <3>1, <3>4, LatestReceived
    <3>6. Latest(Shown(canvas))'
      BY <2>1, <3>3, <3>5 DEF Latest
    <3>7. Evs' = {}
      BY <2>3, <3>1, Still
    <3> QED BY <3>6, <3>7 DEF Tracked
  <2> QED BY <2>4, <2>5
<1>8. ASSUME NEW quick \in BOOLEAN, EvalTree(quick) PROVE Tracked'
  <2>1. /\ Take("eval") /\ UNCHANGED <<layout, evals, unseen>>
        /\ toMain' = Append(toMain, [kind |-> "tree"])
    BY <1>8, TakeTyped DEF EvalTree
  <2>2. Shifted(Evs', Evs) /\ 1 \in Evs /\ Request = toWorker[1]
    BY <2>1, Taken
  <2>3. Evs' = {} /\ Evs = {1} /\ Trees = {}
    <3>1. Evs = {1} /\ Trees = {}
      BY <2>2 DEF OneEval
    <3>2. \A i \in Evs' : i \in Nat /\ i >= 1 /\ i + 1 = 1
      BY <2>2, <3>1 DEF Shifted
    <3>3. Evs' = {}
      BY <3>2
    <3> QED BY <3>1, <3>3
  <2>4. Replayed' = Replayed /\ Trees' = {Len(toMain) + 1}
    BY <2>1, <2>3, Answers, MessageFacts
  <2>5. Replayed = {}
    <3> SUFFICES ASSUME NEW j \in Replayed PROVE FALSE
      OBVIOUS
    <3>1. j < Len(toMain) + 1
      BY <1>0
    <3> QED BY <2>4, <3>1 DEF Overtaken
  <2>6. ~Overtaken
    BY <2>1, <2>5 DEF Overtaken
  <2>7. Differing(Shown(canvas'), layout) \subseteq unseen
    <3>1. CASE ~exists \/ Request.replay
      BY <1>8, <2>2, <2>6, <3>1, EvalTreeCanvas DEF Tracked
    <3>2. CASE exists /\ ~Request.replay
      <4>1. Latest(Shown(canvas)) /\ canvas' = canvas
        BY <1>8, <2>2, <2>3, <2>6, <3>2, EvalTreeCanvas DEF Tracked
      <4> QED BY <2>5, <4>1 DEF Latest
    <3> QED BY <3>1, <3>2
  <2>8. Latest(Shown(canvas))'
    BY <2>1, <2>4, <2>5, <2>7 DEF Latest
  <2> QED BY <2>3, <2>8 DEF Tracked
<1>9. ASSUME UndoAsked \/ RedoAsked PROVE Tracked'
  <2>1. /\ Take("UNDO") \/ Take("REDO")
        /\ Shown(canvas') \in Layouts
        /\ \/ canvas' = canvas /\ toMain' = Append(toMain, [kind |-> "nothing"])
           \/ toMain' = Append(toMain, [kind |-> "replayed", widgets |-> Shown(canvas')])
    BY <1>9, UndoCanvas, RedoCanvas, GoodTyped DEF UndoAsked, RedoAsked
  <2>2. /\ Shifted(Evs', Evs) /\ 1 \notin Evs /\ UNCHANGED <<layout, evals, unseen>>
        /\ \A i \in 1..(Len(toWorker) - 1) : toWorker'[i] = toWorker[i + 1]
    BY <2>1, Taken, TakeTyped
  <2>3. ASSUME NEW i \in Evs' PROVE i + 1 \in Evs /\ toWorker'[i] = toWorker[i + 1]
    <3>1. i \in Nat /\ i >= 1 /\ i + 1 \in Evs
      BY <2>2 DEF Shifted
    <3>2. i \in 1..(Len(toWorker) - 1)
      BY <1>0, <3>1
    <3> QED BY <2>2, <3>1, <3>2
  <2>4. CASE canvas' = canvas /\ toMain' = Append(toMain, [kind |-> "nothing"])
    <3>1. /\ Replayed' = Replayed /\ Trees' = Trees
          /\ \A i \in 1..Len(toMain) : toMain'[i] = toMain[i]
      BY <2>4, Answers, MessageFacts
    <3>2. Evs = {} <=> Evs' = {}
      BY <2>2 DEF Shifted
    <3>3. ~Overtaken
      BY <2>2, <3>1, <3>2 DEF Overtaken
    <3>4. \A i \in Evs' : Differing(toWorker'[i].widgets, layout') \subseteq unseen'
      BY <2>2, <2>3, <3>3 DEF Tracked
    <3>5. ASSUME \A i \in Evs' : ~toWorker'[i].replay PROVE Latest(Shown(canvas))'
      <4>1. \A i \in Evs : ~toWorker[i].replay
        <5> TAKE i \in Evs
        <5>1. i - 1 \in Evs' /\ i \in Nat
          BY <1>0, <2>2 DEF Shifted
        <5>2. (i - 1) + 1 = i
          BY <5>1
        <5> QED BY <2>3, <3>5, <5>1, <5>2
      <4>2. Latest(Shown(canvas))
        BY <3>3, <4>1 DEF Tracked
      <4> QED BY <1>0, <2>2, <2>4, <3>1, <4>2 DEF Latest
    <3> QED BY <3>4, <3>5 DEF Tracked
  <2>5. CASE toMain' = Append(toMain, [kind |-> "replayed", widgets |-> Shown(canvas')])
    <3> DEFINE m == [kind |-> "replayed", widgets |-> Shown(canvas')]
               n == Len(toMain) + 1
    <3>1. m \in Replies /\ m.kind = "replayed" /\ m.widgets = Shown(canvas')
      BY <2>1, MessageFacts
    <3> HIDE DEF m
    <3>2. /\ Replayed' = Replayed \cup {n} /\ toMain'[n].widgets = Shown(canvas')
      BY <2>5, <3>1, Answers DEF m
    <3>3. \A i \in Replayed' : (\A j \in Replayed' : j <= i) => i = n
      BY <1>0, <3>2
    <3>4. Latest(Shown(canvas))'
      BY <3>2, <3>3 DEF Latest
    <3>5. Evs' = {}
      BY <3>2 DEF Overtaken
    <3> QED BY <3>4, <3>5 DEF Tracked
  <2> QED BY <2>1, <2>4, <2>5
<1>10. CASE ClearCache
  <2>1. /\ Take("clear") /\ UNCHANGED <<layout, evals, unseen, canvas>>
        /\ toMain' = Append(toMain, [kind |-> "cleared"])
    BY <1>10, TakeTyped DEF ClearCache
  <2>2. /\ Shifted(Evs', Evs) /\ 1 \notin Evs
        /\ \A i \in 1..(Len(toWorker) - 1) : toWorker'[i] = toWorker[i + 1]
    BY <2>1, Taken
  <2>3. ASSUME NEW i \in Evs' PROVE i + 1 \in Evs /\ toWorker'[i] = toWorker[i + 1]
    <3>1. i \in Nat /\ i >= 1 /\ i + 1 \in Evs
      BY <2>2 DEF Shifted
    <3>2. i \in 1..(Len(toWorker) - 1)
      BY <1>0, <3>1
    <3> QED BY <2>2, <3>1, <3>2
  <2>4. /\ Replayed' = Replayed /\ Trees' = Trees
        /\ \A i \in 1..Len(toMain) : toMain'[i] = toMain[i]
    BY <2>1, Answers, MessageFacts
  <2>5. Evs = {} <=> Evs' = {}
    BY <2>2 DEF Shifted
  <2>6. ~Overtaken
    BY <2>1, <2>4, <2>5 DEF Overtaken
  <2>7. \A i \in Evs' : Differing(toWorker'[i].widgets, layout') \subseteq unseen'
    BY <2>1, <2>3, <2>6 DEF Tracked
  <2>8. ASSUME \A i \in Evs' : ~toWorker'[i].replay PROVE Latest(Shown(canvas))'
    <3>1. \A i \in Evs : ~toWorker[i].replay
      <4> TAKE i \in Evs
      <4>1. i - 1 \in Evs' /\ i \in Nat
        BY <1>0, <2>2 DEF Shifted
      <4>2. (i - 1) + 1 = i
        BY <4>1
      <4> QED BY <2>3, <2>8, <4>1, <4>2
    <3>2. Latest(Shown(canvas))
      BY <2>6, <3>1 DEF Tracked
    <3> QED BY <1>0, <2>1, <2>4, <3>2 DEF Latest
  <2> QED BY <2>7, <2>8 DEF Tracked
<1>11. CASE UNCHANGED vars
  BY <1>11, <1>a, Still DEF vars
<1>12. ASSUME NEW l \in Layouts, Resize(l) PROVE Tracked'
  <2>1. /\ UNCHANGED <<toWorker, toMain, canvas, evals>>
        /\ layout' = l /\ unseen' = unseen \cup Differing(l, layout)
    BY <1>12 DEF Resize, EditTo
  <2>2. \A k : Differing(k, layout) \subseteq unseen => Differing(k, layout') \subseteq unseen'
    <3> TAKE k
    <3>1. Differing(k, l) \subseteq Differing(k, layout) \cup Differing(l, layout)
      BY DifferingFacts
    <3> QED BY <2>1, <3>1
  <2> QED BY <1>a, <2>1, <2>2, Still
<1> QED BY <1>1, <1>2, <1>3, <1>4, <1>5, <1>6, <1>7, <1>8, <1>9, <1>10, <1>11, <1>12 DEF Next

-----------------------------------------------------------------------------
(* Pages                                                                    *)

\* Undos and redos keep to the page of a replay object.
LEMMA OfPageReplayed ==
    ASSUME NEW c, NEW d, Good(c), Good(d), NEW p \in Pages, OfPage(c, p),
           AllDiffs(d) \subseteq AllDiffs(c),
           \A w \in Widgets : Shown(d)[w] # None =>
               Shown(c)[w] # None \/ \E e \in AllDiffs(c) : e.widget = w
    PROVE  OfPage(d, p)
<1>1. Shown(c) \in Layouts /\ Shown(d) \in Layouts
  BY GoodTyped
<1> QED BY <1>1 DEF OfPage, LayoutsOf

\* So does an evaluation of the page's widgets.
LEMMA OfPageEvaluated ==
    ASSUME TypeOK, Good(canvas), NEW quick \in BOOLEAN, EvalTree(quick),
           NEW p \in Pages, Request.widgets \in LayoutsOf(p), exists => OfPage(canvas, p)
    PROVE  OfPage(canvas', p)
<1>1. /\ Request.widgets \in Layouts
      /\ Good(canvas')
      /\ ~exists \/ Request.replay => Shown(canvas') = Request.widgets
      /\ exists /\ ~Request.replay => canvas' = canvas
      /\ ~exists => AllDiffs(canvas') = {}
      /\ \A d \in AllDiffs(canvas') :
            \/ d \in AllDiffs(canvas)
            \/ Shown(canvas)[d.widget] # None \/ Request.widgets[d.widget] # None
      /\ Request.replay \in BOOLEAN
  BY EvalTreeCanvas
<1>2. CASE ~exists
  BY <1>1, <1>2 DEF OfPage
<1>3. CASE exists /\ ~Request.replay
  BY <1>1, <1>3
<1>4. CASE exists /\ Request.replay
  <2>1. \A d \in AllDiffs(canvas') : d.widget \in Widgets
    BY <1>1, GoodTyped, CanvasFacts, DiffFacts
  <2> QED BY <1>1, <1>4, <2>1 DEF OfPage, LayoutsOf
<1> QED BY <1>1, <1>2, <1>3, <1>4

LEMMA PagedStep ==
    ASSUME TypeOK, Good(canvas), OneEval, OneClear, Paged, [Next]_vars
    PROVE  Paged'
<1> SUFFICES ASSUME switch' # "strayed" PROVE Paged'
  BY DEF Paged
<1>0. /\ Len(toWorker) \in Nat /\ Len(toMain) \in Nat
      /\ Evs \subseteq 1..Len(toWorker) /\ Asked \subseteq 1..Len(toWorker)
      /\ Clears \subseteq 1..Len(toWorker) /\ Cleareds \subseteq 1..Len(toMain)
      /\ Replayed \subseteq 1..Len(toMain) /\ Trees \subseteq 1..Len(toMain)
      /\ (toWorker = <<>> <=> Len(toWorker) = 0)
      /\ page \in Pages /\ switch \in {"done", "running", "strayed"}
  BY Places DEF TypeOK
\* An evaluation that is requested while nothing else is to happen.
<1>a. ASSUME UNCHANGED <<page, fetching, exists, canvas>>, layout' \in LayoutsOf(page),
             switch # "strayed", fetching = {}, switch' = switch,
             Evs' = Evs \cup {Len(toWorker) + 1},
             Clears' = Clears, Asked' = Asked, Cleareds' = {},
             Len(toWorker') = Len(toWorker) + 1,
             \A i \in 1..Len(toWorker) : toWorker'[i] = toWorker[i],
             toWorker'[Len(toWorker) + 1].widgets = layout',
             \A i \in Replayed' : toMain'[i].widgets \in LayoutsOf(page)
      PROVE  Paged'
  <2>1. Clears' = {}
    BY <1>a DEF OneClear
  <2>2. OfPage(canvas, page) \/ (~exists /\ \A j \in Asked : \E i \in Evs : i < j)
    BY <1>a DEF Paged
  <2>3. \A i \in Evs' : toWorker'[i].widgets \in LayoutsOf(page)
    BY <1>0, <1>a DEF Paged
  <2> QED BY <1>a, <2>1, <2>2, <2>3 DEF Paged
\* A layout that changes while an evaluation is under way.
<1>b. ASSUME UNCHANGED <<page, fetching, exists, canvas, switch>>, toWorker' = toWorker,
             layout' \in LayoutsOf(page), switch # "strayed",
             Cleareds' # {} => Cleareds # {} /\ \A i \in Cleareds' : i = Len(toMain'),
             \A i \in Replayed' : toMain'[i].widgets \in LayoutsOf(page)
      PROVE  Paged'
  <2>1. Evs' = Evs /\ Clears' = Clears /\ Asked' = Asked
    BY <1>b, Still
  <2> QED BY <1>b, <2>1 DEF Paged
\* What is received but "cleared".
<1>c. ASSUME NEW kind, Receive(kind), kind # "cleared"
      PROVE  /\ Cleareds' # {} => Cleareds # {}
             /\ switch # "strayed" =>
                   /\ Cleareds' # {} => \A i \in Cleareds' : i = Len(toMain')
                   /\ \A i \in Replayed' : toMain'[i].widgets \in LayoutsOf(page)
  <2>1. /\ Len(toMain) >= 1 /\ Len(toMain') = Len(toMain) - 1
        /\ \A i \in 1..(Len(toMain) - 1) : toMain'[i] = toMain[i + 1]
        /\ Shifted(Cleareds', Cleareds) /\ Shifted(Replayed', Replayed)
    BY <1>c, Received
  <2>2. /\ Cleareds' # {} => Cleareds # {}
        /\ switch # "strayed" /\ Cleareds' # {} => \A i \in Cleareds' : i = Len(toMain')
    BY <1>0, <2>1 DEF Shifted, Paged
  <2>3. ASSUME switch # "strayed", NEW i \in Replayed'
        PROVE  toMain'[i].widgets \in LayoutsOf(page)
    <3>1. i \in Nat /\ i >= 1 /\ i + 1 \in Replayed
      BY <2>1 DEF Shifted
    <3>2. i \in 1..(Len(toMain) - 1)
      BY <1>0, <3>1
    <3> QED BY <2>1, <2>3, <3>1, <3>2 DEF Paged
  <2> QED BY <2>2, <2>3
\* What is taken but "clear".
<1>d. ASSUME NEW kind, Take(kind), kind # "clear", switch # "strayed"
      PROVE  /\ \A i \in Evs' : toWorker'[i].widgets \in LayoutsOf(page)
             /\ \A i \in Clears' : i = Len(toWorker')
             /\ Cleareds = {}
             /\ UNCHANGED <<page, fetching, layout, evals, switch>>
  <2>1. /\ Len(toWorker) >= 1 /\ Len(toWorker') = Len(toWorker) - 1
        /\ \A i \in 1..(Len(toWorker) - 1) : toWorker'[i] = toWorker[i + 1]
        /\ Shifted(Clears', Clears) /\ Shifted(Evs', Evs)
    BY <1>d, Taken
  <2>2. /\ \A i \in Clears' : i = Len(toWorker')
        /\ Cleareds = {}
    BY <1>0, <1>d, <2>1 DEF Shifted, Paged
  <2>3. ASSUME NEW i \in Evs'
        PROVE  toWorker'[i].widgets \in LayoutsOf(page)
    <3>1. i \in Nat /\ i >= 1 /\ i + 1 \in Evs
      BY <2>1 DEF Shifted
    <3>2. i \in 1..(Len(toWorker) - 1)
      BY <1>0, <3>1
    <3> QED BY <1>d, <2>1, <3>1, <3>2 DEF Paged
  <2> QED BY <1>d, <2>2, <2>3, TakeTyped
<1>1. ASSUME NEW l \in Layouts, NEW replay \in BOOLEAN, Edit(l, replay) PROVE Paged'
  <2>1. /\ Evaluate(l, replay, unseen \cup Differing(l, layout)) /\ toMain' = toMain
        /\ layout' = l /\ l \in LayoutsOf(page)
        /\ UNCHANGED <<page, fetching, exists, canvas>>
    BY <1>1 DEF Edit, EditTo
  <2>2. CASE evals = "idle"
    <3>1. /\ Posted /\ Evs' = Evs \cup {Len(toWorker) + 1}
          /\ Clears' = Clears /\ Asked' = Asked /\ Len(toWorker') = Len(toWorker) + 1
          /\ \A i \in 1..Len(toWorker) : toWorker'[i] = toWorker[i]
          /\ toWorker'[Len(toWorker) + 1].widgets = l
      BY <2>1, <2>2, EvaluateSends
    <3>2. switch = "done" /\ fetching = {} /\ switch' = switch
      BY <1>0, <2>1, <3>1 DEF Posted, Paged
    <3>3. Cleareds' = {} /\ \A i \in Replayed' : toMain'[i].widgets \in LayoutsOf(page)
      BY <2>1, <3>2, Still DEF OneClear, Paged
    <3> QED BY <1>a, <2>1, <3>1, <3>2, <3>3
  <2>3. CASE evals # "idle"
    <3>1. UNCHANGED <<toWorker, switch>>
      BY <2>1, <2>3, EvaluateSends
    <3>2. Cleareds' = Cleareds /\ Replayed' = Replayed
      BY <2>1, Still
    <3> QED BY <1>b, <2>1, <3>1, <3>2 DEF Paged
  <2> QED BY <2>2, <2>3
<1>2. ASSUME NEW kind, AskReplay(kind) PROVE Paged'
  <2>1. /\ [kind |-> kind] \in Requests /\ toWorker' = Append(toWorker, [kind |-> kind])
        /\ kind \in {"UNDO", "REDO"} /\ toMain' = toMain
        /\ switch' = IF switch = "running" THEN "strayed" ELSE switch
        /\ UNCHANGED <<page, fetching, layout, evals, exists, canvas>>
    BY <1>2, MessageFacts DEF AskReplay
  <2>2. switch = "done" /\ switch' = switch /\ fetching = {}
    BY <1>0, <2>1 DEF Paged
  <2>3. /\ Evs' = Evs /\ Clears' = Clears /\ Asked' = Asked \cup {Len(toWorker) + 1}
        /\ \A i \in 1..Len(toWorker) : toWorker'[i] = toWorker[i]
    BY <2>1, Sent
  <2>4. Cleareds' = {} /\ Clears' = {} /\ Replayed' = Replayed
    BY <2>1, <2>2, <2>3, Still DEF OneClear
  <2>5. OfPage(canvas, page) \/ (~exists /\ \A j \in Asked' : \E i \in Evs' : i < j)
    <3>1. CASE OfPage(canvas, page)
      BY <3>1
    <3>2. CASE ~OfPage(canvas, page)
      <4>1. ~exists /\ Evs # {} /\ \A j \in Asked : \E i \in Evs : i < j
        BY <2>2, <3>2 DEF Paged
      <4>2. PICK i \in Evs : TRUE
        BY <4>1
      <4>3. i < Len(toWorker) + 1
        BY <1>0, <4>2
      <4>4. \A j \in Asked' : \E k \in Evs : k < j
        BY <2>3, <4>1, <4>2, <4>3
      <4> QED BY <2>3, <4>1, <4>4
    <3> QED BY <3>1, <3>2
  <2>6. \A i \in Evs' : toWorker'[i].widgets \in LayoutsOf(page)
    BY <1>0, <2>2, <2>3 DEF Paged
  <2>7. \A i \in Replayed' : toMain'[i].widgets \in LayoutsOf(page)
    BY <2>1, <2>2, <2>4 DEF Paged
  <2>8. layout \in LayoutsOf(page) /\ (~exists => Evs # {})
    BY <2>2 DEF Paged
  <2> QED BY <2>1, <2>2, <2>3, <2>4, <2>5, <2>6, <2>7, <2>8 DEF Paged
<1>3. ASSUME NEW p \in Pages, FetchPage(p) PROVE Paged'
  <2>1. /\ [kind |-> "clear"] \in Requests /\ toWorker' = Append(toWorker, [kind |-> "clear"])
        /\ toMain' = toMain /\ fetching = {} /\ fetching' = {p}
        /\ switch' = IF switch = "done" THEN "running" ELSE switch
        /\ UNCHANGED <<page, layout, exists, canvas>>
    BY <1>3, MessageFacts DEF FetchPage
  <2>2. switch = "done" /\ switch' = "running"
    BY <2>1 DEF Paged
  <2>3. /\ Evs' = Evs /\ Clears' = Clears \cup {Len(toWorker) + 1} /\ Asked' = Asked
        /\ \A i \in 1..Len(toWorker) : toWorker'[i] = toWorker[i]
        /\ Len(toWorker') = Len(toWorker) + 1
    BY <2>1, Sent
  <2>4. Cleareds' = {} /\ Clears = {} /\ Replayed' = Replayed
    BY <2>1, <2>2, Still DEF OneClear
  <2>5. OfPage(canvas, page) \/ (~exists /\ \A j \in Asked' : \E i \in Evs' : i < j)
    BY <2>2, <2>3 DEF Paged
  <2>6. /\ \A i \in Evs' : toWorker'[i].widgets \in LayoutsOf(page)
        /\ \A i \in Replayed' : toMain'[i].widgets \in LayoutsOf(page)
        /\ layout \in LayoutsOf(page)
    BY <1>0, <2>1, <2>2, <2>3, <2>4 DEF Paged
  <2> QED BY <2>1, <2>2, <2>3, <2>4, <2>5, <2>6 DEF Paged
<1>4. CASE ReceiveCleared
  <2>1. /\ layout' \in Layouts /\ Evaluate(layout', TRUE, unseen) /\ Receive("cleared")
        /\ fetching' = {} /\ page' \in Pages /\ layout' \in LayoutsOf(page')
    BY <1>4, PageLayouts DEF ReceiveCleared, TypeOK
  <2>2. /\ 1 \in Cleareds /\ Len(toMain') = Len(toMain) - 1
        /\ Shifted(Replayed', Replayed) /\ Shifted(Cleareds', Cleareds) /\ 1 \notin Trees
        /\ UNCHANGED <<exists, canvas>>
    BY <2>1, Received, ReceiveTyped
  <2>3. switch # "strayed"
    BY <2>1, EvaluateSends DEF Posted
  <2>4. /\ ~exists /\ toWorker = <<>> /\ Len(toMain) = 1 /\ Clears = {}
    BY <2>2, <2>3 DEF Paged, OneClear
  <2>5. Replayed' = {} /\ Cleareds' = {} /\ Evs = {} /\ Trees = {} /\ Asked = {}
    BY <1>0, <2>2, <2>4 DEF Shifted
  <2>6. evals = "idle"
    BY <2>5 DEF OneEval
  <2>7. /\ Posted /\ Evs' = {1} /\ Clears' = {} /\ Asked' = {}
        /\ toWorker'[1].widgets = layout'
    <3>1. /\ Clears' = Clears /\ Asked' = Asked /\ Posted
          /\ Evs' = Evs \cup {Len(toWorker) + 1}
          /\ toWorker'[Len(toWorker) + 1].widgets = layout'
      BY <2>1, <2>6, EvaluateSends
    <3>2. Len(toWorker) + 1 = 1
      BY <1>0, <2>4
    <3> QED BY <2>4, <2>5, <3>1, <3>2
  <2>8. switch' = "done"
    BY <1>0, <2>1, <2>3, <2>7 DEF Posted
  <2> QED BY <2>1, <2>2, <2>4, <2>5, <2>7, <2>8 DEF Paged
<1>5. CASE ReceiveReplayed
  <2>1. /\ layout' \in Layouts /\ Evaluate(layout', FALSE, Differing(layout', Head(toMain).widgets)) /\ Receive("replayed")
        /\ UNCHANGED <<page, fetching, exists, canvas>>
    BY <1>5, ReplayedTyped DEF ReceiveReplayed
  <2>2. switch # "strayed"
    BY <2>1, EvaluateSends DEF Posted
  <2>3. layout' \in LayoutsOf(page)
    <3>1. Head(toMain).widgets \in LayoutsOf(page)
      BY <2>1, <2>2, Received DEF Paged
    <3>2. \A w \in Widgets : Head(toMain).widgets[w] = None => layout'[w] = None
      BY <1>5, ReplayedTyped
    <3> QED BY <2>1, <3>1, <3>2 DEF LayoutsOf
  <2>4. /\ Cleareds' # {} => Cleareds # {}
        /\ Cleareds' # {} => \A i \in Cleareds' : i = Len(toMain')
        /\ \A i \in Replayed' : toMain'[i].widgets \in LayoutsOf(page)
    BY <1>c, <2>1, <2>2
  <2>5. CASE evals = "idle"
    <3>1. /\ Posted /\ Evs' = Evs \cup {Len(toWorker) + 1}
          /\ Clears' = Clears /\ Asked' = Asked /\ Len(toWorker') = Len(toWorker) + 1
          /\ \A i \in 1..Len(toWorker) : toWorker'[i] = toWorker[i]
          /\ toWorker'[Len(toWorker) + 1].widgets = layout'
      BY <2>1, <2>5, EvaluateSends
    <3>2. switch = "done" /\ fetching = {} /\ switch' = switch
      BY <1>0, <2>1, <2>2, <3>1 DEF Posted, Paged
    <3>3. Cleareds' = {}
      BY <2>4, <3>2 DEF OneClear
    <3> QED BY <1>a, <2>1, <2>2, <2>3, <2>4, <3>1, <3>2, <3>3
  <2>6. CASE evals # "idle"
    <3>1. UNCHANGED <<toWorker, switch>>
      BY <2>1, <2>6, EvaluateSends
    <3> QED BY <1>b, <2>1, <2>2, <2>3, <2>4, <3>1
  <2> QED BY <2>5, <2>6
<1>6. CASE ReceiveNothing
  <2>1. /\ Receive("nothing") /\ toWorker' = toWorker
        /\ UNCHANGED <<page, fetching, layout, exists, canvas, switch>>
    BY <1>6, ReceiveTyped DEF ReceiveNothing
  <2>2. /\ Cleareds' # {} => Cleareds # {}
        /\ Cleareds' # {} => \A i \in Cleareds' : i = Len(toMain')
        /\ \A i \in Replayed' : toMain'[i].widgets \in LayoutsOf(page)
    BY <1>c, <2>1
  <2>3. layout' \in LayoutsOf(page) /\ switch # "strayed"
    BY <2>1 DEF Paged
  <2> QED BY <1>b, <2>1, <2>2, <2>3
<1>7. CASE ReceiveTree
  <2>1. /\ Receive("tree") /\ UNCHANGED <<page, fetching, layout, exists, canvas>>
    BY <1>7, ReceiveTyped DEF ReceiveTree
  <2>2. switch # "strayed"
    BY <1>7 DEF ReceiveTree, Posted
  <2>3. layout' \in LayoutsOf(page)
    BY <2>1, <2>2 DEF Paged
  <2>4. /\ Cleareds' # {} => Cleareds # {}
        /\ Cleareds' # {} => \A i \in Cleareds' : i = Len(toMain')
        /\ \A i \in Replayed' : toMain'[i].widgets \in LayoutsOf(page)
    BY <1>c, <2>1, <2>2
  <2>5. CASE evals = "buffered"
    <3>1. /\ Posted /\ Evs' = Evs \cup {Len(toWorker) + 1}
          /\ Clears' = Clears /\ Asked' = Asked /\ Len(toWorker') = Len(toWorker) + 1
          /\ \A i \in 1..Len(toWorker) : toWorker'[i] = toWorker[i]
          /\ toWorker'[Len(toWorker) + 1].widgets = layout
      BY <1>7, <2>5, TreeSends
    <3>2. switch = "done" /\ fetching = {} /\ switch' = switch
      BY <1>0, <2>1, <2>2, <3>1 DEF Posted, Paged
    <3>3. Cleareds' = {}
      BY <2>4, <3>2 DEF OneClear
    <3> QED BY <1>a, <2>1, <2>2, <2>3, <2>4, <3>1, <3>2, <3>3
  <2>6. CASE evals # "buffered"
    <3>1. UNCHANGED <<toWorker, switch>>
      BY <1>7, <2>6 DEF ReceiveTree
    <3> QED BY <1>b, <2>1, <2>2, <2>3, <2>4, <3>1
  <2> QED BY <2>5, <2>6
<1>8. ASSUME NEW quick \in BOOLEAN, EvalTree(quick) PROVE Paged'
  <2>1. /\ Take("eval") /\ UNCHANGED <<page, fetching, layout, evals, switch>>
        /\ toMain' = Append(toMain, [kind |-> "tree"]) /\ exists' = TRUE
    BY <1>8, TakeTyped DEF EvalTree
  <2>2. 1 \in Evs /\ Request = toWorker[1]
    BY <2>1, Taken
  <2>3. /\ Replayed' = Replayed /\ Cleareds' = Cleareds
        /\ \A i \in 1..Len(toMain) : toMain'[i] = toMain[i]
    BY <2>1, Answers, MessageFacts
  <2>4. /\ \A i \in Evs' : toWorker'[i].widgets \in LayoutsOf(page)
        /\ \A i \in Clears' : i = Len(toWorker')
        /\ Cleareds = {}
    BY <1>d, <2>1
  <2>5. OfPage(canvas', page)
    <3>1. Request.widgets \in LayoutsOf(page) /\ (exists => OfPage(canvas, page))
      BY <2>1, <2>2 DEF Paged
    <3> QED BY <1>0, <1>8, <3>1, OfPageEvaluated
  <2>6. \A i \in Replayed' : toMain'[i].widgets \in LayoutsOf(page)
    BY <1>0, <2>1, <2>3 DEF Paged
  <2>7. layout \in LayoutsOf(page) /\ (switch = "done" <=> fetching = {})
    BY <2>1 DEF Paged
  <2> QED BY <2>1, <2>3, <2>4, <2>5, <2>6, <2>7 DEF Paged
<1>9. ASSUME UndoAsked \/ RedoAsked PROVE Paged'
  <2>1. /\ Take("UNDO") \/ Take("REDO")
        /\ Good(canvas') /\ Shown(canvas') \in Layouts /\ exists' = exists
        /\ AllDiffs(canvas') \subseteq AllDiffs(canvas)
        /\ \A w \in Widgets : Shown(canvas')[w] # None =>
               Shown(canvas)[w] # None \/ \E d \in AllDiffs(canvas) : d.widget = w
        /\ \/ canvas' = canvas /\ toMain' = Append(toMain, [kind |-> "nothing"])
           \/ toMain' = Append(toMain, [kind |-> "replayed", widgets |-> Shown(canvas')])
    BY <1>9, UndoCanvas, RedoCanvas, GoodTyped DEF UndoAsked, RedoAsked
  <2>2. 1 \in Asked /\ 1 \notin Evs /\ Shifted(Evs', Evs) /\ UNCHANGED <<page, fetching, layout, evals, switch>>
    BY <2>1, Taken, TakeTyped
  <2>3. OfPage(canvas, page)
    BY <1>0, <2>2 DEF Paged
  <2>4. OfPage(canvas', page)
    BY <1>0, <2>1, <2>3, OfPageReplayed
  <2>5. /\ \A i \in Evs' : toWorker'[i].widgets \in LayoutsOf(page)
        /\ \A i \in Clears' : i = Len(toWorker')
        /\ Cleareds = {}
    BY <1>d, <2>1, <2>2
  <2>6. /\ Cleareds' = Cleareds
        /\ \A i \in Replayed' : toMain'[i].widgets \in LayoutsOf(page)
    <3>1. CASE toMain' = Append(toMain, [kind |-> "nothing"])
      <4>1. /\ Replayed' = Replayed /\ Cleareds' = Cleareds
            /\ \A i \in 1..Len(toMain) : toMain'[i] = toMain[i]
        BY <3>1, Answers, MessageFacts
      <4> QED BY <1>0, <2>2, <4>1 DEF Paged
    <3>2. CASE toMain' = Append(toMain, [kind |-> "replayed", widgets |-> Shown(canvas')])
      <4> DEFINE m == [kind |-> "replayed", widgets |-> Shown(canvas')]
      <4>1. m \in Replies /\ m.kind = "replayed" /\ m.widgets = Shown(canvas')
        BY <2>1, MessageFacts
      <4> HIDE DEF m
      <4>2. /\ Replayed' = Replayed \cup {Len(toMain) + 1} /\ Cleareds' = Cleareds
            /\ toMain'[Len(toMain) + 1].widgets = Shown(canvas')
            /\ \A i \in 1..Len(toMain) : toMain'[i] = toMain[i]
        BY <3>2, <4>1, Answers DEF m
      <4>3. Shown(canvas') \in LayoutsOf(page)
        BY <2>4 DEF OfPage
      <4> QED BY <1>0, <2>2, <4>2, <4>3 DEF Paged
    <3> QED BY <2>1, <3>1, <3>2
  <2>7. ~exists /\ fetching = {} => Evs' # {}
    BY <2>2 DEF Paged, Shifted
  <2>8. layout \in LayoutsOf(page) /\ (switch = "done" <=> fetching = {})
    BY <2>2 DEF Paged
  <2> QED BY <2>1, <2>2, <2>4, <2>5, <2>6, <2>7, <2>8 DEF Paged
<1>10. CASE ClearCache
  <2>1. /\ Take("clear") /\ UNCHANGED <<page, fetching, layout, switch>>
        /\ toMain' = Append(toMain, [kind |-> "cleared"])
        /\ exists' = FALSE /\ canvas' = canvas
    BY <1>10, TakeTyped DEF ClearCache
  <2>2. 1 \in Clears /\ Len(toWorker') = Len(toWorker) - 1 /\ toWorker' = Tail(toWorker)
    BY <2>1, Taken DEF Take
  <2>3. Len(toWorker) = 1 /\ Cleareds = {} /\ fetching # {}
    BY <2>1, <2>2 DEF Paged, OneClear
  <2>4. toWorker' = <<>> /\ Evs' = {} /\ Asked' = {} /\ Clears' = {}
    <3>1. toWorker' \in Seq(Requests) /\ Len(toWorker') = 0
      BY <2>1, <2>2, <2>3, TakeTyped
    <3>2. toWorker' = <<>>
      BY <3>1
    <3> QED BY <3>2 DEF Evs, Asked, Clears, At
  <2>5. /\ Cleareds' = {Len(toMain) + 1} /\ Replayed' = Replayed
        /\ \A i \in 1..Len(toMain) : toMain'[i] = toMain[i]
        /\ Len(toMain') = Len(toMain) + 1
    BY <2>1, <2>3, Answers, MessageFacts
  <2>6. \A i \in Replayed' : toMain'[i].widgets \in LayoutsOf(page)
    BY <1>0, <2>1, <2>5 DEF Paged
  <2>7. layout \in LayoutsOf(page) /\ (switch = "done" <=> fetching = {})
    BY <2>1 DEF Paged
  <2> QED BY <2>1, <2>3, <2>4, <2>5, <2>6, <2>7 DEF Paged
<1>11. CASE UNCHANGED vars
  <2>1. /\ Evs' = Evs /\ Asked' = Asked /\ Clears' = Clears
        /\ Replayed' = Replayed /\ Cleareds' = Cleareds
    BY <1>11, Still DEF vars
  <2> QED BY <1>11, <2>1 DEF vars, Paged
<1>12. ASSUME NEW l \in Layouts, Resize(l) PROVE Paged'
  <2>1. /\ UNCHANGED <<page, fetching, exists, canvas, switch>> /\ toWorker' = toWorker
        /\ toMain' = toMain /\ layout' \in LayoutsOf(page)
    BY <1>12 DEF Resize, EditTo
  <2>2. Cleareds' = Cleareds /\ Replayed' = Replayed
    BY <2>1, Still
  <2> QED BY <1>b, <2>1, <2>2 DEF Paged
<1> QED BY <1>1, <1>2, <1>3, <1>4, <1>5, <1>6, <1>7, <1>8, <1>9, <1>10, <1>11, <1>12 DEF Next

-----------------------------------------------------------------------------
(* The theorems                                                             *)

LEMMA InitInv == Init => IInv
<1> SUFFICES ASSUME Init PROVE IInv
  OBVIOUS
<1> USE DEF Init
<1>1. layout \in Layouts /\ page \in Pages /\ layout \in LayoutsOf(page)
  BY PageLayouts
<1>2. Good(canvas) /\ Shown(canvas) = layout /\ AllDiffs(canvas) = {}
  BY <1>1, NewCanvasGood
<1>3. canvas \in Canvas
  BY <1>2, GoodTyped
<1>4. /\ toWorker \in Seq(Requests) /\ toMain \in Seq(Replies)
      /\ edits \in 0..MaxEdits
  BY ReplayAssumption
<1>5. TypeOK
  BY <1>1, <1>3, <1>4 DEF TypeOK
<1>6. \A K : At(<<>>, K) = {}
  BY DEF At
<1>7. /\ Evs = {} /\ Clears = {} /\ Asked = {} /\ Trees = {}
      /\ Cleareds = {} /\ Answered = {} /\ Replayed = {}
  BY <1>6 DEF Evs, Clears, Asked, Trees, Cleareds, Answered, Replayed
<1>8. OneEval /\ OneClear
  BY <1>7 DEF OneEval, OneClear
<1>9. Tracked
  BY <1>2, <1>7 DEF Tracked, Latest, Differing
<1>10. Paged
  BY <1>1, <1>2, <1>7 DEF Paged, OfPage
<1> QED BY <1>2, <1>5, <1>8, <1>9, <1>10 DEF IInv

LEMMA StepInv == IInv /\ [Next]_vars => IInv'
<1> SUFFICES ASSUME IInv, [Next]_vars PROVE IInv'
  OBVIOUS
<1>1. TypeOK /\ Good(canvas) /\ OneEval /\ OneClear /\ Tracked /\ Paged
  BY DEF IInv
<1>2. TypeOK' /\ Good(canvas')
  BY <1>1, TypeStep
<1>3. OneEval'
  BY <1>1, OneEvalStep
<1>4. OneClear'
  BY <1>1, OneClearStep
<1>5. Tracked'
  BY <1>1, TrackedStep
<1>6. Paged'
  BY <1>1, PagedStep
<1> QED BY <1>2, <1>3, <1>4, <1>5, <1>6 DEF IInv

LEMMA Invariant == Spec => []IInv
BY InitInv, StepInv, PTL DEF Spec

\* Every message, stack, difference and object is of the type it is given: a
\* difference always holds an object, never "undefined" (ReplayCanvas, replay).
THEOREM TypeCorrect == Spec => []TypeOK
<1>1. IInv => TypeOK
  BY DEF IInv
<1> QED BY <1>1, Invariant, PTL

\* At rest the worker has the widgets of the canvas (update in evalTree, and the
\* answer of undo and redo that undoRedoSaga applies), whatever evaluations, undos
\* and page switches crossed on the way, but for the widgets that auto height and
\* layout updates changed since the replay object was told of any update.
THEOREM WorkerInSync == Spec => []InSync
<1>1. ASSUME IInv PROVE InSync
  <2>1. TypeOK /\ OneEval /\ Tracked
    BY <1>1 DEF IInv
  <2> SUFFICES ASSUME evals = "idle", Replaying = 0
               PROVE  Differing(Shown(canvas), layout) \subseteq unseen
    BY DEF InSync
  <2>2. Answered = {}
    BY <2>1, NoneReplaying
  <2>3. Replayed = {}
    BY <2>1, <2>2, Places
  <2>4. Latest(Shown(canvas))
    BY <2>1, IdleTracked
  <2> QED BY <2>3, <2>4 DEF Latest
<1> QED BY <1>1, Invariant, PTL

\* An undo of the old page never gets to the canvas of the new one: clearCache
\* takes the evaluator, and the evaluation of the new page a new replay object,
\* before the undo (handleFetchedPage, evalTree); but for an undo or evaluation
\* asked for while the page is fetched.
THEOREM PagesKeepTheirLayout == Spec => []OwnLayout
<1>1. IInv => OwnLayout
  BY DEF IInv, Paged, OwnLayout
<1> QED BY <1>1, Invariant, PTL

\* Whatever was added, changed, deleted, undone and redone before, an undo leads
\* to the widgets that were there before the update, and a redo to those before
\* the undo, in a replay object that is not torn (replay, applyDiffs).
THEOREM ReplaysAreExact == Spec => ReplaysExactly
<1>1. ASSUME IInv, UndoAsked, canvas.undo # <<>>, canvas'.torn = {}
      PROVE  Shown(canvas') = Last(canvas.undo).other
  <2>1. TypeOK /\ Good(canvas)
    BY <1>1 DEF IInv
  <2> QED BY <1>1, <2>1, UndoCanvas DEF Last
<1>2. ASSUME IInv, RedoAsked, canvas.redo # <<>>, canvas'.torn = {}
      PROVE  Shown(canvas') = Head(canvas.redo).other
  <2>1. TypeOK /\ Good(canvas)
    BY <1>2 DEF IInv
  <2>2. Shown(canvas') = canvas.redo[1].other
    BY <1>2, <2>1, RedoCanvas
  <2>3. canvas.redo \in Seq(Item)
    BY <2>1 DEF TypeOK, Canvas
  <2>4. Head(canvas.redo) = canvas.redo[1]
    BY <1>2, <2>3
  <2> QED BY <2>2, <2>4
<1>3. IInv => [/\ UndoAsked /\ canvas.undo # <<>> /\ canvas'.torn = {} =>
                      Shown(canvas') = Last(canvas.undo).other
               /\ RedoAsked /\ canvas.redo # <<>> /\ canvas'.torn = {} =>
                      Shown(canvas') = Head(canvas.redo).other]_vars
  BY <1>1, <1>2
<1> QED BY <1>3, Invariant, PTL DEF ReplaysExactly
=============================================================================
