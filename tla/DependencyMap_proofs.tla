------------------------- MODULE DependencyMap_proofs -------------------------
(***************************************************************************)
(* For any paths, code, trees and number of updates: the maps of the       *)
(* dependency map stay well typed and inverses of each other; no           *)
(* dependency is made up, code is connected to what it mentions, and what   *)
(* an update does not evaluate is not concerned by it.                      *)
(***************************************************************************)
EXTENDS DependencyMap, FiniteSetTheorems, WellFoundedInduction, TLAPS

\* The inductive invariant of the class: InversesAgree of any map, typed.
Sound(g) ==
    /\ g \in Maps
    /\ g.deps \subseteq g.inverse /\ g.invalid \subseteq g.invalidInverse
    /\ g.declared \subseteq g.nodes
    /\ \A e \in g.deps : e[1] \in g.declared /\ e[2] \in g.nodes
    /\ \A e \in g.invalid : e[1] \in g.declared /\ e[2] \notin g.nodes

\* What is known of the trees.
LEMMA TreeFacts ==
    /\ \A t \in Tree : /\ t.paths \subseteq Path /\ t.literal \subseteq Bound
                       /\ t.plain \subseteq Bound
                       /\ t.code \in [Bound -> SUBSET Path]
    /\ \A p \in Path : ~IsEntity(p) => Parent(p) \in Path
    /\ Bound \subseteq Path /\ MaxTrees \in Nat
BY TreeAssumption DEF WellFormed

\* addDependency keeps a sound map sound: what it takes from the inverse maps
\* it takes from the maps too.
LEMMA AddDependencySound ==
    ASSUME NEW g, Sound(g), NEW N, NEW R \in SUBSET Pairs
    PROVE  Sound(AddDependency(g, N, R)) /\ AddDependency(g, N, R).nodes = g.nodes
<1> DEFINE known == N \cap g.nodes
           valid == {e \in Rows(R, known) : e[2] \in g.nodes}
           invalid == Rows(R, known) \ valid
           h == AddDependency(g, N, R)
<1>1. /\ g.nodes \subseteq Path /\ g.declared \subseteq Path /\ g.deps \subseteq Pairs
      /\ g.inverse \subseteq Pairs /\ g.invalid \subseteq Pairs
      /\ g.invalidInverse \subseteq Pairs
  BY DEF Sound, Maps
<1>2. valid \subseteq R /\ invalid \subseteq R /\ known \subseteq g.nodes
  BY DEF Rows
<1>3. \A e \in valid : e[1] \in known /\ e[2] \in g.nodes
  BY DEF Rows
<1>4. \A e \in invalid : e[1] \in known /\ e[2] \notin g.nodes
  BY DEF Rows
<1>5. h = [g EXCEPT
             !.declared = @ \cup known,
             !.deps = (@ \ Rows(@, known)) \cup valid,
             !.invalid = (@ \ Rows(@, known)) \cup invalid,
             !.inverse = (@ \ (Rows(g.deps, known) \ valid)) \cup valid,
             !.invalidInverse = (@ \ (Rows(g.invalid, known) \ invalid)) \cup invalid]
  BY DEF AddDependency
<1> HIDE DEF known, valid, invalid, h
<1>6. /\ h.nodes = g.nodes /\ h.declared = g.declared \cup known
      /\ h.deps = (g.deps \ Rows(g.deps, known)) \cup valid
      /\ h.invalid = (g.invalid \ Rows(g.invalid, known)) \cup invalid
      /\ h.inverse = (g.inverse \ (Rows(g.deps, known) \ valid)) \cup valid
      /\ h.invalidInverse = (g.invalidInverse \ (Rows(g.invalid, known) \ invalid)) \cup invalid
  BY <1>5 DEF Sound, Maps
<1>7. h \in Maps
  BY <1>1, <1>2, <1>5, <1>6 DEF Sound, Maps
<1>8. h.deps \subseteq h.inverse /\ h.invalid \subseteq h.invalidInverse
  BY <1>6 DEF Sound
<1>9. Sound(h)
  BY <1>2, <1>3, <1>4, <1>6, <1>7, <1>8 DEF Sound
<1> QED BY <1>6, <1>9 DEF h

\* addNodes: a reference that was invalid and is a node now is taken over.
LEMMA AddNodesSound ==
    ASSUME NEW g, Sound(g), NEW all \in SUBSET Path
    PROVE  Sound(AddNodes(g, all))
<1> DEFINE new == all \ g.nodes
           taken == {e \in g.invalidInverse : \E x \in new : Takes(new, all, x, e[2])}
           joined == {e \in {w[1] : w \in taken} \X new :
                        \E w \in taken : w[1] = e[1] /\ Takes(new, all, e[2], w[2])}
           h == AddNodes(g, all)
<1>1. /\ g.nodes \subseteq Path /\ g.declared \subseteq Path /\ g.deps \subseteq Pairs
      /\ g.inverse \subseteq Pairs /\ g.invalid \subseteq Pairs
      /\ g.invalidInverse \subseteq Pairs
  BY DEF Sound, Maps
<1>2. \A w \in taken : w[1] \in Path
  BY <1>1 DEF Pairs
<1>3. joined \subseteq Pairs /\ \A e \in joined : e[2] \in new
  BY <1>2 DEF Pairs
<1>4. \A e \in g.invalid \ taken : e[2] \notin g.nodes \cup new
  BY DEF Sound, Takes
<1>5. h = [g EXCEPT !.nodes = @ \cup new, !.deps = @ \cup Rows(joined, g.declared),
                    !.inverse = @ \cup joined, !.invalid = @ \ taken,
                    !.invalidInverse = @ \ taken]
  BY DEF AddNodes
<1>6. new \subseteq Path
  OBVIOUS
<1> HIDE DEF new, taken, joined, h
<1>7. /\ h.nodes = g.nodes \cup new /\ h.declared = g.declared
      /\ h.deps = g.deps \cup Rows(joined, g.declared)
      /\ h.inverse = g.inverse \cup joined
      /\ h.invalid = g.invalid \ taken /\ h.invalidInverse = g.invalidInverse \ taken
  BY <1>5 DEF Sound, Maps
<1>8. Rows(joined, g.declared) \subseteq joined
      /\ \A e \in Rows(joined, g.declared) : e[1] \in g.declared
  BY DEF Rows
<1>9. h \in Maps
  BY <1>1, <1>3, <1>5, <1>6, <1>7, <1>8 DEF Sound, Maps
<1>10. /\ h.deps \subseteq h.inverse /\ h.invalid \subseteq h.invalidInverse
       /\ h.declared \subseteq h.nodes
  BY <1>7, <1>8 DEF Sound
<1>11. \A e \in h.deps : e[1] \in h.declared /\ e[2] \in h.nodes
  BY <1>3, <1>7, <1>8 DEF Sound
<1>12. \A e \in h.invalid : e[1] \in h.declared /\ e[2] \notin h.nodes
  BY <1>4, <1>7 DEF Sound
<1> QED BY <1>9, <1>10, <1>11, <1>12 DEF Sound, h

\* removeNodes: whoever used a removed node and stays waits for it.
LEMMA RemoveNodesSound ==
    ASSUME NEW g, Sound(g), NEW all \in SUBSET Path
    PROVE  Sound(RemoveNodes(g, all))
<1> DEFINE gone == all \cap g.nodes
           users == {e \in g.inverse : e[2] \in gone}
           waits == {e \in users : /\ e[1] \in g.nodes
                                   /\ e[1] \in gone => Rank[e[1]] > Rank[e[2]]}
           h == RemoveNodes(g, all)
<1>1. /\ g.nodes \subseteq Path /\ g.declared \subseteq Path /\ g.deps \subseteq Pairs
      /\ g.inverse \subseteq Pairs /\ g.invalid \subseteq Pairs
      /\ g.invalidInverse \subseteq Pairs
  BY DEF Sound, Maps
<1>2. users \subseteq g.inverse /\ waits \subseteq users /\ gone \subseteq g.nodes
  OBVIOUS
<1>3. \A e \in users : e[1] \in g.nodes \ gone => e \in waits
  OBVIOUS
<1>4. \A e \in users : e[2] \in gone
  OBVIOUS
<1>5. \A e \in g.deps \ users : e[2] \in g.nodes \ gone
  BY DEF Sound
<1>6. h = [g EXCEPT !.nodes = @ \ gone, !.declared = @ \ gone,
                    !.deps = @ \ (users \cup Rows(@, gone)),
                    !.inverse = @ \ (users \cup Rows(g.deps, gone)),
                    !.invalid = (@ \cup Rows(users, g.declared)) \ Rows(@ \cup users, gone),
                    !.invalidInverse = @ \cup waits]
  BY DEF RemoveNodes
<1> HIDE DEF gone, users, waits, h
<1>7. /\ h.nodes = g.nodes \ gone /\ h.declared = g.declared \ gone
      /\ h.deps = g.deps \ (users \cup Rows(g.deps, gone))
      /\ h.inverse = g.inverse \ (users \cup Rows(g.deps, gone))
      /\ h.invalid = (g.invalid \cup Rows(users, g.declared)) \ Rows(g.invalid \cup users, gone)
      /\ h.invalidInverse = g.invalidInverse \cup waits
  BY <1>6 DEF Sound, Maps
<1>8. /\ Rows(users, g.declared) \subseteq users
      /\ \A e \in Rows(users, g.declared) : e[1] \in g.declared
      /\ \A e \in g.deps : e[1] \in gone => e \in Rows(g.deps, gone)
      /\ \A e \in g.invalid \cup users : e[1] \in gone => e \in Rows(g.invalid \cup users, gone)
  BY DEF Rows
<1>9. h \in Maps
  BY <1>1, <1>2, <1>6, <1>7, <1>8 DEF Sound, Maps
<1>10. h.deps \subseteq h.inverse /\ h.declared \subseteq h.nodes
  BY <1>7 DEF Sound
<1>11. \A e \in h.invalid : e[1] \in h.declared /\ e[2] \notin h.nodes
  BY <1>2, <1>4, <1>7, <1>8 DEF Sound
<1>12. h.invalid \subseteq h.invalidInverse
  <2> SUFFICES ASSUME NEW e \in h.invalid PROVE e \in g.invalidInverse \cup waits
    BY <1>7
  <2>1. e[1] \in g.nodes \ gone
    BY <1>7, <1>11 DEF Sound
  <2> QED BY <1>3, <1>7, <1>8, <2>1 DEF Sound
<1>13. \A e \in h.deps : e[1] \in h.declared /\ e[2] \in h.nodes
  BY <1>5, <1>7, <1>8 DEF Sound
<1> QED BY <1>9, <1>10, <1>11, <1>12, <1>13 DEF Sound, h

\* makeParentsDependOnChildren is addDependency of parents.
LEMMA ParentsSound ==
    ASSUME NEW g, Sound(g)
    PROVE  Sound(MakeParentsDependOnChildren(g))
<1> DEFINE touched == {c \in Path : \E d \in g.declared \cup {e[2] : e \in g.deps} : Within(d, c)}
           missing == {<<Parent(c), c>> : c \in {d \in touched : ~IsEntity(d)}} \ g.deps
           parents == {e[1] : e \in missing}
<1>1. missing \subseteq Pairs
  BY TreeFacts DEF Pairs
<1>2. Rows(g.deps, parents) \subseteq Pairs
  BY DEF Rows, Sound, Maps
<1> HIDE DEF missing, parents
<1>3. Sound(AddDependency(g, parents, missing \cup Rows(g.deps, parents)))
  BY <1>1, <1>2, AddDependencySound
<1> QED BY <1>3 DEF MakeParentsDependOnChildren, missing, parents

\* The references found in a tree are pairs of paths.
LEMMA ReferencesType ==
    ASSUME NEW t, NEW N PROVE References(t, N) \in SUBSET Pairs
BY TreeFacts DEF References, Pairs

\* createDependencyMap starts from nothing.
LEMMA CreateSound ==
    ASSUME NEW t \in Tree PROVE Sound(CreateDependencyMap(t))
<1>1. Sound(EmptyMap)
  BY DEF Sound, EmptyMap, Maps
<1>2. Sound(AddNodes(EmptyMap, t.paths))
  BY <1>1, AddNodesSound, TreeFacts
<1>3. Sound(AddDependency(AddNodes(EmptyMap, t.paths), Bindings(t, Path), References(t, Path)))
  BY <1>2, AddDependencySound, ReferencesType
<1> QED BY <1>3, ParentsSound DEF CreateDependencyMap

\* The invariant that is inductive.
IInv == TypeOK /\ Sound(map)

LEMMA InitIInv == Init => IInv
<1> SUFFICES ASSUME Init PROVE IInv
  OBVIOUS
<1>1. Sound(EmptyMap)
  BY DEF Sound, EmptyMap, Maps
<1>2. trees \in 0..MaxTrees
  BY TreeFacts DEF Init
<1>3. tree \in Tree \cup {EmptyTree} /\ todo \subseteq Diffs /\ abandoned \subseteq Pairs
  BY DEF Init
<1> QED BY <1>1, <1>2, <1>3 DEF Init, IInv, TypeOK, Sound

\* Differences are between paths.
LEMMA DiffTypes ==
    ASSUME TypeOK, NEW t \in Tree
    PROVE  DiffOf(tree, t) \subseteq Diffs /\ Changed(tree, t) \subseteq Path
<1>1. tree.paths \subseteq Path /\ t.paths \subseteq Path
  BY TreeFacts DEF TypeOK, EmptyTree
<1>2. \A a, b : Roots(a, b) \subseteq a
  BY DEF Roots
<1>3. DiffOf(tree, t) \subseteq Diffs
  <2> SUFFICES ASSUME NEW d \in DiffOf(tree, t) PROVE d \in Diffs
    OBVIOUS
  <2>1. CASE \E p \in Roots(t.paths, tree.paths) :
               d = [event |-> "NEW", path |-> p, paths |-> Inside(p) \cap t.paths]
    BY <1>1, <1>2, <2>1 DEF Diffs
  <2>2. CASE \E p \in Roots(tree.paths, t.paths) :
               d = [event |-> "DELETE", path |-> p, paths |-> Inside(p) \cap tree.paths]
    BY <1>1, <1>2, <2>2 DEF Diffs
  <2>3. CASE \E b \in Bound : d = [event |-> "EDIT", path |-> b, paths |-> {b}]
    BY TreeFacts, <2>3 DEF Diffs
  <2> QED BY <2>1, <2>2, <2>3 DEF DiffOf, Edited
<1> QED BY <1>1, <1>2, <1>3, TreeFacts DEF Changed, Edited

\* A turn of the loop keeps the map sound.
LEMMA HandleDiffKeeps ==
    ASSUME IInv, NEW d \in todo, HandleDiff(d) PROVE IInv'
<1>1. d \in Diffs /\ d.path \in Path /\ d.paths \in SUBSET Path
  BY DEF IInv, TypeOK, Diffs
<1>2. /\ tree' = tree /\ last' = last /\ order' = order /\ cyclic' = cyclic
      /\ trees' = trees /\ changes' = changes
      /\ todo' \subseteq todo
  BY DEF HandleDiff
<1>3. CASE New(d)
  <2> DEFINE again == Redeclared(d)
  <2>1. Sound(AddNodes(map, d.paths))
    BY <1>1, AddNodesSound DEF IInv
  <2>2. map' = AddDependency(AddNodes(map, d.paths), again, References(tree, again))
    BY <1>3 DEF New
  <2> HIDE DEF again
  <2>3. Sound(map')
    BY <2>1, <2>2, AddDependencySound, ReferencesType
  <2> QED BY <1>2, <1>3, <2>3 DEF New, IInv, TypeOK, Sound
<1>4. CASE Delete(d)
  <2>1. Sound(map')
    BY <1>1, <1>4, RemoveNodesSound DEF Delete, IInv
  <2>2. dependants' \subseteq Path
    BY <1>4 DEF Delete, IInv, TypeOK, Maps, Pairs
  <2>3. abandoned' \subseteq Pairs
    BY <1>4, <2>1 DEF Delete, IInv, TypeOK, Rows, Sound, Maps
  <2>4. retained' \subseteq Path
    BY <1>4 DEF Delete, IInv, TypeOK
  <2> QED BY <1>2, <2>1, <2>2, <2>3, <2>4 DEF IInv, TypeOK, Sound
<1>5. CASE EditPath(d)
  <2>1. Sound(map')
    BY <1>5, AddDependencySound, ReferencesType DEF EditPath, IInv
  <2>2. retained' \subseteq Path
    BY <1>1, <1>5 DEF EditPath, IInv, TypeOK
  <2> QED BY <1>2, <1>5, <2>1, <2>2 DEF EditPath, IInv, TypeOK, Sound
<1> QED BY <1>3, <1>4, <1>5 DEF HandleDiff

\* Every step keeps the invariant.
LEMMA NextIInv == IInv /\ [Next]_vars => IInv'
<1> SUFFICES ASSUME IInv, [Next]_vars PROVE IInv'
  OBVIOUS
<1>1. ASSUME NEW t \in Tree, UpdateTree(t) PROVE IInv'
  <2>1. todo' \subseteq Diffs /\ changes' \subseteq Path
    BY <1>1, DiffTypes DEF UpdateTree, IInv
  <2>2. trees' \in 0..MaxTrees
    BY <1>1, TreeFacts DEF UpdateTree, IInv, TypeOK
  <2> QED BY <1>1, <2>1, <2>2 DEF UpdateTree, IInv, TypeOK, Sound
<1>2. ASSUME NEW t \in Tree, SetupFirstTree(t) PROVE IInv'
  <2>1. Sound(map')
    BY <1>2, CreateSound DEF SetupFirstTree
  <2>2. trees' \in 0..MaxTrees
    BY <1>2, TreeFacts DEF SetupFirstTree, IInv, TypeOK
  <2>3. cyclic' \in BOOLEAN
    BY <1>2 DEF SetupFirstTree, HasCycle
  <2> QED BY <1>2, <2>1, <2>2, <2>3 DEF SetupFirstTree, IInv, TypeOK, Sound
<1>3. ASSUME NEW p \in Path, Touch(p) PROVE IInv'
  BY <1>3 DEF Touch, IInv, TypeOK, Sound
<1>4. ASSUME NEW d \in todo, HandleDiff(d) PROVE IInv'
  BY <1>4, HandleDiffKeeps
<1>5. CASE Sort
  <2>1. Sound(map')
    BY <1>5, ParentsSound DEF Sort, IInv
  <2>2. cyclic' \in BOOLEAN
    BY <1>5 DEF Sort, HasCycle
  <2>3. order' \subseteq Bound
    BY <1>5 DEF Sort, EvaluationOrder
  <2> QED BY <1>5, <2>1, <2>2, <2>3 DEF Sort, IInv, TypeOK, Sound
<1>6. CASE UNCHANGED vars
  BY <1>6 DEF vars, IInv, TypeOK, Sound
<1> QED BY <1>1, <1>2, <1>3, <1>4, <1>5, <1>6 DEF Next

LEMMA Inductive == Spec => []IInv
BY InitIInv, NextIInv, PTL DEF Spec

\* The map and what is evaluated of it stay well typed (TypeOK).
THEOREM TypeCorrect == Spec => []TypeOK
<1>1. IInv => TypeOK
  BY DEF IInv
<1> QED BY Inductive, <1>1, PTL

\* Every dependency can be found from the path it is on, every path that waits
\* from the one it waits for, and valid and invalid dependencies stay apart
\* (InversesAgree), whatever is added, removed and edited in whatever order.
THEOREM MapsAreInverse == Spec => []InversesAgree
<1>1. IInv => InversesAgree
  BY DEF IInv, Sound, InversesAgree
<1> QED BY Inductive, <1>1, PTL

-----------------------------------------------------------------------------
(* Paths                                                                    *)

LEMMA PathFacts ==
    ASSUME NEW p \in Path
    PROVE  p \in Seq(STRING) /\ Len(p) \in Nat /\ Len(p) >= 1
BY TreeAssumption

\* One path is within another if it starts with its names.
LEMMA WithinElements ==
    ASSUME NEW c \in Seq(STRING), NEW p \in Seq(STRING)
    PROVE  Within(c, p) <=> Len(p) <= Len(c) /\ \A i \in 1..Len(p) : p[i] = c[i]
<1>1. CASE Len(p) <= Len(c)
  <2>1. /\ SubSeq(p, 1, Len(p)) \in Seq(STRING) /\ Len(SubSeq(p, 1, Len(p))) = Len(p)
        /\ \A i \in 1..Len(p) : SubSeq(p, 1, Len(p))[i] = p[i]
    OBVIOUS
  <2>2. /\ SubSeq(c, 1, Len(p)) \in Seq(STRING) /\ Len(SubSeq(c, 1, Len(p))) = Len(p)
        /\ \A i \in 1..Len(p) : SubSeq(c, 1, Len(p))[i] = c[i]
    BY <1>1
  <2>3. SubSeq(p, 1, Len(p)) = SubSeq(c, 1, Len(p)) <=> \A i \in 1..Len(p) : p[i] = c[i]
    BY <2>1, <2>2
  <2> QED BY <1>1, <2>3 DEF Within, IsPrefix
<1>2. CASE ~(Len(p) <= Len(c))
  BY <1>2 DEF Within, IsPrefix
<1> QED BY <1>1, <1>2

LEMMA WithinSelf == ASSUME NEW p \in Path PROVE Within(p, p)
BY PathFacts, WithinElements

LEMMA WithinTransitive ==
    ASSUME NEW a \in Path, NEW b \in Path, NEW c \in Path, Within(a, b), Within(b, c)
    PROVE  Within(a, c)
BY PathFacts, WithinElements

\* Two paths above one path are one within the other.
LEMMA WithinLinear ==
    ASSUME NEW c \in Path, NEW p \in Path, NEW q \in Path, Within(c, p), Within(c, q)
    PROVE  Within(p, q) \/ Within(q, p)
BY PathFacts, WithinElements

LEMMA WithinAntisymmetric ==
    ASSUME NEW p \in Path, NEW q \in Path, Within(p, q), Within(q, p)
    PROVE  p = q
<1>1. Len(p) = Len(q) /\ \A i \in 1..Len(p) : p[i] = q[i]
  BY PathFacts, WithinElements
<1> QED BY <1>1, PathFacts

\* The parent is the path above, and nothing is between.
LEMMA ParentFacts ==
    ASSUME NEW p \in Path, ~IsEntity(p)
    PROVE  /\ Parent(p) \in Path /\ Within(p, Parent(p)) /\ Below(p, Parent(p))
           /\ Len(Parent(p)) = Len(p) - 1
           /\ \A q \in Path : Below(p, q) => Within(Parent(p), q)
<1>1. p \in Seq(STRING) /\ Len(p) \in Nat /\ Len(p) >= 2
  <2>1. p \in Seq(STRING) /\ Len(p) \in Nat /\ Len(p) >= 1
    BY PathFacts
  <2>2. Len(p) # 1
    BY DEF IsEntity
  <2> QED BY <2>1, <2>2
<1>2. Parent(p) \in Path
  BY TreeFacts
<1>3. Len(Parent(p)) = Len(p) - 1 /\ \A i \in 1..Len(p) - 1 : Parent(p)[i] = p[i]
  BY <1>1 DEF Parent, Front
<1>4. Within(p, Parent(p)) /\ p # Parent(p)
  BY <1>1, <1>2, <1>3, PathFacts, WithinElements
<1>5. ASSUME NEW q \in Path, Below(p, q) PROVE Within(Parent(p), q)
  <2>1. Within(p, q) /\ p # q
    BY <1>5 DEF Below, IsStrictPrefix, Within
  <2>2. q \in Seq(STRING) /\ Len(q) \in Nat /\ Len(q) <= Len(p) /\ \A i \in 1..Len(q) : q[i] = p[i]
    BY <1>1, <2>1, PathFacts, WithinElements
  <2>3. Len(q) # Len(p)
    BY <1>1, <2>1, <2>2
  <2>4. Parent(p) \in Seq(STRING)
    BY <1>2, PathFacts
  <2> QED BY <1>1, <1>3, <2>2, <2>3, <2>4, WithinElements
<1> QED BY <1>2, <1>3, <1>4, <1>5 DEF Below, IsStrictPrefix, Within

LEMMA BelowIsWithin ==
    ASSUME NEW p \in Path, NEW q \in Path
    PROVE  Below(p, q) <=> Within(p, q) /\ p # q
BY DEF Below, Within, IsStrictPrefix

LEMMA Smallest ==
    ASSUME NEW S \in SUBSET Nat, S # {}
    PROVE  \E n \in S : \A m \in S : n <= m
<1> DEFINE R == OpToRel(<, Nat)
<1>1. \E n \in S : \A m \in S : ~(<<m, n>> \in R)
  <2>1. IsWellFoundedOn(R, Nat)
    BY NatLessThanWellFounded
  <2> HIDE DEF R
  <2> QED BY <2>1, WFMin
<1>2. \A m, n \in Nat : m < n => <<m, n>> \in R
  BY DEF OpToRel
<1> HIDE DEF R
<1>3. PICK n \in S : \A m \in S : ~(<<m, n>> \in R)
  BY <1>1
<1>4. \A m \in S : ~(m < n)
  BY <1>2, <1>3
<1> QED BY <1>4

\* Of the paths above a path there is a longest and a shortest in every set
\* that has one.
LEMMA ShortestAbove ==
    ASSUME NEW S \in SUBSET Path, S # {}
    PROVE  \E q \in S : \A o \in S : Len(q) <= Len(o)
<1> DEFINE N == {Len(q) : q \in S}
<1>1. N \in SUBSET Nat /\ N # {}
  BY PathFacts
<1>2. PICK n \in N : \A m \in N : n <= m
  BY <1>1, Smallest
<1> QED BY <1>2

LEMMA LongestAbove ==
    ASSUME NEW r \in Path, NEW S \in SUBSET Path, S # {}, \A q \in S : Within(r, q)
    PROVE  \E q \in S : \A o \in S : Len(o) <= Len(q)
<1> DEFINE N == {Len(r) - Len(q) : q \in S}
<1>1. Len(r) \in Nat /\ \A q \in S : Len(q) \in Nat /\ Len(q) <= Len(r)
  BY PathFacts, WithinElements
<1>2. N \in SUBSET Nat /\ N # {}
  BY <1>1
<1>3. PICK n \in N : \A m \in N : n <= m
  BY <1>2, Smallest
<1>4. PICK q \in S : n = Len(r) - Len(q)
  BY <1>3
<1>5. \A o \in S : Len(r) - Len(q) <= Len(r) - Len(o)
  BY <1>3, <1>4
<1>6. \A o \in S : Len(o) <= Len(q)
  BY <1>1, <1>5
<1> QED BY <1>6

-----------------------------------------------------------------------------
(* Trees                                                                    *)

\* A set of paths that has their parents has everything above them.
Closed(S) == \A p \in S : IsEntity(p) \/ Parent(p) \in S

LEMMA ClosedAbove ==
    ASSUME NEW S \in SUBSET Path, Closed(S), NEW p \in S, NEW q \in Path, Within(p, q)
    PROVE  q \in S
<1> DEFINE T == {o \in S : Within(o, q)}
<1>1. T \in SUBSET Path /\ T # {}
  OBVIOUS
<1>2. PICK o \in T : \A x \in T : Len(o) <= Len(x)
  BY <1>1, ShortestAbove
<1>3. CASE o = q
  BY <1>3
<1>4. CASE o # q
  <2>1. Below(o, q)
    BY <1>2, <1>4, BelowIsWithin
  <2>2. ~IsEntity(o)
    <3>1. o \in Path /\ Len(o) \in Nat /\ Len(q) \in Nat /\ Len(q) >= 1 /\ o \in Seq(STRING) /\ q \in Seq(STRING)
      BY <1>2, PathFacts
    <3>2. Within(o, q)
      BY <1>2
    <3>3. Len(q) <= Len(o) /\ \A i \in 1..Len(q) : q[i] = o[i]
      BY <3>1, <3>2, WithinElements
    <3>4. Len(o) # Len(q)
      BY <1>4, <3>1, <3>3
    <3> QED BY <3>1, <3>3, <3>4 DEF IsEntity
  <2>3. Parent(o) \in S /\ Within(Parent(o), q) /\ Len(Parent(o)) = Len(o) - 1
    BY <1>2, <2>1, <2>2, ParentFacts DEF Closed
  <2>4. Len(o) <= Len(o) - 1
    BY <1>2, <2>3
  <2>5. Len(o) \in Nat
    BY <1>2, PathFacts
  <2> QED BY <2>4, <2>5
<1> QED BY <1>3, <1>4

\* What differs is in the paths of exactly one difference.
LEMMA RootsFacts ==
    ASSUME NEW A \in SUBSET Path, NEW B \in SUBSET Path, Closed(A), Closed(B)
    PROVE  /\ \A p \in A \ B : \E q \in Roots(A, B) : Within(p, q)
           /\ \A q \in Roots(A, B) : Inside(q) \cap B = {}
           /\ \A q, x \in Roots(A, B) : Inside(q) \cap Inside(x) # {} => q = x
<1>1. ASSUME NEW p \in A \ B PROVE \E q \in Roots(A, B) : Within(p, q)
  <2> DEFINE T == {o \in A \ B : Within(p, o)}
  <2>1. T \in SUBSET Path /\ p \in T
    BY WithinSelf
  <2>2. PICK q \in T : \A x \in T : Len(q) <= Len(x)
    BY <2>1, ShortestAbove
  <2>3. CASE IsEntity(q)
    BY <2>2, <2>3 DEF Roots
  <2>4. CASE ~IsEntity(q)
    <3>1. /\ Parent(q) \in A /\ Parent(q) \in Path /\ Within(q, Parent(q))
          /\ Len(Parent(q)) = Len(q) - 1 /\ Len(q) \in Nat
      BY <2>2, <2>4, ParentFacts, PathFacts DEF Closed
    <3>2. Within(p, Parent(q))
      BY <2>2, <3>1, WithinTransitive
    <3>3. Parent(q) \notin T
      BY <2>2, <3>1
    <3> QED BY <2>2, <3>1, <3>2, <3>3 DEF Roots
  <2> QED BY <2>3, <2>4
<1>2. ASSUME NEW q \in Roots(A, B), NEW p \in Inside(q) \cap B PROVE FALSE
  BY <1>2, ClosedAbove DEF Roots, Inside
<1>3. ASSUME NEW q \in Roots(A, B), NEW x \in Roots(A, B), Below(x, q) PROVE FALSE
  <2>1. q \in Path /\ x \in Path /\ x \notin B /\ q \notin B /\ (IsEntity(x) \/ Parent(x) \in B)
    BY DEF Roots
  <2>2. Within(x, q) /\ x # q
    BY <1>3, <2>1, BelowIsWithin
  <2>3. ~IsEntity(x)
    <3>1. x \in Seq(STRING) /\ q \in Seq(STRING) /\ Len(x) \in Nat /\ Len(q) \in Nat /\ Len(q) >= 1
      BY <2>1, PathFacts
    <3>2. Len(q) <= Len(x) /\ \A i \in 1..Len(q) : q[i] = x[i]
      BY <2>2, <3>1, WithinElements
    <3>3. Len(x) # Len(q)
      BY <2>2, <3>1, <3>2
    <3> QED BY <3>1, <3>2, <3>3 DEF IsEntity
  <2>4. Within(Parent(x), q)
    BY <1>3, <2>1, <2>3, ParentFacts
  <2> QED BY <2>1, <2>3, <2>4, ClosedAbove
<1>4. ASSUME NEW q \in Roots(A, B), NEW x \in Roots(A, B), NEW p \in Inside(q) \cap Inside(x)
      PROVE  q = x
  <2>1. q \in Path /\ x \in Path /\ p \in Path /\ Within(p, q) /\ Within(p, x)
    BY DEF Roots, Inside
  <2>2. Within(q, x) \/ Within(x, q)
    BY <2>1, WithinLinear
  <2> QED BY <1>3, <2>1, <2>2, BelowIsWithin
<1> QED BY <1>1, <1>2, <1>4

-----------------------------------------------------------------------------
(* What the methods of the class keep                                       *)

\* X are the pairs there is a reason for, L those that may be left over in an
\* inverse map without being a dependency.
Founded(g, X, L) ==
    /\ g.deps \cup g.invalid \subseteq X
    /\ g.inverse \ g.deps \subseteq L
    /\ g.invalidInverse \ g.invalid \subseteq L

\* Declaring paths again drops what they had for what is given.
LEMMA AddDependencyFounded ==
    ASSUME NEW g, Sound(g), NEW N, NEW R, NEW X, NEW L,
           g.inverse \ g.deps \subseteq L, g.invalidInverse \ g.invalid \subseteq L,
           \A e \in g.deps \cup g.invalid : e[1] \in N \cap g.nodes \/ e \in X,
           \A e \in R : e[1] \in N \cap g.nodes => e \in X
    PROVE  Founded(AddDependency(g, N, R), X, L)
<1> DEFINE known == N \cap g.nodes
           valid == {e \in Rows(R, known) : e[2] \in g.nodes}
           invalid == Rows(R, known) \ valid
           h == AddDependency(g, N, R)
<1>1. \A S : \A e : e \in Rows(S, known) <=> e \in S /\ e[1] \in N \cap g.nodes
  BY DEF Rows
<1>2. valid \subseteq X /\ invalid \subseteq X
  BY <1>1
<1>3. /\ h.deps = (g.deps \ Rows(g.deps, known)) \cup valid
      /\ h.invalid = (g.invalid \ Rows(g.invalid, known)) \cup invalid
      /\ h.inverse = (g.inverse \ (Rows(g.deps, known) \ valid)) \cup valid
      /\ h.invalidInverse = (g.invalidInverse \ (Rows(g.invalid, known) \ invalid)) \cup invalid
  <2>1. h = [g EXCEPT
               !.declared = @ \cup known,
               !.deps = (@ \ Rows(@, known)) \cup valid,
               !.invalid = (@ \ Rows(@, known)) \cup invalid,
               !.inverse = (@ \ (Rows(g.deps, known) \ valid)) \cup valid,
               !.invalidInverse = (@ \ (Rows(g.invalid, known) \ invalid)) \cup invalid]
    BY DEF AddDependency
  <2> HIDE DEF known, valid, invalid, h
  <2> QED BY <2>1 DEF Sound, Maps
<1> HIDE DEF known, valid, invalid, h
<1>4. h.deps \cup h.invalid \subseteq X
  BY <1>1, <1>2, <1>3
<1>5. h.inverse \ h.deps \subseteq L /\ h.invalidInverse \ h.invalid \subseteq L
  BY <1>3
<1> QED BY <1>4, <1>5 DEF Founded, h

\* A path that is added takes over reasons from what is below it, as long as
\* reasons reach upwards.
LEMMA AddNodesFounded ==
    ASSUME NEW g, Sound(g), NEW all \in SUBSET Path, NEW X, NEW L, Founded(g, X, L), L \subseteq X,
           \A e \in L, x \in Path : Within(e[2], x) => <<e[1], x>> \in L,
           \A e \in g.invalid, x \in all \ g.nodes : Within(e[2], x) => <<e[1], x>> \in X
    PROVE  Founded(AddNodes(g, all), X, L)
<1> DEFINE new == all \ g.nodes
           taken == {e \in g.invalidInverse : \E x \in new : Takes(new, all, x, e[2])}
           joined == {e \in {w[1] : w \in taken} \X new :
                        \E w \in taken : w[1] = e[1] /\ Takes(new, all, e[2], w[2])}
           h == AddNodes(g, all)
<1>1. ASSUME NEW e \in joined
      PROVE  /\ e[1] \in g.declared => e \in X
             /\ e[1] \notin g.declared => e \in L
  <2>1. PICK w \in g.invalidInverse : w[1] = e[1] /\ Takes(new, all, e[2], w[2])
    OBVIOUS
  <2>2. e = <<e[1], e[2]>> /\ e[2] \in all \ g.nodes /\ e[2] \in Path
    OBVIOUS
  <2>3. w[2] \in Path
    BY DEF Sound, Maps, Pairs
  <2>4. Within(w[2], e[2])
    BY <2>1, <2>2, <2>3, WithinSelf, BelowIsWithin DEF Takes
  <2>5. CASE w \in g.invalid
    <3>1. <<w[1], e[2]>> \in X
      BY <2>2, <2>4, <2>5
    <3>2. w[1] \in g.declared
      BY <2>5 DEF Sound
    <3> QED BY <2>1, <2>2, <3>1, <3>2
  <2>6. CASE w \notin g.invalid
    <3>1. w \in L
      BY <2>6 DEF Founded
    <3>2. <<w[1], e[2]>> \in L
      BY <2>2, <2>4, <3>1
    <3> QED BY <2>1, <2>2, <3>2
  <2> QED BY <2>5, <2>6
<1>2. /\ h.deps = g.deps \cup Rows(joined, g.declared) /\ h.inverse = g.inverse \cup joined
      /\ h.invalid = g.invalid \ taken /\ h.invalidInverse = g.invalidInverse \ taken
  <2>1. h = [g EXCEPT !.nodes = @ \cup new, !.deps = @ \cup Rows(joined, g.declared),
                      !.inverse = @ \cup joined, !.invalid = @ \ taken,
                      !.invalidInverse = @ \ taken]
    BY DEF AddNodes
  <2> HIDE DEF new, taken, joined, h
  <2> QED BY <2>1 DEF Sound, Maps
<1> HIDE DEF new, taken, joined, h
<1>3. \A e : e \in Rows(joined, g.declared) <=> e \in joined /\ e[1] \in g.declared
  BY DEF Rows
<1>4. h.deps \cup h.invalid \subseteq X
  BY <1>1, <1>2, <1>3 DEF Founded
<1>5. h.inverse \ h.deps \subseteq L /\ h.invalidInverse \ h.invalid \subseteq L
  BY <1>1, <1>2, <1>3 DEF Founded
<1> QED BY <1>4, <1>5 DEF Founded, h

\* What removed paths waited for is left over, and the reasons of those that
\* stay are kept.
LEMMA RemoveNodesFounded ==
    ASSUME NEW g, Sound(g), NEW all, NEW X, NEW L, Founded(g, X, L),
           NEW Y, NEW M, L \subseteq M, M \subseteq Y, L \subseteq X,
           \A e \in X : e[1] \notin all \cap g.nodes => e \in Y,
           \A e \in RemoveNodes(g, all).invalidInverse : e[1] \in all => e \in M
    PROVE  Founded(RemoveNodes(g, all), Y, M)
<1> DEFINE gone == all \cap g.nodes
           users == {e \in g.inverse : e[2] \in gone}
           waits == {e \in users : /\ e[1] \in g.nodes
                                   /\ e[1] \in gone => Rank[e[1]] > Rank[e[2]]}
           h == RemoveNodes(g, all)
<1>1. /\ waits \subseteq users /\ users \subseteq g.inverse /\ gone \subseteq all
      /\ \A e \in X : e[1] \notin gone => e \in Y
  OBVIOUS
<1>2. /\ h.deps = g.deps \ (users \cup Rows(g.deps, gone))
      /\ h.inverse = g.inverse \ (users \cup Rows(g.deps, gone))
      /\ h.invalid = (g.invalid \cup Rows(users, g.declared)) \ Rows(g.invalid \cup users, gone)
      /\ h.invalidInverse = g.invalidInverse \cup waits
  <2>1. h = [g EXCEPT !.nodes = @ \ gone, !.declared = @ \ gone,
                      !.deps = @ \ (users \cup Rows(@, gone)),
                      !.inverse = @ \ (users \cup Rows(g.deps, gone)),
                      !.invalid = (@ \cup Rows(users, g.declared)) \ Rows(@ \cup users, gone),
                      !.invalidInverse = @ \cup waits]
    BY DEF RemoveNodes
  <2> HIDE DEF gone, users, waits, h
  <2> QED BY <2>1 DEF Sound, Maps
<1>3. \A e \in h.invalidInverse : e[1] \in gone => e \in M
  BY <1>1
<1> HIDE DEF gone, users, waits, h
<1>4. \A S, N : \A e : e \in Rows(S, N) <=> e \in S /\ e[1] \in N
  BY DEF Rows
<1>5. \A e \in g.inverse : e \in X
  BY DEF Founded
<1>6. h.deps \cup h.invalid \subseteq Y
  BY <1>1, <1>2, <1>4, <1>5 DEF Founded
<1>7. h.inverse \ h.deps \subseteq M
  BY <1>2 DEF Founded
<1>8. h.invalidInverse \ h.invalid \subseteq M
  <2> SUFFICES ASSUME NEW e \in h.invalidInverse, e \notin h.invalid, e[1] \notin gone PROVE e \in M
    BY <1>3
  <2>1. e \notin g.invalid \cup Rows(users, g.declared)
    BY <1>2, <1>4
  <2>2. CASE e \in g.invalidInverse
    BY <2>1, <2>2 DEF Founded
  <2>3. CASE e \in waits
    <3>1. e[1] \notin g.declared
      BY <1>1, <1>4, <2>1, <2>3
    <3>2. e \notin g.deps
      BY <3>1 DEF Sound
    <3> QED BY <1>1, <2>3, <3>2 DEF Founded
  <2> QED BY <1>2, <2>2, <2>3
<1> QED BY <1>6, <1>7, <1>8 DEF Founded, h

\* A parent depends on its child, with a reason of its own.
LEMMA ParentsFounded ==
    ASSUME NEW g, Sound(g), NEW X, NEW L, Founded(g, X, L),
           \A c \in Path : ~IsEntity(c) => <<Parent(c), c>> \in X
    PROVE  Founded(MakeParentsDependOnChildren(g), X, L)
<1> DEFINE touched == {c \in Path : \E d \in g.declared \cup {e[2] : e \in g.deps} : Within(d, c)}
           missing == {<<Parent(c), c>> : c \in {d \in touched : ~IsEntity(d)}} \ g.deps
           parents == {e[1] : e \in missing}
<1>1. missing \subseteq X
  OBVIOUS
<1>2. Rows(g.deps, parents) \subseteq X
  BY DEF Rows, Founded
<1> HIDE DEF missing, parents
<1>3. /\ g.inverse \ g.deps \subseteq L /\ g.invalidInverse \ g.invalid \subseteq L
      /\ \A e \in g.deps \cup g.invalid : e \in X
      /\ \A e \in missing \cup Rows(g.deps, parents) : e \in X
  BY <1>1, <1>2 DEF Founded
<1> DEFINE R == missing \cup Rows(g.deps, parents)
<1> HIDE DEF R
<1>4. \A e \in R : e \in X
  BY <1>3 DEF R
<1>5. Founded(AddDependency(g, parents, R), X, L)
  BY <1>3, <1>4, AddDependencyFounded
<1> QED BY <1>5 DEF MakeParentsDependOnChildren, missing, parents, R

-----------------------------------------------------------------------------
(* The nodes during an update                                               *)

\* What is known of a tree.
Shaped(t) ==
    /\ t.paths \in SUBSET Path /\ Closed(t.paths)
    /\ t.code \in [Bound -> SUBSET Path]
    /\ \A b \in Bound : b \notin t.paths \ (t.literal \cup t.plain) => t.code[b] = {}

LEMMA TreesShaped == \A t \in Tree \cup {EmptyTree} : Shaped(t)
<1>1. \A t \in Tree : Shaped(t)
  BY TreeFacts, TreeAssumption DEF WellFormed, Shaped, Closed
<1>2. Shaped(EmptyTree)
  BY DEF EmptyTree, Shaped, Closed
<1> QED BY <1>1, <1>2

\* The nodes are the paths of the tree but those that are still to be added,
\* and those that are still to be removed; a difference has whole subtrees.
NodesInv ==
    /\ Closed(map.nodes)
    /\ \A p \in Path :
          p \in map.nodes <=>
              \/ p \in tree.paths /\ \A d \in todo : d.event = "NEW" => p \notin d.paths
              \/ \E d \in todo : d.event = "DELETE" /\ p \in d.paths
    /\ \A d \in todo :
          /\ d.event = "NEW" =>
                /\ d.paths \subseteq Inside(d.path) \cap tree.paths
                /\ \A p \in d.paths : \/ IsEntity(p) \/ Parent(p) \in d.paths
                                      \/ Parent(p) \in tree.paths \cap map.nodes
          /\ d.event = "DELETE" =>
                /\ d.paths \cap tree.paths = {}
                /\ \A p \in map.nodes : ~IsEntity(p) /\ Parent(p) \in d.paths => p \in d.paths
          /\ d.event = "EDIT" => d.path \in Bound \cap tree.paths \cap map.nodes
    /\ \A d, x \in todo :
          d.event = x.event /\ d.event # "EDIT" /\ d # x => d.paths \cap x.paths = {}

LEMMA NodesWhenDone ==
    ASSUME IInv, NodesInv, todo = {}
    PROVE  map.nodes = tree.paths
<1>1. map.nodes \subseteq Path
  BY DEF IInv, Sound, Maps
<1>2. tree.paths \subseteq Path
  BY TreesShaped DEF IInv, TypeOK, Shaped
<1> QED BY <1>1, <1>2 DEF NodesInv

\* The differences of two trees.
LEMMA DiffShape ==
    ASSUME NEW old, NEW new, NEW d \in DiffOf(old, new)
    PROVE  \/ /\ d.path \in Roots(new.paths, old.paths) /\ d.event = "NEW"
              /\ d.paths = Inside(d.path) \cap new.paths
              /\ d = [event |-> "NEW", path |-> d.path, paths |-> d.paths]
           \/ /\ d.path \in Roots(old.paths, new.paths) /\ d.event = "DELETE"
              /\ d.paths = Inside(d.path) \cap old.paths
              /\ d = [event |-> "DELETE", path |-> d.path, paths |-> d.paths]
           \/ d.path \in Bound \cap old.paths \cap new.paths /\ d.event = "EDIT"
BY DEF DiffOf, Edited

LEMMA UpdateTreeNodes ==
    ASSUME IInv, NodesInv, NEW t \in Tree, UpdateTree(t)
    PROVE  NodesInv'
<1> DEFINE old == tree.paths
           new == t.paths
           D == DiffOf(tree, t)
<1>1. todo = {} /\ todo' = D /\ tree' = t /\ map' = map
  BY DEF UpdateTree, Idle
<1>2. map.nodes = old
  BY <1>1, NodesWhenDone
<1>3. /\ old \in SUBSET Path /\ new \in SUBSET Path /\ Closed(old) /\ Closed(new)
  BY TreesShaped DEF IInv, TypeOK, Shaped
<1>4. /\ \A p \in new \ old : \E q \in Roots(new, old) : Within(p, q)
      /\ \A q \in Roots(new, old) : Inside(q) \cap old = {}
      /\ \A q, x \in Roots(new, old) : Inside(q) \cap Inside(x) # {} => q = x
  BY <1>3, RootsFacts
<1>5. /\ \A p \in old \ new : \E q \in Roots(old, new) : Within(p, q)
      /\ \A q \in Roots(old, new) : Inside(q) \cap new = {}
      /\ \A q, x \in Roots(old, new) : Inside(q) \cap Inside(x) # {} => q = x
  BY <1>3, RootsFacts
<1>6. ASSUME NEW d \in D
      PROVE  \/ /\ d.path \in Roots(new, old) /\ d.event = "NEW"
                /\ d.paths = Inside(d.path) \cap new
             \/ /\ d.path \in Roots(old, new) /\ d.event = "DELETE"
                /\ d.paths = Inside(d.path) \cap old
             \/ d.path \in Bound \cap old \cap new /\ d.event = "EDIT"
  <2>1. d \in DiffOf(tree, t)
    OBVIOUS
  <2> HIDE DEF D
  <2> QED BY <2>1, DiffShape
<1>7. /\ \A q \in Roots(new, old) : \E d \in D : d.event = "NEW" /\ d.paths = Inside(q) \cap new
      /\ \A q \in Roots(old, new) : \E d \in D : d.event = "DELETE" /\ d.paths = Inside(q) \cap old
  <2>1. ASSUME NEW q \in Roots(new, old)
        PROVE  \E d \in D : d.event = "NEW" /\ d.paths = Inside(q) \cap new
    <3>1. [event |-> "NEW", path |-> q, paths |-> Inside(q) \cap new] \in D
      BY DEF DiffOf
    <3> QED BY <3>1
  <2>2. ASSUME NEW q \in Roots(old, new)
        PROVE  \E d \in D : d.event = "DELETE" /\ d.paths = Inside(q) \cap old
    <3>1. [event |-> "DELETE", path |-> q, paths |-> Inside(q) \cap old] \in D
      BY DEF DiffOf
    <3> QED BY <3>1
  <2> QED BY <2>1, <2>2
<1>8. \A p, q : p \in Inside(q) <=> p \in Path /\ Within(p, q)
  BY DEF Inside
<1>9. /\ \A q \in Roots(new, old) : q \in new /\ (IsEntity(q) \/ Parent(q) \in old)
      /\ \A q \in Roots(old, new) : q \in old
  BY DEF Roots
<1>10. \A d, x \in D : d.event = x.event /\ d.event # "EDIT" /\ d # x => d.paths \cap x.paths = {}
  <2> SUFFICES ASSUME NEW d \in D, NEW x \in D, d.event = x.event, d.event # "EDIT",
                      NEW p \in d.paths \cap x.paths
               PROVE  d = x
    OBVIOUS
  <2>1. p \in Inside(d.path) \cap Inside(x.path)
    BY <1>6
  <2>2. d.path = x.path
    BY <1>4, <1>5, <1>6, <2>1
  <2>3. d.event = "NEW" \/ d.event = "DELETE"
    BY <1>6
  <2>4. CASE d.event = "NEW"
    <3>1. d.paths = x.paths
      BY <1>6, <2>2, <2>4
    <3>2. /\ d = [event |-> "NEW", path |-> d.path, paths |-> d.paths]
          /\ x = [event |-> "NEW", path |-> x.path, paths |-> x.paths]
      BY <1>6, <2>4, DiffShape
    <3> QED BY <2>2, <3>1, <3>2
  <2>5. CASE d.event = "DELETE"
    <3>1. d.paths = x.paths
      BY <1>6, <2>2, <2>5
    <3>2. /\ d = [event |-> "DELETE", path |-> d.path, paths |-> d.paths]
          /\ x = [event |-> "DELETE", path |-> x.path, paths |-> x.paths]
      BY <1>6, <2>5, DiffShape
    <3> QED BY <2>2, <3>1, <3>2
  <2> QED BY <2>3, <2>4, <2>5
<1> HIDE DEF D, old, new
<1>11. \A p \in Path : p \in old <=> \/ p \in new /\ \A d \in D : d.event = "NEW" => p \notin d.paths
                                    \/ \E d \in D : d.event = "DELETE" /\ p \in d.paths
  <2> TAKE p \in Path
  <2>1. CASE p \in old /\ p \in new
    BY <1>4, <1>6, <2>1
  <2>2. CASE p \in old /\ p \notin new
    <3>1. PICK q \in Roots(old, new) : Within(p, q)
      BY <1>5, <2>2
    <3>2. PICK d \in D : d.event = "DELETE" /\ d.paths = Inside(q) \cap old
      BY <1>7
    <3> QED BY <1>8, <2>2, <3>1, <3>2
  <2>3. CASE p \notin old /\ p \in new
    <3>1. PICK q \in Roots(new, old) : Within(p, q)
      BY <1>4, <2>3
    <3>2. PICK d \in D : d.event = "NEW" /\ d.paths = Inside(q) \cap new
      BY <1>7
    <3>3. p \in d.paths
      BY <1>8, <2>3, <3>1, <3>2
    <3>4. \A x \in D : x.event = "DELETE" => x.paths \subseteq old
      BY <1>6
    <3> QED BY <2>3, <3>2, <3>3, <3>4
  <2>4. CASE p \notin old /\ p \notin new
    BY <1>6, <2>4
  <2> QED BY <2>1, <2>2, <2>3, <2>4
<1>12. ASSUME NEW d \in D, d.event = "NEW"
       PROVE  /\ d.paths \subseteq Inside(d.path) \cap new
              /\ \A p \in d.paths : IsEntity(p) \/ Parent(p) \in d.paths \/ Parent(p) \in new \cap old
  <2>1. d.path \in Roots(new, old) /\ d.paths = Inside(d.path) \cap new
    BY <1>6, <1>12
  <2>2. d.path \in Path
    BY <1>3, <1>9, <2>1
  <2> SUFFICES ASSUME NEW p \in d.paths, ~IsEntity(p)
               PROVE  Parent(p) \in d.paths \/ Parent(p) \in new \cap old
    BY <2>1
  <2>3. p \in Path /\ Within(p, d.path) /\ Parent(p) \in new
    BY <1>3, <1>8, <2>1 DEF Closed
  <2>4. CASE p = d.path
    BY <1>9, <2>1, <2>3, <2>4
  <2>5. CASE p # d.path
    <3>1. Below(p, d.path)
      BY <2>2, <2>3, <2>5, BelowIsWithin
    <3>2. Within(Parent(p), d.path) /\ Parent(p) \in Path
      BY <2>2, <2>3, <3>1, ParentFacts
    <3> QED BY <1>8, <2>1, <2>3, <3>2
  <2> QED BY <2>4, <2>5
<1>13. ASSUME NEW d \in D, d.event = "DELETE"
       PROVE  /\ d.paths \cap new = {}
              /\ \A p \in old : ~IsEntity(p) /\ Parent(p) \in d.paths => p \in d.paths
  <2>1. d.path \in Roots(old, new) /\ d.paths = Inside(d.path) \cap old
    BY <1>6, <1>13
  <2>2. d.path \in Path
    BY <1>3, <1>9, <2>1
  <2>3. d.paths \cap new = {}
    BY <1>5, <2>1
  <2> SUFFICES ASSUME NEW p \in old, ~IsEntity(p), Parent(p) \in d.paths
               PROVE  p \in d.paths
    BY <2>3
  <2>4. p \in Path /\ Within(p, Parent(p)) /\ Parent(p) \in Path /\ Within(Parent(p), d.path)
    BY <1>3, <1>8, <2>1, ParentFacts
  <2>5. Within(p, d.path)
    BY <2>2, <2>4, WithinTransitive
  <2> QED BY <1>8, <2>1, <2>4, <2>5
<1>14. \A d \in D : d.event = "EDIT" => d.path \in Bound \cap new \cap old
  BY <1>6
<1>15. tree'.paths = new /\ map'.nodes = old
  BY <1>1, <1>2 DEF new
<1> QED BY <1>1, <1>3, <1>10, <1>11, <1>12, <1>13, <1>14, <1>15 DEF NodesInv

\* What each method does with the nodes.
LEMMA MethodsNodes ==
    ASSUME NEW g, Sound(g), NEW all \in SUBSET Path, NEW N
    PROVE  /\ AddNodes(g, all).nodes = g.nodes \cup all
           /\ AddNodes(g, all).declared = g.declared
           /\ RemoveNodes(g, all).nodes = g.nodes \ all
           /\ \A R \in SUBSET Pairs : AddDependency(g, N, R).nodes = g.nodes
           /\ MakeParentsDependOnChildren(g).nodes = g.nodes
<1>1. AddNodes(g, all).nodes = g.nodes \cup (all \ g.nodes) /\ AddNodes(g, all).declared = g.declared
  BY DEF AddNodes, Sound, Maps
<1>2. RemoveNodes(g, all).nodes = g.nodes \ (all \cap g.nodes)
  BY DEF RemoveNodes, Sound, Maps
<1>3. \A R \in SUBSET Pairs : AddDependency(g, N, R).nodes = g.nodes
  BY AddDependencySound
<1>4. \A M, R : AddDependency(g, M, R).nodes = g.nodes
  BY DEF AddDependency, Sound, Maps
<1>5. MakeParentsDependOnChildren(g).nodes = g.nodes
  BY <1>4 DEF MakeParentsDependOnChildren
<1> QED BY <1>1, <1>2, <1>3, <1>5

LEMMA HandleDiffNodes ==
    ASSUME IInv, NodesInv, NEW d \in todo, HandleDiff(d)
    PROVE  NodesInv'
<1>1. /\ tree' = tree /\ todo' = todo \ {d} /\ Sound(map) /\ map.nodes \in SUBSET Path
      /\ d.paths \in SUBSET Path
  BY DEF HandleDiff, IInv, TypeOK, Sound, Maps, Diffs
<1>2. CASE New(d)
  <2>1. d.event = "NEW" /\ map'.nodes = map.nodes \cup d.paths
    <3> DEFINE again == Redeclared(d)
    <3>1. map' = AddDependency(AddNodes(map, d.paths), again, References(tree, again))
      BY <1>2 DEF New
    <3> HIDE DEF again
    <3>2. Sound(AddNodes(map, d.paths))
      BY <1>1, AddNodesSound
    <3>3. map'.nodes = AddNodes(map, d.paths).nodes
      BY <3>1, <3>2, MethodsNodes, ReferencesType
    <3> QED BY <1>1, <1>2, <3>3, MethodsNodes DEF New
  <2>2. Closed(map'.nodes)
    BY <2>1 DEF NodesInv, Closed
  <2>3. \A p \in Path : p \in map'.nodes <=>
              \/ p \in tree.paths /\ \A o \in todo \ {d} : o.event = "NEW" => p \notin o.paths
              \/ \E o \in todo \ {d} : o.event = "DELETE" /\ p \in o.paths
    BY <2>1 DEF NodesInv
  <2>4. ASSUME NEW o \in todo \ {d}
        PROVE  /\ o.event = "NEW" =>
                     /\ o.paths \subseteq Inside(o.path) \cap tree.paths
                     /\ \A p \in o.paths : \/ IsEntity(p) \/ Parent(p) \in o.paths
                                           \/ Parent(p) \in tree.paths \cap map'.nodes
               /\ o.event = "DELETE" =>
                     /\ o.paths \cap tree.paths = {}
                     /\ \A p \in map'.nodes : ~IsEntity(p) /\ Parent(p) \in o.paths => p \in o.paths
               /\ o.event = "EDIT" => o.path \in Bound \cap tree.paths \cap map'.nodes
    BY <2>1 DEF NodesInv
  <2> QED BY <1>1, <2>2, <2>3, <2>4 DEF NodesInv
<1>3. CASE Delete(d)
  <2>1. d.event = "DELETE" /\ map'.nodes = map.nodes \ d.paths
    BY <1>1, <1>3, MethodsNodes DEF Delete
  <2>2. Closed(map'.nodes)
    BY <2>1 DEF NodesInv, Closed
  <2>3. \A p \in Path : p \in map'.nodes <=>
              \/ p \in tree.paths /\ \A o \in todo \ {d} : o.event = "NEW" => p \notin o.paths
              \/ \E o \in todo \ {d} : o.event = "DELETE" /\ p \in o.paths
    BY <2>1 DEF NodesInv
  <2>4. ASSUME NEW o \in todo \ {d}
        PROVE  /\ o.event = "NEW" =>
                     /\ o.paths \subseteq Inside(o.path) \cap tree.paths
                     /\ \A p \in o.paths : \/ IsEntity(p) \/ Parent(p) \in o.paths
                                           \/ Parent(p) \in tree.paths \cap map'.nodes
               /\ o.event = "DELETE" =>
                     /\ o.paths \cap tree.paths = {}
                     /\ \A p \in map'.nodes : ~IsEntity(p) /\ Parent(p) \in o.paths => p \in o.paths
               /\ o.event = "EDIT" => o.path \in Bound \cap tree.paths \cap map'.nodes
    BY <2>1 DEF NodesInv
  <2> QED BY <1>1, <2>2, <2>3, <2>4 DEF NodesInv
<1>4. CASE EditPath(d)
  <2> DEFINE again == {d.path} \ tree.literal
  <2>1. d.event = "EDIT" /\ map' = AddDependency(map, again, References(tree, {d.path}))
    BY <1>4 DEF EditPath
  <2> HIDE DEF again
  <2>2. map'.nodes = map.nodes
    BY <1>1, <2>1, AddDependencySound, ReferencesType
  <2> QED BY <1>1, <2>1, <2>2 DEF NodesInv
<1> QED BY <1>2, <1>3, <1>4 DEF HandleDiff

LEMMA InitNodes == Init => NodesInv
BY DEF Init, EmptyMap, EmptyTree, NodesInv, Closed

LEMMA NextNodes == IInv /\ NodesInv /\ [Next]_vars => NodesInv'
<1> SUFFICES ASSUME IInv, NodesInv, [Next]_vars PROVE NodesInv'
  OBVIOUS
<1>1. ASSUME NEW t \in Tree, UpdateTree(t) PROVE NodesInv'
  BY <1>1, UpdateTreeNodes
<1>2. ASSUME NEW t \in Tree, SetupFirstTree(t) PROVE NodesInv'
  <2>1. tree' = t /\ todo' = todo /\ todo = {} /\ map' = CreateDependencyMap(t)
    BY <1>2 DEF SetupFirstTree, Idle
  <2>2. t.paths \in SUBSET Path /\ Closed(t.paths)
    BY TreesShaped DEF Shaped
  <2> DEFINE added == AddNodes(EmptyMap, t.paths)
             declared == AddDependency(added, Bindings(t, Path), References(t, Path))
  <2>3. Sound(EmptyMap) /\ EmptyMap.nodes = {}
    BY DEF Sound, EmptyMap, Maps
  <2>4. Sound(added) /\ added.nodes = t.paths
    <3>1. AddNodes(EmptyMap, t.paths).nodes = EmptyMap.nodes \cup t.paths
      BY <2>2, <2>3, MethodsNodes
    <3>2. Sound(AddNodes(EmptyMap, t.paths))
      BY <2>2, <2>3, AddNodesSound
    <3> QED BY <2>3, <3>1, <3>2
  <2> HIDE DEF added
  <2>5. Sound(declared) /\ declared.nodes = t.paths
    BY <2>4, AddDependencySound, ReferencesType
  <2> HIDE DEF declared
  <2>6. MakeParentsDependOnChildren(declared).nodes = t.paths
    BY <2>2, <2>5, MethodsNodes
  <2>7. map'.nodes = t.paths
    BY <2>1, <2>6 DEF CreateDependencyMap, declared, added
  <2> QED BY <2>1, <2>2, <2>7 DEF NodesInv
<1>3. ASSUME NEW p \in Path, Touch(p) PROVE NodesInv'
  BY <1>3 DEF Touch, NodesInv
<1>4. ASSUME NEW d \in todo, HandleDiff(d) PROVE NodesInv'
  BY <1>4, HandleDiffNodes
<1>5. CASE Sort
  <2>1. map'.nodes = map.nodes /\ tree' = tree /\ todo' = todo
    BY <1>5, MethodsNodes DEF Sort, IInv
  <2> QED BY <2>1 DEF NodesInv
<1>6. CASE UNCHANGED vars
  BY <1>6 DEF vars, NodesInv
<1> QED BY <1>1, <1>2, <1>3, <1>4, <1>5, <1>6 DEF Next

-----------------------------------------------------------------------------
(* No dependency is made up                                                 *)

\* The disjuncts of Explained, and what an update still has to handle.
Left(ab, e) == \E w \in ab : w[1] = e[1] /\ Within(w[2], e[2])
InCode(t, e) == e[1] \in Bound /\ \E r \in t.code[e[1]] : Within(r, e[2])
Because(t, ab, kp, e) ==
    \/ ~IsEntity(e[2]) /\ e[1] = Parent(e[2])
    \/ InCode(t, e)
    \/ e[1] \in kp
    \/ Left(ab, e)
Pending(D, p) == \E d \in D : \/ d.event = "EDIT" /\ p = d.path
                              \/ d.event = "DELETE" /\ p \in d.paths
Reason(t, ab, kp, D) == {e \in Pairs : Because(t, ab, kp, e) \/ Pending(D, e[1])}
LeftOver(ab) == {e \in Pairs : Left(ab, e)}

FoundedInv ==
    Founded(map, Reason(tree, abandoned, retained, todo), LeftOver(abandoned))

\* Reasons reach upwards, but that of a parent.
LEMMA ReasonsReachUp ==
    ASSUME NEW ab, NEW D, NEW e \in Pairs, NEW x \in Path, Within(e[2], x),
           NEW t, t.code \in [Bound -> SUBSET Path], ab \subseteq Pairs
    PROVE  /\ e \in LeftOver(ab) => <<e[1], x>> \in LeftOver(ab)
           /\ InCode(t, e) => InCode(t, <<e[1], x>>)
           /\ Pending(D, e[1]) => Pending(D, <<e[1], x>>[1])
<1>1. e[1] \in Path /\ e[2] \in Path /\ <<e[1], x>> \in Pairs
  BY DEF Pairs
<1>2. \A w \in ab : w[2] \in Path
  BY DEF Pairs
<1>3. \A r \in Path : Within(r, e[2]) => Within(r, x)
  BY <1>1, WithinTransitive
<1> QED BY <1>1, <1>2, <1>3 DEF LeftOver, Left, InCode

LEMMA LeftOverIsReason == \A t, ab, kp, D : LeftOver(ab) \subseteq Reason(t, ab, kp, D)
BY DEF LeftOver, Reason, Because

\* What code mentions is a reason.
LEMMA ReferencesInCode ==
    ASSUME NEW t, NEW N, NEW e \in References(t, N) PROVE e \in Pairs /\ InCode(t, e)
BY TreeFacts DEF References, Prunes, InCode, Pairs

\* The reasons of the paths that are in the map outlast the coming of a tree.
LEMMA UpdateTreeFounded ==
    ASSUME IInv, NodesInv, FoundedInv, NEW t \in Tree, UpdateTree(t)
    PROVE  FoundedInv'
<1>1. /\ todo = {} /\ todo' = DiffOf(tree, t) /\ tree' = t /\ map' = map
      /\ abandoned' = abandoned /\ retained' = retained
  BY DEF UpdateTree, Idle
<1>2. map.nodes = tree.paths
  BY <1>1, NodesWhenDone
<1>3. Shaped(tree) /\ Shaped(t)
  BY TreesShaped DEF IInv, TypeOK
<1>4. ASSUME NEW e \in map.deps \cup map.invalid PROVE e \in Reason(t, abandoned, retained, todo')
  <2>1. e \in Reason(tree, abandoned, retained, {}) /\ e \in Pairs /\ e[1] \in tree.paths
    BY <1>1, <1>2 DEF FoundedInv, Founded, IInv, Sound, Maps
  <2>2. Because(tree, abandoned, retained, e)
    BY <2>1 DEF Reason, Pending
  <2>3. CASE e[1] \notin t.paths
    <3>1. PICK q \in Roots(tree.paths, t.paths) : Within(e[1], q)
      BY <1>3, <2>1, <2>3, RootsFacts DEF Shaped
    <3>2. [event |-> "DELETE", path |-> q, paths |-> Inside(q) \cap tree.paths] \in todo'
      BY <1>1 DEF DiffOf
    <3>3. e[1] \in Inside(q) \cap tree.paths
      BY <2>1, <3>1 DEF Inside, Pairs
    <3>4. Pending(todo', e[1])
      BY <3>2, <3>3 DEF Pending
    <3> QED BY <2>1, <3>4 DEF Reason
  <2>4. CASE e[1] \in t.paths /\ InCode(tree, e)
    <3>1. e[1] \in Bindings(tree, Path) /\ e[1] \in Bound
      <4>1. e[1] \in Bound /\ tree.code[e[1]] # {} /\ e[1] \in Path
        BY <2>4, TreeFacts DEF InCode
      <4> QED BY <1>3, <4>1 DEF Shaped, Bindings
    <3>2. CASE tree.code[e[1]] # t.code[e[1]]
      <4>1. [event |-> "EDIT", path |-> e[1], paths |-> {e[1]}] \in todo'
        BY <1>1, <2>1, <2>4, <3>1, <3>2 DEF DiffOf, Edited
      <4>2. Pending(todo', e[1])
        BY <4>1 DEF Pending
      <4> QED BY <2>1, <4>2 DEF Reason
    <3>3. CASE tree.code[e[1]] = t.code[e[1]]
      BY <2>1, <2>4, <3>3 DEF Because, InCode, Reason
    <3> QED BY <3>2, <3>3
  <2>5. CASE ~InCode(tree, e)
    BY <2>1, <2>2, <2>5 DEF Because, Reason
  <2> QED BY <2>3, <2>4, <2>5
<1> QED BY <1>1, <1>4 DEF FoundedInv, Founded

\* The references that are collected for M replace what M had.
LEMMA DeclareFounded ==
    ASSUME NEW t, NEW ab, NEW kp, NEW D, NEW kq, NEW E, NEW M, NEW N, NEW g, Sound(g),
           Founded(g, Reason(t, ab, kp, D), LeftOver(ab)),
           \A e \in Reason(t, ab, kp, D) : e \in Reason(t, ab, kq, E) \/ e[1] \in M
    PROVE  Founded(AddDependency(g, M, References(t, N)), Reason(t, ab, kq, E), LeftOver(ab))
<1>1. \A e \in References(t, N) : e \in Reason(t, ab, kq, E)
  BY ReferencesInCode DEF Reason, Because
<1>2. \A e \in g.deps \cup g.invalid :
          e[1] \in M \cap g.nodes \/ e \in Reason(t, ab, kq, E)
  BY DEF Founded, Sound
<1>3. g.inverse \ g.deps \subseteq LeftOver(ab) /\ g.invalidInverse \ g.invalid \subseteq LeftOver(ab)
  BY DEF Founded
<1> QED BY <1>1, <1>2, <1>3, AddDependencyFounded

LEMMA HandleDiffFounded ==
    ASSUME IInv, NodesInv, FoundedInv, NEW d \in todo, HandleDiff(d)
    PROVE  FoundedInv'
<1>1. /\ tree' = tree /\ todo' = todo \ {d} /\ Sound(map) /\ map.nodes \in SUBSET Path
      /\ d.paths \in SUBSET Path /\ abandoned \subseteq Pairs
  BY DEF HandleDiff, IInv, TypeOK, Sound, Maps, Diffs
<1>2. Shaped(tree)
  BY TreesShaped DEF IInv, TypeOK
<1> DEFINE X == Reason(tree, abandoned, retained, todo)
           L == LeftOver(abandoned)
<1>3. Founded(map, X, L) /\ L \subseteq X
  BY LeftOverIsReason DEF FoundedInv
<1>4. map.deps \in SUBSET Pairs /\ map.invalid \in SUBSET Pairs
  BY <1>1 DEF Sound, Maps
<1>5. CASE New(d)
  <2> DEFINE again == Redeclared(d)
             added == AddNodes(map, d.paths)
  <2>1. /\ map' = AddDependency(added, again, References(tree, again))
        /\ abandoned' = abandoned /\ retained' = retained \ again /\ d.event = "NEW"
    BY <1>5 DEF New
  <2>2. \A e \in L, x \in Path : Within(e[2], x) => <<e[1], x>> \in L
    <3>1. \A e \in L : e \in Pairs
      BY DEF LeftOver
    <3> QED BY <1>1, <1>2, <3>1, ReasonsReachUp DEF Shaped
  <2>3. ASSUME NEW e \in map.invalid, NEW x \in d.paths \ map.nodes, Within(e[2], x)
        PROVE  <<e[1], x>> \in X
    <3>1. e \in Pairs /\ x \in Path /\ e[1] \in Path /\ e[2] \in Path /\ <<e[1], x>> \in Pairs
      BY <1>1, <1>4 DEF Pairs
    <3>2. CASE ~IsEntity(e[2]) /\ e[1] = Parent(e[2])
      <4>1. CASE x = e[2]
        BY <3>1, <3>2, <4>1 DEF Reason, Because
      <4>2. CASE x # e[2]
        <5>1. Below(e[2], x)
          BY <2>3, <3>1, <4>2, BelowIsWithin
        <5>2. Within(e[1], x)
          BY <3>1, <3>2, <5>1, ParentFacts
        <5>3. e[1] \in map.nodes
          BY <1>1, <2>3 DEF Sound
        <5> QED BY <1>1, <2>3, <3>1, <5>2, <5>3, ClosedAbove DEF NodesInv
      <4> QED BY <4>1, <4>2
    <3>3. CASE ~(~IsEntity(e[2]) /\ e[1] = Parent(e[2]))
      <4>1. InCode(tree, e) \/ e[1] \in retained \/ e \in LeftOver(abandoned) \/ Pending(todo, e[1])
        BY <1>3, <3>1, <3>3 DEF Founded, Reason, Because, LeftOver
      <4>2. /\ e \in LeftOver(abandoned) => <<e[1], x>> \in LeftOver(abandoned)
            /\ InCode(tree, e) => InCode(tree, <<e[1], x>>)
        BY <1>1, <1>2, <2>3, <3>1, ReasonsReachUp DEF Shaped
      <4>3. CASE e \in LeftOver(abandoned)
        BY <1>3, <4>2, <4>3
      <4>4. CASE InCode(tree, e)
        BY <3>1, <4>2, <4>4 DEF Reason, Because
      <4>5. CASE e[1] \in retained \/ Pending(todo, e[1])
        BY <3>1, <4>5 DEF Reason, Because
      <4> QED BY <4>1, <4>3, <4>4, <4>5
    <3> QED BY <3>2, <3>3
  <2>4. Sound(added)
    BY <1>1, AddNodesSound
  <2> HIDE DEF again
  <2>5. Founded(added, X, L)
    <3> HIDE DEF X, L
    <3> QED BY <1>1, <1>3, <2>2, <2>3, AddNodesFounded
  <2>6. \A e \in X : e \in Reason(tree, abandoned, retained', todo \ {d}) \/ e[1] \in again
    BY <2>1 DEF Reason, Pending, Because
  <2> HIDE DEF added
  <2>7. Founded(map', Reason(tree, abandoned, retained', todo \ {d}), L)
    BY <2>1, <2>4, <2>5, <2>6, DeclareFounded
  <2> QED BY <1>1, <2>1, <2>7 DEF FoundedInv
<1>6. CASE Delete(d)
  <2> DEFINE Y == Reason(tree, abandoned', retained', todo \ {d})
             M == LeftOver(abandoned')
  <2>1. /\ map' = RemoveNodes(map, d.paths) /\ d.event = "DELETE"
        /\ abandoned' = abandoned \cup Rows(map'.invalidInverse, d.paths)
        /\ retained' = retained \ d.paths
    BY <1>6 DEF Delete
  <2>2. L \subseteq M /\ M \subseteq Y
    BY <2>1, LeftOverIsReason DEF LeftOver, Left
  <2>3. d.paths \subseteq map.nodes
    BY <1>1, <2>1 DEF NodesInv
  <2>4. ASSUME NEW e \in X, e[1] \notin d.paths \cap map.nodes PROVE e \in Y
    <3>1. e[1] \notin d.paths
      BY <2>3, <2>4
    <3>2. e \in Pairs /\ (Because(tree, abandoned, retained, e) \/ Pending(todo, e[1]))
      BY DEF Reason
    <3>3. CASE Because(tree, abandoned, retained, e)
      BY <2>1, <3>1, <3>2, <3>3 DEF Because, Left, Reason
    <3>4. CASE Pending(todo, e[1])
      BY <2>1, <3>1, <3>2, <3>4 DEF Pending, Reason
    <3> QED BY <3>2, <3>3, <3>4
  <2>5. ASSUME NEW e \in map'.invalidInverse, e[1] \in d.paths PROVE e \in M
    <3>1. Sound(map')
      BY <1>1, <2>1, RemoveNodesSound
    <3>2. e \in Pairs /\ e[2] \in Path
      BY <3>1 DEF Sound, Maps, Pairs
    <3>3. e \in abandoned'
      BY <2>1, <2>5 DEF Rows
    <3> QED BY <3>2, <3>3, WithinSelf DEF LeftOver, Left
  <2>6. Founded(map', Y, M)
    <3> HIDE DEF X, L, Y, M
    <3> QED BY <1>1, <1>3, <2>1, <2>2, <2>4, <2>5, RemoveNodesFounded
  <2> QED BY <1>1, <2>6 DEF FoundedInv
<1>7. CASE EditPath(d)
  <2> DEFINE again == {d.path} \ tree.literal
  <2>1. /\ map' = AddDependency(map, again, References(tree, {d.path}))
        /\ retained' = (retained \cup {d.path}) \ again
        /\ abandoned' = abandoned /\ d.event = "EDIT"
    BY <1>7 DEF EditPath
  <2>2. \A e \in X : e \in Reason(tree, abandoned, retained', todo \ {d}) \/ e[1] \in again
    BY <2>1 DEF Reason, Pending, Because
  <2> HIDE DEF again
  <2>3. Founded(map', Reason(tree, abandoned, retained', todo \ {d}), L)
    <3> HIDE DEF X
    <3> QED BY <1>1, <1>3, <2>1, <2>2, DeclareFounded DEF X
  <2> QED BY <1>1, <2>1, <2>3 DEF FoundedInv
<1> QED BY <1>5, <1>6, <1>7 DEF HandleDiff

\* createDependencyMap starts from nothing.
LEMMA EmptyFounded == Sound(EmptyMap) /\ \A X, L : Founded(EmptyMap, X, L)
BY DEF EmptyMap, Sound, Maps, Founded

LEMMA ParentsAreReasons ==
    ASSUME NEW t, NEW ab, NEW kp, NEW D, NEW c \in Path, ~IsEntity(c)
    PROVE  <<Parent(c), c>> \in Reason(t, ab, kp, D)
BY TreeFacts DEF Reason, Because, Pairs

LEMMA CreateFounded ==
    ASSUME NEW t \in Tree
    PROVE  Founded(CreateDependencyMap(t), Reason(t, {}, {}, {}), LeftOver({}))
<1> DEFINE X == Reason(t, {}, {}, {})
           L == LeftOver({})
           added == AddNodes(EmptyMap, t.paths)
           declared == AddDependency(added, Bindings(t, Path), References(t, Path))
<1>1. t.paths \in SUBSET Path
  BY TreeFacts
<1>2. L = {} /\ EmptyMap.invalid = {}
  BY DEF LeftOver, Left, EmptyMap
<1>3. Sound(added) /\ Founded(added, X, L)
  <2> HIDE DEF X, L
  <2>1. L \subseteq X
    BY <1>2
  <2> QED BY <1>1, <1>2, <2>1, EmptyFounded, AddNodesSound, AddNodesFounded
<1> HIDE DEF added
<1>4. Sound(declared)
  BY <1>3, AddDependencySound, ReferencesType
<1>5. Founded(declared, X, L)
  BY <1>3, DeclareFounded
<1> HIDE DEF declared
<1>6. Founded(MakeParentsDependOnChildren(declared), X, L)
  <2>1. \A c \in Path : ~IsEntity(c) => <<Parent(c), c>> \in X
    BY ParentsAreReasons
  <2> HIDE DEF X, L
  <2> QED BY <1>4, <1>5, <2>1, ParentsFounded
<1> QED BY <1>6 DEF CreateDependencyMap, declared, added

LEMMA InitFounded == Init => FoundedInv
<1> SUFFICES ASSUME Init PROVE FoundedInv
  OBVIOUS
<1> QED BY EmptyFounded DEF Init, FoundedInv

LEMMA NextFounded == IInv /\ NodesInv /\ FoundedInv /\ [Next]_vars => FoundedInv'
<1> SUFFICES ASSUME IInv, NodesInv, FoundedInv, [Next]_vars PROVE FoundedInv'
  OBVIOUS
<1>1. ASSUME NEW t \in Tree, UpdateTree(t) PROVE FoundedInv'
  BY <1>1, UpdateTreeFounded
<1>2. ASSUME NEW t \in Tree, SetupFirstTree(t) PROVE FoundedInv'
  BY <1>2, CreateFounded DEF SetupFirstTree, Idle, FoundedInv
<1>3. ASSUME NEW p \in Path, Touch(p) PROVE FoundedInv'
  BY <1>3 DEF Touch, FoundedInv
<1>4. ASSUME NEW d \in todo, HandleDiff(d) PROVE FoundedInv'
  BY <1>4, HandleDiffFounded
<1>5. CASE Sort
  <2>1. map' = MakeParentsDependOnChildren(map) /\ UNCHANGED <<tree, todo, abandoned, retained>>
    BY <1>5 DEF Sort
  <2> DEFINE X == Reason(tree, abandoned, retained, todo)
             L == LeftOver(abandoned)
  <2>2. \A c \in Path : ~IsEntity(c) => <<Parent(c), c>> \in X
    BY ParentsAreReasons
  <2>3. Founded(map', X, L)
    <3>1. Sound(map) /\ Founded(map, X, L)
      BY DEF IInv, FoundedInv
    <3> HIDE DEF X, L
    <3> QED BY <2>1, <2>2, <3>1, ParentsFounded
  <2> QED BY <2>1, <2>3 DEF FoundedInv
<1>6. CASE UNCHANGED vars
  BY <1>6 DEF vars, FoundedInv
<1> QED BY <1>1, <1>2, <1>3, <1>4, <1>5, <1>6 DEF Next

LEMMA FoundedInductive == Spec => [](IInv /\ NodesInv /\ FoundedInv)
<1>1. Init => IInv /\ NodesInv /\ FoundedInv
  BY InitIInv, InitNodes, InitFounded
<1>2. (IInv /\ NodesInv /\ FoundedInv) /\ [Next]_vars => (IInv /\ NodesInv /\ FoundedInv)'
  BY NextIInv, NextNodes, NextFounded
<1> QED BY <1>1, <1>2, PTL DEF Spec

\* No sequence of updates makes up a dependency: when the worker is idle each
\* is of a parent on its child, or of a path on what its code mentions, or one
\* of the two leftovers (Explained).
THEOREM DependenciesAreExplained == Spec => []Explained
<1>1. IInv /\ NodesInv /\ FoundedInv => Explained
  <2> SUFFICES ASSUME IInv, FoundedInv, Idle, NEW e \in map.deps
               PROVE  \/ ~IsEntity(e[2]) /\ e[1] = Parent(e[2])
                      \/ \E r \in IF e[1] \in Bound THEN tree.code[e[1]] ELSE {} : Within(r, e[2])
                      \/ e[1] \in retained
                      \/ \E w \in abandoned : w[1] = e[1] /\ Within(w[2], e[2])
    BY DEF Explained
  <2>1. e \in Reason(tree, abandoned, retained, {})
    BY DEF FoundedInv, Founded, Idle
  <2>2. Because(tree, abandoned, retained, e)
    BY <2>1 DEF Reason, Pending
  <2> QED BY <2>2 DEF Because, InCode, Left
<1> QED BY FoundedInductive, <1>1, PTL

-----------------------------------------------------------------------------
(* Code is connected to what it mentions                                    *)

\* The map remembers that b mentions r: as a dependency, or as one that waits.
Remembers(g, b, r) == \E m \in Path : Within(r, m) /\ <<b, m>> \in g.deps \cup g.invalid

\* Premise: a bound path below another is the result of a function and has no
\* code of its own.
NestedCode == \A t \in Tree, a, b \in Bound : Below(b, a) => t.code[b] = {}

RemembersInv ==
    \A b \in Bound \cap map.nodes \cap tree.paths :
        ~BoundParent(b) /\ (\A d \in todo : d.event = "EDIT" => d.path # b) =>
            \A r \in tree.code[b] : Remembers(map, b, r)

LEMMA AddNodesRemembers ==
    ASSUME NEW g, Sound(g), NEW all \in SUBSET Path, NEW b, NEW r \in Path, Remembers(g, b, r)
    PROVE  Remembers(AddNodes(g, all), b, r)
<1> DEFINE new == all \ g.nodes
           taken == {e \in g.invalidInverse : \E x \in new : Takes(new, all, x, e[2])}
           joined == {e \in {w[1] : w \in taken} \X new :
                        \E w \in taken : w[1] = e[1] /\ Takes(new, all, e[2], w[2])}
           h == AddNodes(g, all)
<1>1. h.deps = g.deps \cup Rows(joined, g.declared) /\ h.invalid = g.invalid \ taken
  <2>1. h = [g EXCEPT !.nodes = @ \cup new, !.deps = @ \cup Rows(joined, g.declared),
                      !.inverse = @ \cup joined, !.invalid = @ \ taken,
                      !.invalidInverse = @ \ taken]
    BY DEF AddNodes
  <2> HIDE DEF new, taken, joined, h
  <2> QED BY <2>1 DEF Sound, Maps
<1>2. PICK m \in Path : Within(r, m) /\ <<b, m>> \in g.deps \cup g.invalid
  BY DEF Remembers
<1>3. CASE <<b, m>> \notin taken
  <2> HIDE DEF taken, joined, h
  <2>1. <<b, m>> \in h.deps \cup h.invalid
    BY <1>1, <1>2, <1>3
  <2> QED BY <1>2, <2>1 DEF Remembers, h
<1>4. CASE <<b, m>> \in taken /\ <<b, m>> \in g.invalid
  <2>1. PICK x \in new : Takes(new, all, x, m)
    BY <1>4
  <2>2. x \in Path /\ Within(m, x)
    BY <1>2, <2>1, WithinSelf, BelowIsWithin DEF Takes
  <2>3. Within(r, x)
    BY <1>2, <2>2, WithinTransitive
  <2>4. <<b, x>> \in joined
    <3> DEFINE w == <<b, m>>
    <3>1. w[1] = b /\ w[2] = m /\ w \in taken
      BY <1>4
    <3> HIDE DEF w, taken
    <3>2. <<b, x>> \in {y[1] : y \in taken} \X new
      BY <3>1
    <3>3. \E y \in taken : y[1] = <<b, x>>[1] /\ Takes(new, all, <<b, x>>[2], y[2])
      BY <2>1, <3>1
    <3> QED BY <3>2, <3>3
  <2>5. b \in g.declared
    BY <1>4 DEF Sound
  <2> HIDE DEF joined, h
  <2>6. <<b, x>> \in h.deps
    BY <1>1, <2>4, <2>5 DEF Rows
  <2> QED BY <2>2, <2>3, <2>6 DEF Remembers, h
<1>5. CASE <<b, m>> \in g.deps
  <2> HIDE DEF joined, h
  <2> QED BY <1>1, <1>2, <1>5 DEF Remembers, h
<1> QED BY <1>2, <1>3, <1>4, <1>5

\* A path that stays keeps what it mentions, valid or waiting.
LEMMA RemoveNodesRemembers ==
    ASSUME NEW g, Sound(g), NEW all, NEW b, b \notin all, NEW r, Remembers(g, b, r)
    PROVE  Remembers(RemoveNodes(g, all), b, r)
<1> DEFINE gone == all \cap g.nodes
           users == {e \in g.inverse : e[2] \in gone}
           waits == {e \in users : /\ e[1] \in g.nodes
                                   /\ e[1] \in gone => Rank[e[1]] > Rank[e[2]]}
           h == RemoveNodes(g, all)
<1>1. /\ h.deps = g.deps \ (users \cup Rows(g.deps, gone))
      /\ h.invalid = (g.invalid \cup Rows(users, g.declared)) \ Rows(g.invalid \cup users, gone)
  <2>1. h = [g EXCEPT !.nodes = @ \ gone, !.declared = @ \ gone,
                      !.deps = @ \ (users \cup Rows(@, gone)),
                      !.inverse = @ \ (users \cup Rows(g.deps, gone)),
                      !.invalid = (@ \cup Rows(users, g.declared)) \ Rows(@ \cup users, gone),
                      !.invalidInverse = @ \cup waits]
    BY DEF RemoveNodes
  <2> HIDE DEF gone, users, waits, h
  <2> QED BY <2>1 DEF Sound, Maps
<1>2. PICK m \in Path : Within(r, m) /\ <<b, m>> \in g.deps \cup g.invalid
  BY DEF Remembers
<1>3. b \notin gone
  OBVIOUS
<1> HIDE DEF gone, users, waits, h
<1>4. b \in g.declared
  BY <1>2 DEF Sound
<1>5. <<b, m>> \in h.deps \cup h.invalid
  BY <1>1, <1>2, <1>3, <1>4 DEF Rows
<1> QED BY <1>2, <1>5 DEF Remembers, h

\* Declaring paths anew leaves the others alone.
LEMMA AddDependencyRemembers ==
    ASSUME NEW g, Sound(g), NEW N, NEW R, NEW b, b \notin N \cap g.nodes, NEW r, Remembers(g, b, r)
    PROVE  Remembers(AddDependency(g, N, R), b, r)
<1> DEFINE known == N \cap g.nodes
           valid == {e \in Rows(R, known) : e[2] \in g.nodes}
           invalid == Rows(R, known) \ valid
           h == AddDependency(g, N, R)
<1>1. /\ h.deps = (g.deps \ Rows(g.deps, known)) \cup valid
      /\ h.invalid = (g.invalid \ Rows(g.invalid, known)) \cup invalid
  BY DEF AddDependency, Sound, Maps
<1>2. PICK m \in Path : Within(r, m) /\ <<b, m>> \in g.deps \cup g.invalid
  BY DEF Remembers
<1> HIDE DEF valid, invalid, h
<1>3. <<b, m>> \in h.deps \cup h.invalid
  BY <1>1, <1>2 DEF Rows
<1> QED BY <1>2, <1>3 DEF Remembers, h

\* A path that is declared has all that its code mentions: there is always a
\* part of it that getPrunedReferences keeps.
LEMMA DeclareRemembers ==
    ASSUME NEW t, t.paths \in SUBSET Path, NEW N, NEW g, Sound(g),
           NEW M, NEW b \in Bound \cap M \cap N, b \in g.nodes, NEW r \in t.code[b], r \in Path
    PROVE  Remembers(AddDependency(g, M, References(t, N)), b, r)
<1> DEFINE known == M \cap g.nodes
           R == References(t, N)
           valid == {e \in Rows(R, known) : e[2] \in g.nodes}
           invalid == Rows(R, known) \ valid
           h == AddDependency(g, M, R)
           parts == {o \in t.paths : Within(r, o) /\ (IsEntity(o) => o = r)}
<1>1. h.deps = (g.deps \ Rows(g.deps, known)) \cup valid
      /\ h.invalid = (g.invalid \ Rows(g.invalid, known)) \cup invalid
  BY DEF AddDependency, Sound, Maps
<1>2. \E q \in Path : Prunes(t.paths, r, q)
  <2>1. CASE parts = {}
    BY <2>1, WithinSelf DEF Prunes
  <2>2. CASE parts # {}
    <3>1. parts \in SUBSET Path /\ \A o \in parts : Within(r, o)
      OBVIOUS
    <3>2. PICK q \in parts : \A o \in parts : Len(o) <= Len(q)
      <4> HIDE DEF parts
      <4> QED BY <2>2, <3>1, LongestAbove
    <3> QED BY <2>2, <3>1, <3>2 DEF Prunes
  <2> QED BY <2>1, <2>2
<1>3. PICK q \in Path : Prunes(t.paths, r, q)
  BY <1>2
<1>4. <<b, q>> \in R
  BY <1>3 DEF References
<1>5. Within(r, q)
  BY <1>3 DEF Prunes
<1> HIDE DEF h, R
<1>6. <<b, q>> \in valid \cup invalid
  BY <1>4 DEF Rows
<1> HIDE DEF valid, invalid
<1>7. <<b, q>> \in h.deps \cup h.invalid
  BY <1>1, <1>6
<1> QED BY <1>5, <1>7 DEF Remembers, h, R

\* makeParentsDependOnChildren declares nothing but paths that have others
\* below them.
LEMMA ParentsRemember ==
    ASSUME NEW g, Sound(g), NEW b, ~BoundParent(b), NEW r, Remembers(g, b, r)
    PROVE  Remembers(MakeParentsDependOnChildren(g), b, r)
<1> DEFINE touched == {c \in Path : \E d \in g.declared \cup {e[2] : e \in g.deps} : Within(d, c)}
           missing == {<<Parent(c), c>> : c \in {d \in touched : ~IsEntity(d)}} \ g.deps
           parents == {e[1] : e \in missing}
           R == missing \cup Rows(g.deps, parents)
<1>1. b \notin parents
  <2> SUFFICES ASSUME NEW c \in Path, ~IsEntity(c), b = Parent(c) PROVE FALSE
    OBVIOUS
  <2> QED BY ParentFacts DEF BoundParent
<1> HIDE DEF parents, R
<1>2. Remembers(AddDependency(g, parents, R), b, r)
  BY <1>1, AddDependencyRemembers
<1> QED BY <1>2 DEF MakeParentsDependOnChildren, R, parents

\* A path with code holds a binding.
LEMMA CodeIsBinding ==
    ASSUME NEW t \in Tree \cup {EmptyTree}, NEW b \in Bound, NEW r \in t.code[b]
    PROVE  b \in Bindings(t, Path)
BY TreesShaped, TreeFacts DEF Shaped, Bindings

LEMMA UpdateTreeRemembers ==
    ASSUME IInv, NodesInv, RemembersInv, NEW t \in Tree, UpdateTree(t)
    PROVE  RemembersInv'
<1>1. todo = {} /\ todo' = DiffOf(tree, t) /\ tree' = t /\ map' = map
  BY DEF UpdateTree, Idle
<1>2. map.nodes = tree.paths
  BY <1>1, NodesWhenDone
<1> SUFFICES ASSUME NEW b \in Bound, b \in map.nodes, b \in t.paths, ~BoundParent(b),
                    \A d \in todo' : d.event = "EDIT" => d.path # b, NEW r \in t.code[b]
             PROVE  Remembers(map, b, r)
  BY <1>1 DEF RemembersInv
<1>3. tree.code[b] = t.code[b]
  <2> SUFFICES ASSUME tree.code[b] # t.code[b] PROVE FALSE
    OBVIOUS
  <2> DEFINE d == [event |-> "EDIT", path |-> b, paths |-> {b}]
  <2>1. d \in todo'
    BY <1>1, <1>2, CodeIsBinding DEF DiffOf, Edited
  <2> QED BY <2>1
<1> QED BY <1>1, <1>2, <1>3 DEF RemembersInv

LEMMA HandleDiffRemembers ==
    ASSUME NestedCode, IInv, NodesInv, RemembersInv, NEW d \in todo, HandleDiff(d)
    PROVE  RemembersInv'
<1>1. /\ tree' = tree /\ todo' = todo \ {d} /\ Sound(map) /\ map.nodes \in SUBSET Path
      /\ d.paths \in SUBSET Path /\ d.path \in Path
  BY DEF HandleDiff, IInv, TypeOK, Sound, Maps, Diffs
<1>2. Shaped(tree)
  BY TreesShaped DEF IInv, TypeOK
<1> SUFFICES ASSUME NEW b \in Bound, b \in map'.nodes, b \in tree.paths, ~BoundParent(b),
                    \A o \in todo \ {d} : o.event = "EDIT" => o.path # b, NEW r \in tree.code[b]
             PROVE  Remembers(map', b, r)
  BY <1>1 DEF RemembersInv
<1>3. b \in Path /\ b \in Bindings(tree, Path) /\ r \in Path /\ tree.paths \in SUBSET Path
  BY <1>2, TreeFacts, CodeIsBinding DEF Shaped, IInv, TypeOK
<1>4. (d.event = "EDIT" => d.path # b) /\ b \in map.nodes => Remembers(map, b, r)
  BY <1>1 DEF RemembersInv
<1>5. CASE New(d)
  <2> DEFINE again == Redeclared(d)
             added == AddNodes(map, d.paths)
  <2>1. /\ map' = AddDependency(added, again, References(tree, again))
        /\ d.event = "NEW"
    BY <1>5 DEF New
  <2>2. Sound(added) /\ added.nodes = map.nodes \cup d.paths
    BY <1>1, AddNodesSound, MethodsNodes
  <2>3. map'.nodes = map.nodes \cup d.paths
    <3> HIDE DEF again, added
    <3> QED BY <2>1, <2>2, AddDependencySound, ReferencesType
  <2>4. CASE b \in again
    <3> HIDE DEF again, added
    <3> QED BY <1>3, <2>1, <2>2, <2>3, <2>4, DeclareRemembers
  <2>5. CASE b \notin again
    <3>1. b \notin d.paths
      <4> SUFFICES ASSUME b \in d.paths PROVE FALSE
        OBVIOUS
      <4>1. Within(b, d.path)
        BY <2>1 DEF NodesInv, Inside
      <4>2. CASE d.path \in Bound
        <5>1. Below(b, d.path)
          BY <1>1, <1>3, <2>5, <4>1, <4>2, BelowIsWithin DEF Redeclared
        <5>2. tree \in Tree
          BY <1>3 DEF IInv, TypeOK, EmptyTree
        <5> QED BY <4>2, <5>1, <5>2 DEF NestedCode
      <4>3. CASE d.path \notin Bound
        <5>1. /\ b \in Seq(STRING) /\ d.path \in Seq(STRING) /\ Len(d.path) >= 1 /\ Len(b) \in Nat
              /\ Len(d.path) \in Nat
          BY <1>1, <1>3, PathFacts
        <5>2. Len(d.path) <= Len(b) /\ \A i \in 1..Len(d.path) : d.path[i] = b[i]
          BY <4>1, <5>1, WithinElements
        <5>3. d.path[1] = b[1] /\ Len(b) >= 1 /\ d.path[1] \in STRING
          BY <5>1, <5>2
        <5>4. <<d.path[1]>> \in Seq(STRING) /\ Len(<<d.path[1]>>) = 1 /\ <<d.path[1]>>[1] = b[1]
          BY <5>3
        <5>5. Within(b, <<d.path[1]>>)
          <6> DEFINE e == <<d.path[1]>>
          <6>1. e \in Seq(STRING) /\ Len(e) = 1 /\ e[1] = b[1]
            BY <5>4
          <6> HIDE DEF e
          <6>2. Len(e) <= Len(b) /\ \A i \in 1..Len(e) : e[i] = b[i]
            BY <5>1, <5>3, <6>1
          <6>3. Within(b, e)
            BY <5>1, <6>1, <6>2, WithinElements
          <6> QED BY <6>3 DEF e
        <5> QED BY <1>3, <2>5, <4>3, <5>5 DEF Inside, Redeclared, Bindings
      <4> QED BY <4>2, <4>3
    <3>2. Remembers(map, b, r)
      BY <1>4, <2>1, <2>3, <3>1
    <3>3. Remembers(added, b, r)
      BY <1>1, <1>3, <3>2, AddNodesRemembers
    <3> HIDE DEF added, again
    <3> QED BY <2>1, <2>2, <2>5, <3>3, AddDependencyRemembers
  <2> QED BY <2>4, <2>5
<1>6. CASE Delete(d)
  <2>1. map' = RemoveNodes(map, d.paths) /\ d.event = "DELETE"
    BY <1>6 DEF Delete
  <2>2. b \notin d.paths
    BY <2>1 DEF NodesInv
  <2>3. b \in map.nodes
    BY <1>1, <2>1, MethodsNodes
  <2> QED BY <1>1, <1>4, <2>1, <2>2, <2>3, RemoveNodesRemembers
<1>7. CASE EditPath(d)
  <2> DEFINE again == {d.path} \ tree.literal
  <2>1. map' = AddDependency(map, again, References(tree, {d.path}))
    BY <1>7 DEF EditPath
  <2>2. map'.nodes = map.nodes
    <3> HIDE DEF again
    <3> QED BY <1>1, <2>1, ReferencesType, AddDependencySound
  <2>3. CASE b = d.path
    <3>1. b \in Bound \cap again \cap {d.path} /\ b \in map.nodes
      BY <1>3, <2>2, <2>3 DEF Bindings
    <3> HIDE DEF again
    <3> QED BY <1>1, <1>3, <2>1, <3>1, DeclareRemembers
  <2>4. CASE b # d.path
    <3>1. b \notin again
      BY <2>4
    <3>2. Remembers(map, b, r)
      BY <1>4, <2>2, <2>4
    <3> HIDE DEF again
    <3> QED BY <1>1, <2>1, <3>1, <3>2, AddDependencyRemembers
  <2> QED BY <2>3, <2>4
<1> QED BY <1>5, <1>6, <1>7 DEF HandleDiff

LEMMA NextRemembers ==
    ASSUME NestedCode
    PROVE  IInv /\ NodesInv /\ RemembersInv /\ [Next]_vars => RemembersInv'
<1> SUFFICES ASSUME IInv, NodesInv, RemembersInv, [Next]_vars PROVE RemembersInv'
  OBVIOUS
<1>1. ASSUME NEW t \in Tree, UpdateTree(t) PROVE RemembersInv'
  BY <1>1, UpdateTreeRemembers
<1>2. ASSUME NEW t \in Tree, SetupFirstTree(t) PROVE RemembersInv'
  <2>1. tree' = t /\ map' = CreateDependencyMap(t)
    BY <1>2 DEF SetupFirstTree
  <2> DEFINE added == AddNodes(EmptyMap, t.paths)
             declared == AddDependency(added, Bindings(t, Path), References(t, Path))
  <2>2. t.paths \in SUBSET Path /\ Shaped(t)
    BY TreeFacts, TreesShaped
  <2>3. Sound(added)
    BY <2>2, EmptyFounded, AddNodesSound
  <2>4. added.nodes = t.paths
    <3>1. EmptyMap.nodes = {}
      BY DEF EmptyMap
    <3>2. AddNodes(EmptyMap, t.paths).nodes = EmptyMap.nodes \cup t.paths
      BY <2>2, EmptyFounded, MethodsNodes
    <3> QED BY <3>1, <3>2
  <2> HIDE DEF added
  <2>5. Sound(declared)
    BY <2>3, AddDependencySound, ReferencesType
  <2> SUFFICES ASSUME NEW b \in Bound, ~BoundParent(b), NEW r \in t.code[b]
               PROVE  Remembers(map', b, r)
    BY <2>1 DEF RemembersInv
  <2>6. b \in Bindings(t, Path) /\ r \in Path /\ b \in Path
    BY <2>2, TreeFacts, CodeIsBinding DEF Shaped
  <2>7. b \in Bound \cap Bindings(t, Path) \cap Path /\ b \in added.nodes
    BY <2>4, <2>6 DEF Bindings
  <2>8. Remembers(declared, b, r)
    BY <2>2, <2>3, <2>6, <2>7, DeclareRemembers
  <2> HIDE DEF declared
  <2>9. Remembers(MakeParentsDependOnChildren(declared), b, r)
    BY <2>5, <2>8, ParentsRemember
  <2> QED BY <2>1, <2>9 DEF CreateDependencyMap, declared, added
<1>3. ASSUME NEW p \in Path, Touch(p) PROVE RemembersInv'
  BY <1>3 DEF Touch, RemembersInv
<1>4. ASSUME NEW d \in todo, HandleDiff(d) PROVE RemembersInv'
  BY <1>4, HandleDiffRemembers
<1>5. CASE Sort
  <2>1. map' = MakeParentsDependOnChildren(map) /\ map'.nodes = map.nodes /\ UNCHANGED <<tree, todo>>
    BY <1>5, MethodsNodes DEF Sort, IInv
  <2> SUFFICES ASSUME NEW b \in Bound, ~BoundParent(b), NEW r, Remembers(map, b, r)
               PROVE  Remembers(map', b, r)
    BY <2>1 DEF RemembersInv
  <2> QED BY <2>1, ParentsRemember DEF IInv
<1>6. CASE UNCHANGED vars
  BY <1>6 DEF vars, RemembersInv
<1> QED BY <1>1, <1>2, <1>3, <1>4, <1>5, <1>6 DEF Next

\* Whatever order paths appear, change and vanish in: when the worker is idle
\* the nodes are the paths of the tree, and code that mentions one of them
\* depends on it or on a path above it (Connected).
THEOREM CodeIsConnected ==
    ASSUME NestedCode
    PROVE  Spec => []Connected
<1> DEFINE Inv == IInv /\ NodesInv /\ RemembersInv
<1>1. Init => Inv
  <2>1. Init => RemembersInv
    BY DEF Init, EmptyMap, RemembersInv
  <2> QED BY <2>1, InitIInv, InitNodes
<1>2. Inv /\ [Next]_vars => Inv'
  BY NextIInv, NextNodes, NextRemembers
<1>3. Inv => Connected
  <2> SUFFICES ASSUME Inv, Idle PROVE
                 /\ map.nodes = tree.paths
                 /\ \A e \in Reads : e[2] \in tree.paths /\ ~BoundParent(e[1]) =>
                       \E q \in Dependencies(map.deps, e[1]) : Within(e[2], q)
    BY DEF Connected
  <2>1. map.nodes = tree.paths /\ todo = {}
    BY NodesWhenDone DEF Idle
  <2>2. ASSUME NEW e \in Reads, e[2] \in tree.paths, ~BoundParent(e[1])
        PROVE  \E q \in Dependencies(map.deps, e[1]) : Within(e[2], q)
    <3>1. e[1] \in Bound /\ e[1] \in tree.paths /\ e[2] \in tree.code[e[1]] /\ e[2] \in Path
      BY DEF Reads
    <3>2. PICK m \in Path : Within(e[2], m) /\ <<e[1], m>> \in map.deps \cup map.invalid
      BY <2>1, <2>2, <3>1 DEF RemembersInv, Remembers
    <3>3. m \in map.nodes
      BY <2>1, <2>2, <3>2, ClosedAbove DEF NodesInv, IInv, Sound, Maps
    <3>4. <<e[1], m>> \in map.deps
      BY <3>2, <3>3 DEF IInv, Sound
    <3> QED BY <3>2, <3>4 DEF Dependencies
  <2> QED BY <2>1, <2>2
<1> QED BY <1>1, <1>2, <1>3, PTL DEF Spec
-----------------------------------------------------------------------------
(* What an update does not evaluate is not concerned by it                  *)

\* What is changed covers what came and went since the last evaluation, and
\* the differences still to handle are about that.
SinceInv ==
    /\ Idle => last = tree
    /\ todo # {} => changes # {}
    /\ \A p \in Added \cup (last.paths \ tree.paths) : \E c \in changes : Within(p, c)
    /\ \A d \in todo :
          /\ d.event = "NEW" =>
                /\ d.path \in Added /\ d.paths = Inside(d.path) \cap tree.paths
                /\ IsEntity(d.path) \/ Parent(d.path) \in last.paths
          /\ d.event = "DELETE" => d.paths \subseteq last.paths
          /\ d.event = "EDIT" => d.path \in changes

\* Code that was not declared again, nor lost anything, is connected to what it
\* mentioned at the last evaluation.
KeptInv ==
    changes # {} =>
        \A b \in (Bound \cap tree.paths) \ (changes \cup dependants) : ~BoundParent(b) /\ ~Declared(b) =>
            \A r \in tree.code[b] \cap last.paths :
                \E q \in Path : Within(r, q) /\ <<b, q>> \in map.deps

\* No path waits for another above which something was added that it could have.
WaitsInv ==
    \A e \in map.invalid, q \in Added \cap map.nodes : ~IsEntity(q) => ~Below(e[2], q)

LEMMA PathsOfTrees ==
    ASSUME IInv
    PROVE  /\ Shaped(tree) /\ Shaped(last)
           /\ tree.paths \in SUBSET Path /\ last.paths \in SUBSET Path
           /\ Closed(tree.paths) /\ Closed(last.paths) /\ Added \in SUBSET Path
<1>1. Shaped(tree) /\ Shaped(last)
  BY TreesShaped DEF IInv, TypeOK
<1> QED BY <1>1 DEF Shaped, Added

\* What RemembersInv says when all is handled.
LEMMA ConnectedWhenDone ==
    ASSUME IInv, NodesInv, RemembersInv, todo = {},
           NEW b \in Bound, b \in tree.paths, ~BoundParent(b), NEW r \in tree.code[b]
    PROVE  /\ Remembers(map, b, r)
           /\ r \in tree.paths => \E q \in Path : Within(r, q) /\ <<b, q>> \in map.deps
<1>1. map.nodes = tree.paths
  BY NodesWhenDone
<1>2. Remembers(map, b, r)
  BY <1>1 DEF RemembersInv
<1>3. ASSUME r \in tree.paths
      PROVE  \E q \in Path : Within(r, q) /\ <<b, q>> \in map.deps
  <2>1. PICK q \in Path : Within(r, q) /\ <<b, q>> \in map.deps \cup map.invalid
    BY <1>2 DEF Remembers
  <2>2. q \in map.nodes
    BY <1>1, <1>3, <2>1, ClosedAbove, PathsOfTrees
  <2>3. <<b, q>> \in map.deps
    BY <2>1, <2>2 DEF IInv, Sound
  <2> QED BY <2>1, <2>3
<1> QED BY <1>2, <1>3

LEMMA UpdateTreeSince ==
    ASSUME IInv, NodesInv, SinceInv, NEW t \in Tree, UpdateTree(t)
    PROVE  SinceInv'
<1>1. /\ todo = {} /\ todo' = DiffOf(tree, t) /\ tree' = t /\ last = tree /\ last' = tree
      /\ changes' = Changed(tree, t)
  BY DEF UpdateTree, Idle, SinceInv
<1> DEFINE old == tree.paths
           new == t.paths
<1>2. old \in SUBSET Path /\ new \in SUBSET Path /\ Closed(old) /\ Closed(new)
  BY PathsOfTrees, TreesShaped DEF Shaped
<1>3. changes' # {}
  <2>1. Cardinality(changes') \in 1..MaxDiffs
    BY DEF UpdateTree
  <2>2. Cardinality({}) = 0
    BY FS_EmptySet
  <2> QED BY <2>1, <2>2
<1>4. \A q \in Roots(new, old) \cup Roots(old, new) : q \in changes'
  BY <1>1 DEF Changed
<1>5. \A p \in (new \ old) \cup (old \ new) : \E c \in changes' : Within(p, c)
  <2>1. /\ \A p \in new \ old : \E q \in Roots(new, old) : Within(p, q)
        /\ \A p \in old \ new : \E q \in Roots(old, new) : Within(p, q)
    BY <1>2, RootsFacts
  <2> QED BY <1>4, <2>1
<1>6. ASSUME NEW d \in todo'
      PROVE  /\ d.event = "NEW" =>
                   /\ d.path \in new \ old /\ d.paths = Inside(d.path) \cap new
                   /\ IsEntity(d.path) \/ Parent(d.path) \in old
             /\ d.event = "DELETE" => d.paths \subseteq old
             /\ d.event = "EDIT" => d.path \in changes'
  <2>1. d \in DiffOf(tree, t)
    BY <1>1
  <2>2. d.event = "EDIT" => d.path \in Edited(tree, t)
    BY <2>1 DEF DiffOf
  <2> QED BY <1>1, <2>1, <2>2, DiffShape DEF Roots, Changed
<1>7. Added' = new \ old
  BY <1>1 DEF Added
<1> QED BY <1>1, <1>3, <1>5, <1>6, <1>7 DEF SinceInv, Idle

LEMMA HandleDiffSince ==
    ASSUME SinceInv, NEW d \in todo, HandleDiff(d)
    PROVE  SinceInv'
<1>1. /\ tree' = tree /\ last' = last /\ todo' = todo \ {d} /\ changes' = changes
      /\ Added' = Added
  BY DEF HandleDiff, New, Delete, EditPath, Added
<1>2. changes' # {}
  BY <1>1 DEF SinceInv
<1> QED BY <1>1, <1>2 DEF SinceInv, Idle

\* Declaring paths leaves the dependencies of the others alone.
LEMMA AddDependencyOthers ==
    ASSUME NEW g, Sound(g), NEW N, NEW R, NEW b, b \notin N, NEW q, <<b, q>> \in g.deps
    PROVE  <<b, q>> \in AddDependency(g, N, R).deps
<1>1. \E V : AddDependency(g, N, R).deps = (g.deps \ Rows(g.deps, N \cap g.nodes)) \cup V
  BY DEF AddDependency, Sound, Maps
<1> QED BY <1>1 DEF Rows

\* Who still waits after addNodes waited before, for nothing it added.
LEMMA AddNodesInvalid ==
    ASSUME NEW g, Sound(g), NEW all, all \cap g.nodes = {}, NEW e \in AddNodes(g, all).invalid
    PROVE  e \in g.invalid /\ \A x \in all : ~Takes(all, all, x, e[2])
<1>1. all \ g.nodes = all
  OBVIOUS
<1> DEFINE new == all \ g.nodes
           taken == {w \in g.invalidInverse : \E x \in new : Takes(new, all, x, w[2])}
<1>2. AddNodes(g, all).invalid = g.invalid \ taken
  BY DEF AddNodes, Sound, Maps
<1> QED BY <1>1, <1>2 DEF Sound

\* A path that is still to be added is so with all that was added above it.
LEMMA UnhandledTogether ==
    ASSUME IInv, NodesInv, SinceInv, NEW d \in todo, HandleDiff(d),
           NEW m \in tree.paths \ map'.nodes, NEW q \in Added \cap map'.nodes
    PROVE  ~Below(m, q)
<1> SUFFICES ASSUME Below(m, q) PROVE FALSE
  OBVIOUS
<1>1. /\ tree.paths \in SUBSET Path /\ last.paths \in SUBSET Path /\ Closed(last.paths)
      /\ q \in tree.paths /\ q \notin last.paths /\ m \in Path /\ q \in Path /\ Within(m, q) /\ m # q
  BY PathsOfTrees, BelowIsWithin DEF Added
<1>2. NodesInv' /\ tree' = tree /\ todo' \subseteq todo
  BY HandleDiffNodes DEF HandleDiff
<1>3. PICK o \in todo' : o.event = "NEW" /\ m \in o.paths
  BY <1>1, <1>2 DEF NodesInv
<1>4. /\ o.path \in Path /\ Within(m, o.path) /\ o.paths = Inside(o.path) \cap tree.paths
      /\ IsEntity(o.path) \/ Parent(o.path) \in last.paths
  BY <1>1, <1>2, <1>3 DEF SinceInv, Inside, Added
<1>5. ~Within(q, o.path)
  BY <1>1, <1>2, <1>3, <1>4 DEF NodesInv, Inside
<1>6. Below(o.path, q)
  BY <1>1, <1>4, <1>5, WithinLinear, WithinSelf, BelowIsWithin
<1>7. ~IsEntity(o.path)
  <2>1. /\ q \in Seq(STRING) /\ o.path \in Seq(STRING) /\ Len(q) \in Nat /\ Len(q) >= 1
        /\ Len(o.path) \in Nat
    BY <1>1, <1>4, PathFacts
  <2>2. Within(o.path, q)
    BY <1>1, <1>4, <1>6, BelowIsWithin
  <2>3. Len(q) <= Len(o.path) /\ \A i \in 1..Len(q) : q[i] = o.path[i]
    BY <2>1, <2>2, WithinElements
  <2>4. ASSUME Len(o.path) = 1 PROVE FALSE
    <3>1. Len(q) = Len(o.path)
      BY <2>1, <2>3, <2>4
    <3>2. \A i \in 1..Len(o.path) : o.path[i] = q[i] /\ Len(o.path) <= Len(q)
      BY <2>3, <3>1
    <3> QED BY <1>5, <2>1, <3>1, <3>2, WithinElements
  <2> QED BY <2>4 DEF IsEntity
<1>8. Within(Parent(o.path), q) /\ Parent(o.path) \in last.paths
  BY <1>1, <1>4, <1>6, <1>7, ParentFacts
<1> QED BY <1>1, <1>8, ClosedAbove

\* Code that is declared waits for nothing of which a part is there, but as an
\* entity.
LEMMA DeclareWaits ==
    ASSUME Shaped(tree), Added \in SUBSET Path, NEW M, NEW N, NEW g, Sound(g),
           \A e \in g.invalid, q \in Added \cap g.nodes : ~IsEntity(q) => ~Below(e[2], q),
           \A m \in tree.paths \ g.nodes : \A q \in Added \cap g.nodes : ~Below(m, q),
           NEW e \in AddDependency(g, M, References(tree, N)).invalid,
           NEW q \in Added \cap g.nodes, ~IsEntity(q)
    PROVE  ~Below(e[2], q)
<1> DEFINE known == M \cap g.nodes
           R == References(tree, N)
<1>1. e \in g.invalid \/ (e \in R /\ e[2] \notin g.nodes)
  <2>1. AddDependency(g, M, R).invalid =
          (g.invalid \ Rows(g.invalid, known))
            \cup (Rows(R, known) \ {w \in Rows(R, known) : w[2] \in g.nodes})
    BY DEF AddDependency, Sound, Maps
  <2> HIDE DEF known, R
  <2> QED BY <2>1 DEF Rows, R
<1>2. CASE e \in g.invalid
  BY <1>2
<1>3. CASE e \in R /\ e[2] \notin g.nodes /\ e[2] \in tree.paths
  BY <1>3
<1>4. CASE e \in R /\ e[2] \notin tree.paths
  <2>1. PICK r \in tree.code[e[1]] : Prunes(tree.paths, r, e[2])
    BY <1>4 DEF References
  <2>2. e[2] = r /\ \A o \in tree.paths : ~(Within(r, o) /\ (IsEntity(o) => o = r))
    BY <1>4, <2>1 DEF Prunes
  <2>3. e[2] \in Path /\ q \in Path /\ q \in tree.paths
    BY <1>4, ReferencesType DEF Pairs, Added
  <2> QED BY <2>2, <2>3, BelowIsWithin
<1> QED BY <1>1, <1>2, <1>3, <1>4

\* Only what the difference declares loses a dependency, or who used what it
\* removes; and those are changed then.
LEMMA HandleDiffKept ==
    ASSUME IInv, NodesInv, SinceInv, KeptInv, NEW d \in todo, HandleDiff(d)
    PROVE  KeptInv'
<1>1. /\ tree' = tree /\ last' = last /\ Sound(map) /\ changes' = changes /\ changes # {}
      /\ dependants \subseteq dependants'
      /\ Added' = Added /\ d.paths \in SUBSET Path /\ tree.paths \in SUBSET Path /\ d.path \in Path
  BY PathsOfTrees
     DEF HandleDiff, New, Delete, EditPath, Added, SinceInv, IInv, TypeOK, Diffs
<1> SUFFICES ASSUME NEW b \in Bound, b \in tree.paths, b \notin changes' \cup dependants',
                    ~BoundParent(b), ~Declared(b),
                    NEW r \in tree.code[b], r \in last.paths
             PROVE  \E q \in Path : Within(r, q) /\ <<b, q>> \in map'.deps
  BY <1>1 DEF KeptInv, Declared
<1>2. PICK q \in Path : Within(r, q) /\ <<b, q>> \in map.deps
  BY <1>1 DEF KeptInv
<1> SUFFICES <<b, q>> \in map'.deps
  BY <1>2
<1>3. CASE New(d)
  <2> DEFINE again == Redeclared(d)
             added == AddNodes(map, d.paths)
  <2>1. /\ map' = AddDependency(added, again, References(tree, again))
        /\ d.path \in Added
    BY <1>3 DEF New, SinceInv
  <2>2. b \notin again
    <3>1. b[1] # d.path[1]
      BY <2>1 DEF Declared
    <3>2. CASE d.path \in Bound
      BY <3>1, <3>2 DEF Redeclared
    <3>3. CASE d.path \notin Bound
      <4> DEFINE e == <<d.path[1]>>
      <4>1. /\ b \in Seq(STRING) /\ Len(b) \in Nat /\ d.path \in Seq(STRING) /\ Len(d.path) \in Nat
            /\ Len(d.path) >= 1
        BY <1>1, PathFacts
      <4>2. e \in Seq(STRING) /\ Len(e) = 1 /\ e[1] = d.path[1]
        BY <4>1
      <4> HIDE DEF e
      <4>3. ASSUME Within(b, e) PROVE FALSE
        <5>1. \A i \in 1..Len(e) : e[i] = b[i]
          BY <4>1, <4>2, <4>3, WithinElements
        <5>2. e[1] = b[1]
          BY <4>2, <5>1
        <5> QED BY <3>1, <4>2, <5>2
      <4> QED BY <3>3, <4>3 DEF Inside, Redeclared, Bindings, e
    <3> QED BY <3>2, <3>3
  <2>3. <<b, q>> \in added.deps
    <3>1. map.deps \subseteq AddNodes(map, d.paths).deps
      BY <1>1 DEF AddNodes, Sound, Maps
    <3> QED BY <1>2, <3>1
  <2>4. Sound(added)
    BY <1>1, AddNodesSound
  <2> HIDE DEF again, added
  <2> QED BY <2>1, <2>2, <2>3, <2>4, AddDependencyOthers
<1>4. CASE Delete(d)
  <2>1. /\ map' = RemoveNodes(map, d.paths) /\ d.event = "DELETE"
        /\ dependants' = dependants \cup {e[1] : e \in {e \in map.inverse : e[2] \in d.paths}}
    BY <1>4 DEF Delete
  <2>2. <<b, q>> \in map.inverse
    BY <1>1, <1>2 DEF Sound
  <2>3. q \notin d.paths
    <3> DEFINE w == <<b, q>>
    <3>1. w[1] = b /\ w[2] = q /\ w \in map.inverse
      BY <2>2
    <3> HIDE DEF w
    <3> QED BY <2>1, <3>1
  <2>4. b \notin d.paths
    BY <2>1 DEF NodesInv
  <2>5. map'.deps = map.deps \ ({e \in map.inverse : e[2] \in d.paths \cap map.nodes}
                                \cup Rows(map.deps, d.paths \cap map.nodes))
    BY <1>1, <2>1 DEF RemoveNodes, Sound, Maps
  <2> QED BY <1>2, <2>3, <2>4, <2>5 DEF Rows
<1>5. CASE EditPath(d)
  <2> DEFINE again == {d.path} \ tree.literal
  <2>1. map' = AddDependency(map, again, References(tree, {d.path})) /\ d.path \in changes
    BY <1>5 DEF EditPath, SinceInv
  <2>2. b \notin again
    BY <1>1, <2>1
  <2> HIDE DEF again
  <2> QED BY <1>1, <1>2, <2>1, <2>2, AddDependencyOthers
<1> QED BY <1>3, <1>4, <1>5 DEF HandleDiff

LEMMA UpdateTreeKept ==
    ASSUME IInv, NodesInv, RemembersInv, SinceInv, NEW t \in Tree, UpdateTree(t)
    PROVE  KeptInv'
<1>1. /\ todo = {} /\ todo' = DiffOf(tree, t) /\ tree' = t /\ last = tree /\ last' = tree
      /\ changes' = Changed(tree, t) /\ map' = map
  BY DEF UpdateTree, Idle, SinceInv
<1> SUFFICES ASSUME NEW b \in Bound, b \in t.paths, b \notin changes', ~BoundParent(b), ~Declared(b)',
                    NEW r \in t.code[b], r \in tree.paths
             PROVE  \E q \in Path : Within(r, q) /\ <<b, q>> \in map.deps
  BY <1>1 DEF KeptInv
<1>2. b \in tree.paths
  BY <1>1 DEF Declared, Added
<1>3. t.code[b] = tree.code[b]
  BY <1>1, <1>2 DEF Changed, Edited
<1> QED BY <1>1, <1>2, <1>3, ConnectedWhenDone

\* What was added is taken over by who waited for a path below it, and what is
\* declared waits for nothing of which a part could be had.
LEMMA HandleDiffWaits ==
    ASSUME IInv, NodesInv, SinceInv, WaitsInv, NEW d \in todo, HandleDiff(d)
    PROVE  WaitsInv'
<1>1. /\ tree' = tree /\ last' = last /\ Sound(map) /\ Added' = Added /\ d.paths \in SUBSET Path
      /\ map.invalid \in SUBSET Pairs /\ map.nodes \in SUBSET Path /\ map.invalid \subseteq map.invalidInverse
  BY DEF HandleDiff, Added, IInv, TypeOK, Diffs, Sound, Maps
<1>2. /\ Shaped(tree) /\ tree.paths \in SUBSET Path /\ last.paths \in SUBSET Path
      /\ Closed(last.paths) /\ Closed(tree.paths) /\ Added \in SUBSET Path
  BY PathsOfTrees
<1>3. CASE New(d)
  <2> DEFINE again == Redeclared(d)
             added == AddNodes(map, d.paths)
  <2>1. /\ map' = AddDependency(added, again, References(tree, again))
        /\ d.event = "NEW"
    BY <1>3 DEF New
  <2>2. Sound(added) /\ added.nodes = map.nodes \cup d.paths
    BY <1>1, AddNodesSound, MethodsNodes
  <2>3. d.paths \cap map.nodes = {}
    BY <1>1, <2>1 DEF NodesInv
  <2>4. ASSUME NEW e \in added.invalid, NEW q \in Added \cap added.nodes, ~IsEntity(q)
        PROVE  ~Below(e[2], q)
    <3> SUFFICES ASSUME Below(e[2], q) PROVE FALSE
      OBVIOUS
    <3>1. e \in map.invalid /\ \A x \in d.paths : ~Takes(d.paths, d.paths, x, e[2])
      BY <1>1, <2>3, AddNodesInvalid
    <3>2. q \in d.paths
      BY <2>2, <2>4, <3>1 DEF WaitsInv
    <3>3. e[2] \in Path /\ e[2] \notin d.paths
      BY <1>1, <3>1 DEF Takes, Pairs
    <3> DEFINE Y == {y \in d.paths : Below(e[2], y)}
    <3>4. Y \in SUBSET Path /\ q \in Y /\ \A y \in Y : Within(e[2], y)
      BY <1>1, <3>2, <3>3, BelowIsWithin
    <3>5. PICK x \in Y : \A y \in Y : Len(y) <= Len(x)
      <4> HIDE DEF Y
      <4> QED BY <3>3, <3>4, LongestAbove
    <3>6. \A y \in Y : Within(x, y)
      BY <3>3, <3>4, <3>5, PathFacts, WithinElements
    <3> QED BY <3>1, <3>3, <3>5, <3>6 DEF Takes
  <2> HIDE DEF again, added
  <2>5. map'.nodes = added.nodes
    BY <2>1, <2>2, AddDependencySound, ReferencesType
  <2>6. \A m \in tree.paths \ map'.nodes : \A q \in Added \cap map'.nodes : ~Below(m, q)
    BY <1>3, <1>1, UnhandledTogether DEF HandleDiff
  <2> QED BY <1>1, <1>2, <2>1, <2>2, <2>4, <2>5, <2>6, DeclareWaits DEF WaitsInv
<1>4. CASE Delete(d)
  <2>1. map' = RemoveNodes(map, d.paths) /\ d.event = "DELETE"
    BY <1>4 DEF Delete
  <2>2. map'.nodes \subseteq map.nodes
    <3>1. map'.nodes = map.nodes \ d.paths
      BY <1>1, <2>1, MethodsNodes
    <3> QED BY <3>1
  <2>3. \A e \in map'.invalid : e \in map.invalid \/ (e[2] \in d.paths /\ e[2] \in Path)
    <3>1. map'.invalid \subseteq map.invalid \cup {e \in map.inverse : e[2] \in d.paths \cap map.nodes}
      BY <1>1, <2>1 DEF RemoveNodes, Rows, Sound, Maps
    <3> QED BY <1>1, <3>1
  <2> SUFFICES ASSUME NEW e \in map'.invalid, NEW q \in Added \cap map'.nodes, ~IsEntity(q), Below(e[2], q)
               PROVE  FALSE
    BY <1>1 DEF WaitsInv
  <2>4. e[2] \in last.paths
    BY <2>1, <2>2, <2>3 DEF WaitsInv, SinceInv
  <2>5. q \in last.paths
    BY <1>2, <2>4, ClosedAbove, BelowIsWithin
  <2> QED BY <2>5 DEF Added
<1>5. CASE EditPath(d)
  <2> DEFINE again == {d.path} \ tree.literal
  <2>1. /\ map' = AddDependency(map, again, References(tree, {d.path}))
        /\ map'.nodes = map.nodes
    <3>1. map' = AddDependency(map, again, References(tree, {d.path}))
      BY <1>5 DEF EditPath
    <3> HIDE DEF again
    <3> QED BY <1>1, <3>1, AddDependencySound, ReferencesType
  <2> HIDE DEF again
  <2>2. \A m \in tree.paths \ map'.nodes : \A q \in Added \cap map'.nodes : ~Below(m, q)
    BY <1>5, <1>1, UnhandledTogether DEF HandleDiff
  <2>3. \A e \in map.invalid, q \in Added \cap map.nodes : ~IsEntity(q) => ~Below(e[2], q)
    BY DEF WaitsInv
  <2> QED BY <1>1, <1>2, <2>1, <2>2, <2>3, DeclareWaits DEF WaitsInv
<1> QED BY <1>3, <1>4, <1>5 DEF HandleDiff

\* What is added to the map when parents are made to depend on their children.
LEMMA ParentsKeep ==
    ASSUME NEW g, Sound(g)
    PROVE  /\ g.deps \subseteq MakeParentsDependOnChildren(g).deps
           /\ MakeParentsDependOnChildren(g).nodes = g.nodes
<1> DEFINE touched == {c \in Path : \E d \in g.declared \cup {e[2] : e \in g.deps} : Within(d, c)}
           missing == {<<Parent(c), c>> : c \in {d \in touched : ~IsEntity(d)}} \ g.deps
           parents == {e[1] : e \in missing}
           R == missing \cup Rows(g.deps, parents)
           known == parents \cap g.nodes
<1>1. MakeParentsDependOnChildren(g) = AddDependency(g, parents, R)
  BY DEF MakeParentsDependOnChildren
<1> HIDE DEF touched, missing, parents
<1>2. AddDependency(g, parents, R).deps =
        (g.deps \ Rows(g.deps, known)) \cup {e \in Rows(R, known) : e[2] \in g.nodes}
  BY DEF AddDependency, Sound, Maps
<1>3. ASSUME NEW e \in Rows(g.deps, known)
      PROVE  e \in {o \in Rows(R, known) : o[2] \in g.nodes}
  BY DEF Rows, Sound
<1>4. AddDependency(g, parents, R).nodes = g.nodes
  BY DEF AddDependency, Sound, Maps
<1> QED BY <1>1, <1>2, <1>3, <1>4

\* The order has what it starts from, who depends on what it has, and parents.
LEMMA OrderIsClosed ==
    ASSUME NEW g, Sound(g), NEW S \in SUBSET Path
    PROVE  /\ S \subseteq SortOrder(g, S) /\ SortOrder(g, S) \in SUBSET Path
           /\ Closed(SortOrder(g, S))
           /\ \A e \in g.inverse : e[2] \in SortOrder(g, S) => e[1] \in SortOrder(g, S)
<1> DEFINE up == g.inverse \cup {<<Parent(p), p>> : p \in {q \in Path : ~IsEntity(q)}}
           closed == {C \in {S \cup Z : Z \in SUBSET (Path \ S)} :
                        \A e \in up : e[2] \in C => e[1] \in C}
<1>1. SortOrder(g, S) = {p \in Path : \A C \in closed : p \in C}
  BY DEF SortOrder
<1>2. \A e \in up : e[1] \in Path
  BY TreeFacts DEF Sound, Maps, Pairs
<1>3. \A C \in closed : S \subseteq C /\ \A e \in up : e[2] \in C => e[1] \in C
  OBVIOUS
<1>4. \A p \in Path : ~IsEntity(p) => <<Parent(p), p>> \in up
  OBVIOUS
<1>5. g.inverse \subseteq up
  OBVIOUS
<1> HIDE DEF closed, up
<1>6. \A e \in up : e[2] \in SortOrder(g, S) => e[1] \in SortOrder(g, S)
  BY <1>1, <1>2, <1>3
<1>7. Closed(SortOrder(g, S))
  <2> SUFFICES ASSUME NEW p \in SortOrder(g, S), ~IsEntity(p) PROVE Parent(p) \in SortOrder(g, S)
    BY DEF Closed
  <2> DEFINE e == <<Parent(p), p>>
  <2>1. e \in up /\ e[1] = Parent(p) /\ e[2] = p
    BY <1>1, <1>4
  <2> HIDE DEF e
  <2> QED BY <1>6, <2>1
<1> QED BY <1>1, <1>3, <1>5, <1>6, <1>7

\* Without a cycle nothing is lost by trimming: of the paths that depend on each
\* other there is always one that depends on none of them.
LEMMA TrimmedIsInOrder ==
    ASSUME NEW g, Sound(g), ~HasCycle(g.deps), NEW nested \in SUBSET Path, NEW X \in SUBSET Path,
           {p \in nested : Dependencies(g.deps, p) \cap nested = {}} \subseteq X,
           \A e \in g.inverse : e[2] \in X => e[1] \in X
    PROVE  nested \subseteq X
<1> DEFINE loop == nested \ X
<1> SUFFICES ASSUME loop # {} PROVE FALSE
  OBVIOUS
<1>1. ASSUME NEW p \in loop PROVE \E m \in loop : <<p, m>> \in g.deps
  <2>1. PICK m \in nested : <<p, m>> \in g.deps
    BY DEF Dependencies
  <2> DEFINE e == <<p, m>>
  <2>2. e \in g.inverse /\ e[1] = p /\ e[2] = m
    BY <2>1 DEF Sound
  <2> HIDE DEF e
  <2>3. m \notin X
    BY <2>2
  <2> QED BY <2>1, <2>3
<1>2. loop \in SUBSET {e[1] : e \in g.deps}
  <2> SUFFICES ASSUME NEW p \in loop PROVE p \in {e[1] : e \in g.deps}
    OBVIOUS
  <2>1. PICK m \in loop : <<p, m>> \in g.deps
    BY <1>1
  <2>2. <<p, m>>[1] = p
    OBVIOUS
  <2> QED BY <2>1, <2>2
<1>3. \A p \in loop : Dependencies(g.deps, p) \cap loop # {}
  BY <1>1 DEF Dependencies
<1> HIDE DEF loop
<1> QED BY <1>2, <1>3 DEF HasCycle

\* What is not in the order is no part of what changed and depends on nothing
\* that is in it, or that is above or below what changed.
LEMMA SkippedIsApart ==
    ASSUME IInv, Sort, ~cyclic', NEW b \in Bound, b \in tree.paths, b \notin order'
    PROVE  /\ b \notin changes \cup dependants /\ \A c \in changes \ Bound : ~Within(b, c)
           /\ \A m \in Path : <<b, m>> \in map.deps =>
                 /\ \A c \in changes \cup dependants : ~Within(m, c)
                 /\ \A c \in changes \cup dependants \cup order' : ~Within(c, m)
<1> DEFINE g == MakeParentsDependOnChildren(map)
           wide == changes \cup dependants
                     \cup {p \in Bound \cap tree.paths : \E c \in changes \ Bound : Below(p, c)}
           nested == wide \cup {e[1] : e \in {e \in g.inverse : \E c \in wide : Within(e[2], c)}}
           S == RootsOfOrder(g, tree, changes, dependants)
           X == SortOrder(g, S)
<1>1. Sound(g) /\ map.deps \subseteq g.deps /\ g.deps \subseteq g.inverse
  BY ParentsSound, ParentsKeep DEF IInv, Sound
<1>2. /\ ~HasCycle(g.deps) /\ order' = X \cap Bound \cap tree.paths
      /\ changes \in SUBSET Path /\ dependants \in SUBSET Path
  <2>1. /\ cyclic' = HasCycle(g.deps)
        /\ order' = IF cyclic' THEN {} ELSE EvaluationOrder(g, tree, changes, dependants)
    BY DEF Sort
  <2> QED BY <2>1 DEF EvaluationOrder, IInv, TypeOK
<1>3. wide \in SUBSET Path /\ nested \in SUBSET Path
  BY <1>1, <1>2, TreeFacts DEF Sound, Maps, Pairs
<1>4. S = {p \in nested : Dependencies(g.deps, p) \cap nested = {}}
  BY DEF RootsOfOrder
<1> HIDE DEF g, S
<1>5. /\ S \subseteq X /\ X \in SUBSET Path /\ Closed(X)
      /\ \A e \in g.inverse : e[2] \in X => e[1] \in X
  <2>1. S \in SUBSET Path
    BY <1>3, <1>4
  <2> QED BY <1>1, <2>1, OrderIsClosed
<1> HIDE DEF X
<1>6. nested \subseteq X
  <2> HIDE DEF nested
  <2> QED BY <1>1, <1>2, <1>3, <1>4, <1>5, TrimmedIsInOrder
<1>7. b \notin X /\ b \in Path
  BY <1>2, TreeFacts
<1>8. b \notin changes \cup dependants /\ \A c \in changes \ Bound : ~Within(b, c)
  BY <1>2, <1>6, <1>7, BelowIsWithin
<1>9. ASSUME NEW m \in Path, <<b, m>> \in map.deps
      PROVE  /\ \A c \in changes \cup dependants : ~Within(m, c)
             /\ \A c \in changes \cup dependants \cup order' : ~Within(c, m)
  <2> DEFINE e == <<b, m>>
  <2>1. e \in g.inverse /\ e[1] = b /\ e[2] = m
    BY <1>1, <1>9
  <2> HIDE DEF e
  <2>2. ASSUME NEW c \in changes \cup dependants, Within(m, c) PROVE FALSE
    BY <1>6, <1>7, <2>1, <2>2
  <2>3. ASSUME NEW c \in changes \cup dependants \cup order', Within(c, m) PROVE FALSE
    <3>1. c \in X
      BY <1>2, <1>6
    <3>2. m \in X
      BY <1>5, <1>9, <2>3, <3>1, ClosedAbove
    <3> QED BY <1>5, <1>7, <2>1, <3>2
  <2> QED BY <2>2, <2>3
<1> QED BY <1>8, <1>9

\* The step of the theorem.
LEMMA SortIsComplete ==
    ASSUME IInv, NodesInv, RemembersInv, SinceInv, KeptInv, WaitsInv, Sort, ~cyclic',
           NEW b \in Bound, b \in tree.paths, ~BoundParent(b), b \notin order', NEW r \in tree.code[b]
    PROVE  /\ r \in tree.paths =>
                 /\ r \in last.paths
                 /\ \A c \in changes \cup dependants : ~Within(c, r) /\ ~Within(r, c)
                 /\ \A c \in order' : ~Within(c, r)
           /\ r \notin tree.paths =>
                 /\ r \notin last.paths \/ Declared(b)
                 /\ \A q \in Added : Within(r, q) => IsEntity(q)
<1>1. /\ Shaped(tree) /\ tree.paths \in SUBSET Path /\ last.paths \in SUBSET Path
      /\ Closed(tree.paths) /\ Added \in SUBSET Path /\ r \in Path /\ b \in Path
      /\ changes \cup dependants \in SUBSET Path /\ order' \in SUBSET Path
  <2>1. order' \subseteq Bound
    BY DEF Sort, EvaluationOrder
  <2> QED BY <2>1, PathsOfTrees, TreeFacts DEF Shaped, IInv, TypeOK
<1>2. todo = {} /\ changes # {} /\ map.nodes = tree.paths
  BY NodesWhenDone DEF Sort
<1>3. ASSUME NEW m \in Path, Within(r, m), <<b, m>> \in map.deps
      PROVE  /\ \A c \in changes \cup dependants : ~Within(r, c)
             /\ \A c \in changes \cup dependants \cup order' : ~Within(c, r)
  <2>1. /\ \A c \in changes \cup dependants : ~Within(m, c)
        /\ \A c \in changes \cup dependants \cup order' : ~Within(c, m)
    BY <1>3, SkippedIsApart
  <2> QED BY <1>1, <1>3, <2>1, WithinLinear, WithinTransitive
<1>4. ASSUME r \in tree.paths
      PROVE  /\ r \in last.paths
             /\ \A c \in changes \cup dependants : ~Within(c, r) /\ ~Within(r, c)
             /\ \A c \in order' : ~Within(c, r)
  <2>1. PICK m \in Path : Within(r, m) /\ <<b, m>> \in map.deps
    BY <1>2, <1>4, ConnectedWhenDone
  <2>2. r \notin Added
    BY <1>3, <2>1 DEF SinceInv
  <2> QED BY <1>3, <1>4, <2>1, <2>2 DEF Added
<1>5. ASSUME r \notin tree.paths, r \in last.paths PROVE Declared(b)
  <2> SUFFICES ASSUME ~Declared(b) PROVE FALSE
    OBVIOUS
  <2>1. b \notin changes \cup dependants
    BY SkippedIsApart
  <2>2. PICK q \in Path : Within(r, q) /\ <<b, q>> \in map.deps
    BY <1>2, <1>5, <2>1 DEF KeptInv
  <2> QED BY <1>3, <1>5, <2>2 DEF SinceInv
<1>6. ASSUME r \notin tree.paths, NEW q \in Added, Within(r, q), ~IsEntity(q) PROVE FALSE
  <2>1. PICK m \in Path : Within(r, m) /\ <<b, m>> \in map.deps \cup map.invalid
    BY <1>2, ConnectedWhenDone DEF Remembers
  <2>2. PICK c \in changes : Within(q, c)
    BY DEF SinceInv
  <2>3. Within(r, c)
    BY <1>1, <1>6, <2>2, WithinTransitive
  <2>4. <<b, m>> \notin map.deps
    BY <1>3, <2>1, <2>3
  <2>5. m \notin tree.paths /\ q \in tree.paths
    <3> DEFINE e == <<b, m>>
    <3>1. e \in map.invalid /\ e[2] = m
      BY <2>1, <2>4
    <3> HIDE DEF e
    <3> QED BY <1>2, <3>1 DEF IInv, Sound, Added
  <2>6. Below(m, q)
    BY <1>1, <1>6, <2>1, <2>5, WithinLinear, WithinSelf, ClosedAbove, BelowIsWithin
  <2> DEFINE e == <<b, m>>
  <2>7. e \in map.invalid /\ e[2] = m
    BY <2>1, <2>4
  <2> HIDE DEF e
  <2> QED BY <1>2, <1>6, <2>5, <2>6, <2>7 DEF WaitsInv
<1> QED BY <1>4, <1>5, <1>6

\* Every step keeps the three.
LEMMA NextSince ==
    ASSUME NestedCode
    PROVE  /\ IInv /\ NodesInv /\ RemembersInv /\ SinceInv /\ KeptInv /\ WaitsInv
           /\ [Next]_vars
           => (SinceInv /\ KeptInv /\ WaitsInv)'
<1> SUFFICES ASSUME IInv, NodesInv, RemembersInv, SinceInv, KeptInv, WaitsInv, [Next]_vars
             PROVE  (SinceInv /\ KeptInv /\ WaitsInv)'
  OBVIOUS
<1>1. ASSUME NEW t \in Tree, UpdateTree(t) PROVE (SinceInv /\ KeptInv /\ WaitsInv)'
  <2>1. todo = {} /\ tree' = t /\ last = tree /\ last' = tree /\ map' = map /\ map.nodes = tree.paths
    BY <1>1, NodesWhenDone DEF UpdateTree, Idle, SinceInv
  <2>2. WaitsInv'
    BY <2>1 DEF WaitsInv, Added
  <2> QED BY <1>1, <2>2, UpdateTreeSince, UpdateTreeKept
<1>2. ASSUME NEW t \in Tree, SetupFirstTree(t) PROVE (SinceInv /\ KeptInv /\ WaitsInv)'
  BY <1>2 DEF SetupFirstTree, Idle, SinceInv, KeptInv, WaitsInv, Added
<1>3. ASSUME NEW p \in Path, Touch(p) PROVE (SinceInv /\ KeptInv /\ WaitsInv)'
  <2>1. todo = {} /\ todo' = {} /\ tree' = tree /\ last = tree /\ last' = tree /\ map' = map
        /\ changes' = {p}
    BY <1>3 DEF Touch, Idle, SinceInv
  <2>2. KeptInv'
    BY <2>1, ConnectedWhenDone DEF KeptInv
  <2> QED BY <2>1, <2>2 DEF SinceInv, Idle, WaitsInv, Added
<1>4. ASSUME NEW d \in todo, HandleDiff(d) PROVE (SinceInv /\ KeptInv /\ WaitsInv)'
  BY <1>4, HandleDiffSince, HandleDiffKept, HandleDiffWaits
<1>5. CASE Sort
  BY <1>5 DEF Sort, SinceInv, Idle, KeptInv, WaitsInv, Added
<1>6. CASE UNCHANGED vars
  BY <1>6 DEF vars, SinceInv, Idle, KeptInv, WaitsInv, Added, Declared
<1> QED BY <1>1, <1>2, <1>3, <1>4, <1>5, <1>6 DEF Next

\* Whatever comes, changes and goes in one update, and in whatever order it is
\* handled: a path that is not evaluated is not changed, and what its code
\* mentions is neither new nor gone, neither changed nor evaluated itself; but
\* for the declarations that hide a removal (OrderComplete).
THEOREM SkippedIsUnconcerned ==
    ASSUME NestedCode
    PROVE  Spec => OrderComplete
<1> DEFINE Inv == IInv /\ NodesInv /\ RemembersInv /\ SinceInv /\ KeptInv /\ WaitsInv
           Complete == Sort /\ ~cyclic' =>
             \A b \in {b \in Bound \cap tree.paths : ~BoundParent(b)} \ order' :
                 /\ b \notin changes \cup dependants
                 /\ \A c \in changes \ Bound : ~Within(b, c)
                 /\ \A r \in tree.code[b] :
                       /\ r \in tree.paths =>
                             /\ r \in last.paths
                             /\ \A c \in changes \cup dependants : ~Within(c, r) /\ ~Within(r, c)
                             /\ \A c \in order' : ~Within(c, r)
                       /\ r \notin tree.paths =>
                             /\ r \notin last.paths \/ Declared(b)
                             /\ \A q \in Added : Within(r, q) => IsEntity(q)
<1>1. Init => Inv
  <2>1. Init => RemembersInv /\ SinceInv /\ KeptInv /\ WaitsInv
    BY DEF Init, EmptyMap, EmptyTree, RemembersInv, SinceInv, KeptInv, WaitsInv, Idle, Added
  <2> QED BY <2>1, InitIInv, InitNodes
<1>2. Inv /\ [Next]_vars => Inv'
  BY NextIInv, NextNodes, NextRemembers, NextSince
<1>3. Inv => Complete
  BY SkippedIsApart, SortIsComplete
<1> QED BY <1>1, <1>2, <1>3, PTL DEF Spec, OrderComplete

=============================================================================
