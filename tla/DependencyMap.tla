------------------------------ MODULE DependencyMap ------------------------------
(***************************************************************************)
(* The dependency map of the evaluation worker and its upkeep:             *)
(* entities/DependencyMap, workers/common/DependencyMap and the sort order *)
(* DataTreeEvaluator derives from it.  A property path is the sequence of  *)
(* its names (<<"Table1", "data">>); code of a bound path is the set of    *)
(* paths it mentions.  The four maps of the class are sets of pairs <<n,   *)
(* m>> read "n depends on m", whichever way the class indexes them.        *)
(***************************************************************************)
EXTENDS Naturals, FiniteSets, Sequences, SequencesExt

CONSTANTS
    Path,       \* every property path there may be, entities included
    Bound,      \* the reactive ones (isDynamicLeaf)
    Tree,       \* the unevaluated trees the editor can build
    Rank,       \* Rank[p]: the order of the keys in the tree, parents first
    MaxDiffs,   \* bound on the differences of one evaluation
    MaxTrees    \* bound on the trees that are evaluated

Parent(p) == Front(p)
IsEntity(p) == Len(p) = 1
Within(c, p) == IsPrefix(p, c)          \* isChildPropertyPath(p, c)
Below(c, p) == IsStrictPrefix(p, c)

(* A tree: its paths, the code of its bound paths, and those of them whose *)
(* value is no string (a toggle that was switched back from JS) or a       *)
(* string without a binding.  What a JS object holds counts as code.       *)
WellFormed(t) ==
    /\ t \in [paths : SUBSET Path, code : [Bound -> SUBSET Path],
              literal : SUBSET Bound, plain : SUBSET Bound]
    /\ \A p \in t.paths : IsEntity(p) \/ Parent(p) \in t.paths
    /\ \A b \in Bound : b \notin t.paths \ (t.literal \cup t.plain) => t.code[b] = {}
    /\ t.literal \cap t.plain = {}

ASSUME TreeAssumption ==
    /\ Path \subseteq Seq(STRING) \ {<<>>} /\ IsFiniteSet(Path)
    /\ \A p \in Path : IsEntity(p) \/ Parent(p) \in Path
    /\ Bound \subseteq {p \in Path : ~IsEntity(p)}
    /\ \A t \in Tree : WellFormed(t)
    /\ Rank \in [Path -> Nat] /\ MaxDiffs \in Nat /\ MaxTrees \in Nat

VARIABLES
    tree,       \* the unevaluated tree the worker was last given
    map,        \* the dependency map
    todo,       \* translated differences that are not handled yet
    changes,    \* the changed paths (updatedValuePaths)
    dependants, \* those who depended on deleted ones
    order,      \* the bound paths the last evaluation evaluates
    cyclic,     \* hasCyclicalDependency
    trees,      \* how many trees were evaluated
    last,       \* history: the tree of the evaluation before the one under way
    abandoned,  \* history: pairs <<n, m>> where n was removed waiting for m
    retained    \* history: paths with the dependencies of a value they lost

vars == <<tree, map, todo, changes, dependants, order, cyclic, trees, last,
          abandoned, retained>>

Pairs == Path \X Path
Dependencies(R, n) == {m \in Path : <<n, m>> \in R}
Rows(R, N) == {e \in R : e[1] \in N}

Maps == [nodes : SUBSET Path, declared : SUBSET Path, deps : SUBSET Pairs,
         inverse : SUBSET Pairs, invalid : SUBSET Pairs,
         invalidInverse : SUBSET Pairs]
Diffs == [event : {"NEW", "DELETE", "EDIT"}, path : Path, paths : SUBSET Path]

---------------------------------------------------------------------------
(* The class DependencyMap                                                 *)

(* Mutant: the references of a path that is declared again are added up.   *)
AddToDependency(g, N, R) ==
    LET known == N \cap g.nodes
        valid == {e \in Rows(R, known) : e[2] \in g.nodes}
        invalid == Rows(R, known) \ valid
    IN  [g EXCEPT
           !.declared = @ \cup known, !.deps = @ \cup valid, !.inverse = @ \cup valid,
           !.invalid = @ \cup invalid, !.invalidInverse = @ \cup invalid]

(* addDependency of every node of N that is in the graph; R holds the      *)
(* references of each.                                                     *)
AddDependency(g, N, R) ==
    LET known == N \cap g.nodes
        valid == {e \in Rows(R, known) : e[2] \in g.nodes}
        invalid == Rows(R, known) \ valid
    IN  [g EXCEPT
           !.declared = @ \cup known,
           !.deps = (@ \ Rows(@, known)) \cup valid,
           !.invalid = (@ \ Rows(@, known)) \cup invalid,
           !.inverse = (@ \ (Rows(g.deps, known) \ valid)) \cup valid,
           !.invalidInverse =
                (@ \ (Rows(g.invalid, known) \ invalid)) \cup invalid]

(* Mutant: only those take over who mention the new path itself.           *)
TakesExactly(new, all, x, m) == m = x

Takes(new, all, x, m) ==
    \/ m = x
    \/ /\ m \notin all /\ Below(m, x)
       /\ \A y \in new : Below(m, y) => Within(x, y)

(* Mutant: an added path stays an invalid dependency of those who waited.  *)
AddNodesKeepInvalid(g, all) ==
    LET taken == {e \in g.invalidInverse : e[2] \in all \ g.nodes}
    IN  [g EXCEPT !.nodes = @ \cup all, !.deps = @ \cup Rows(taken, g.declared),
                  !.inverse = @ \cup taken, !.invalidInverse = @ \ taken]

AddNodes(g, all) ==
    LET new == all \ g.nodes
        taken == {e \in g.invalidInverse : \E x \in new : Takes(new, all, x, e[2])}
        joined == {e \in {w[1] : w \in taken} \X new :
                     \E w \in taken : w[1] = e[1] /\ Takes(new, all, e[2], w[2])}
    IN  [g EXCEPT
           !.nodes = @ \cup new,
           !.deps = @ \cup Rows(joined, g.declared),
           !.inverse = @ \cup joined,
           !.invalid = @ \ taken,
           !.invalidInverse = @ \ taken]

(* removeNodes, in the order of the keys: a node that is removed after the *)
(* one it depends on is still in the graph when it is made to wait.        *)
RemoveNodes(g, all) ==
    LET gone == all \cap g.nodes
        users == {e \in g.inverse : e[2] \in gone}
        waits == {e \in users : /\ e[1] \in g.nodes
                                /\ e[1] \in gone => Rank[e[1]] > Rank[e[2]]}
    IN  [g EXCEPT
           !.nodes = @ \ gone,
           !.declared = @ \ gone,
           !.deps = @ \ (users \cup Rows(@, gone)),
           !.inverse = @ \ (users \cup Rows(g.deps, gone)),
           !.invalid = (@ \cup Rows(users, g.declared)) \ Rows(@ \cup users, gone),
           !.invalidInverse = @ \cup waits]

(* makeParentsDependOnChildren                                             *)
MakeParentsDependOnChildren(g) ==
    LET touched == {c \in Path :
                      \E d \in g.declared \cup {e[2] : e \in g.deps} : Within(d, c)}
        missing == {<<Parent(c), c>> : c \in {d \in touched : ~IsEntity(d)}} \ g.deps
        parents == {e[1] : e \in missing}
    IN  AddDependency(g, parents, missing \cup Rows(g.deps, parents))

(* Whether toposort fails: some paths each of which depends on one of them. *)
HasCycle(R) ==
    \E loop \in SUBSET {e[1] : e \in R} \ {{}} :
        \A p \in loop : Dependencies(R, p) \cap loop # {}

---------------------------------------------------------------------------
(* References and diffs                                                    *)

(* getPrunedReferences: q is the longest existing part of r that is no      *)
(* entity, or r itself when no part of it exists.                          *)
Prunes(paths, r, q) ==
    LET parts == {o \in paths : Within(r, o) /\ (IsEntity(o) => o = r)}
    IN  /\ Within(r, q)
        /\ IF parts = {} THEN q = r ELSE q \in parts /\ \A o \in parts : Len(o) <= Len(q)

(* What getEntityDependencies or getEntityPathDependencies find at N.      *)
References(t, N) ==
    {e \in (Bound \cap N) \X Path : \E r \in t.code[e[1]] : Prunes(t.paths, r, e[2])}

(* The paths of N that hold a binding (dynamicBindingPathList).            *)
Bindings(t, N) == (Bound \cap t.paths \cap N) \ (t.literal \cup t.plain)
Inside(p) == {q \in Path : Within(q, p)}
Roots(ps, rest) == {p \in ps \ rest : IsEntity(p) \/ Parent(p) \in rest}

(* deep-diff.                                                              *)
Edited(old, new) ==
    {b \in Bound \cap old.paths \cap new.paths :
        \/ old.code[b] # new.code[b]
        \/ (b \in old.literal) # (b \in new.literal)
        \/ (b \in old.plain) # (b \in new.plain)}
Changed(old, new) ==
    Roots(new.paths, old.paths) \cup Roots(old.paths, new.paths) \cup Edited(old, new)

(* translateDiffEventToDataTreeDiffEvent.  An edit between values without  *)
(* bindings is no event (NOOP).                                            *)
DiffOf(old, new) ==
    {[event |-> "NEW", path |-> p, paths |-> Inside(p) \cap new.paths] :
        p \in Roots(new.paths, old.paths)}
    \cup {[event |-> "DELETE", path |-> p, paths |-> Inside(p) \cap old.paths] :
        p \in Roots(old.paths, new.paths)}
    \cup {[event |-> "EDIT", path |-> b, paths |-> {b}] :
        b \in Edited(old, new) \cap (Bindings(old, Path) \cup Bindings(new, Path))}

---------------------------------------------------------------------------
(* The evaluation order                                                    *)

(* calculateSubTreeSortOrder up to the trimming: the changes C, the bound  *)
(* paths below one that is not bound itself, the dependants D of what was  *)
(* deleted, and whoever depends on a path below one of these, less those   *)
(* that depend on another of them anyway.                                  *)
RootsOfOrder(g, t, C, D) ==
    LET wide == C \cup D \cup {b \in Bound \cap t.paths : \E c \in C \ Bound : Below(b, c)}
        nested == wide \cup {e[1] : e \in {e \in g.inverse : \E c \in wide : Within(e[2], c)}}
    IN  {p \in nested : Dependencies(g.deps, p) \cap nested = {}}

(* getCompleteSortOrder: dependants and parents until nothing is added.    *)
SortOrder(g, S) ==
    LET up == g.inverse \cup {<<Parent(p), p>> : p \in {q \in Path : ~IsEntity(q)}}
        closed == {C \in {S \cup X : X \in SUBSET (Path \ S)} :
                     \A e \in up : e[2] \in C => e[1] \in C}
    IN  {p \in Path : \A C \in closed : p \in C}

(* Mutant: what is no leaf is evaluated too.                               *)
EvaluationOrderOfAll(g, t, C, D) == SortOrder(g, RootsOfOrder(g, t, C, D)) \cap t.paths
EvaluationOrder(g, t, C, D) ==
    SortOrder(g, RootsOfOrder(g, t, C, D)) \cap Bound \cap t.paths

---------------------------------------------------------------------------
(* The worker                                                              *)

EmptyMap == [nodes |-> {}, declared |-> {}, deps |-> {}, inverse |-> {},
             invalid |-> {}, invalidInverse |-> {}]

(* createDependencyMap                                                     *)
CreateDependencyMap(t) ==
    MakeParentsDependOnChildren(
        AddDependency(AddNodes(EmptyMap, t.paths), Bindings(t, Path), References(t, Path)))

EmptyTree ==
    [paths |-> {}, code |-> [b \in Bound |-> {}], literal |-> {}, plain |-> {}]

Init ==
    /\ tree = EmptyTree /\ map = EmptyMap /\ todo = {} /\ changes = {}
    /\ dependants = {} /\ order = {} /\ cyclic = FALSE /\ trees = 0
    /\ last = EmptyTree /\ abandoned = {} /\ retained = {}

Idle == todo = {} /\ changes = {}

(* Another tree comes: setupUpdateTree computes the differences.           *)
UpdateTree(t) ==
    /\ Idle /\ ~cyclic /\ t # tree /\ trees < MaxTrees
    /\ todo' = DiffOf(tree, t)
    /\ changes' = Changed(tree, t) /\ Cardinality(changes') \in 1..MaxDiffs
    /\ tree' = t /\ trees' = trees + 1
    /\ order' = {}
    /\ UNCHANGED <<map, dependants, cyclic, last, abandoned, retained>>

(* The value of a path without binding is edited and stays without one.     *)
Touch(p) ==
    /\ Idle /\ ~cyclic /\ p \in tree.paths \ Bindings(tree, Path)
    /\ \A q \in tree.paths : ~Below(q, p)
    /\ changes' = {p}
    /\ order' = {}
    /\ UNCHANGED <<tree, map, todo, dependants, cyclic, trees, last, abandoned, retained>>

(* Which paths a new one makes declare their references.                   *)
Redeclared(d) ==
    IF d.path \in Bound THEN {d.path} ELSE Bindings(tree, Inside(<<d.path[1]>>))

(* Mutant: the references of a new path are added before it is a node.     *)
DeclareBeforeNew(d) ==
    LET again == Redeclared(d)
    IN  /\ d.event = "NEW"
        /\ IsEntity(d.path) => \A o \in todo : o.event = "NEW" /\ IsEntity(o.path)
        /\ map' = AddNodes(AddDependency(map, again, References(tree, again)), d.paths)
        /\ retained' = retained \ again
        /\ UNCHANGED <<dependants, abandoned>>

(* One turn of the loop of updateDependencyMap.  Differences come in the   *)
(* order of the keys, new entities last.                                   *)
New(d) ==
    LET added == AddNodes(map, d.paths)
        again == Redeclared(d)
    IN  /\ d.event = "NEW"
        /\ IsEntity(d.path) => \A o \in todo : o.event = "NEW" /\ IsEntity(o.path)
        /\ map' = AddDependency(added, again, References(tree, again))
        /\ retained' = retained \ again
        /\ UNCHANGED <<dependants, abandoned>>
Delete(d) ==
    /\ d.event = "DELETE"
    /\ map' = RemoveNodes(map, d.paths)
    /\ dependants' = dependants \cup {e[1] : e \in {e \in map.inverse : e[2] \in d.paths}}
    /\ abandoned' = abandoned \cup Rows(map'.invalidInverse, d.paths)
    /\ retained' = retained \ d.paths
EditPath(d) ==
    /\ d.event = "EDIT"
    /\ LET again == {d.path} \ tree.literal
       IN  /\ map' = AddDependency(map, again, References(tree, {d.path}))
           /\ retained' = (retained \cup {d.path}) \ again
    /\ UNCHANGED <<dependants, abandoned>>
HandleDiff(d) ==
    /\ New(d) \/ Delete(d) \/ EditPath(d)
    /\ todo' = todo \ {d}
    /\ UNCHANGED <<tree, changes, order, cyclic, trees, last>>

(* The rest of updateDependencyMap and setupTree.  On a cycle the sorting  *)
(* throws and nothing is evaluated.                                        *)
Sort ==
    /\ todo = {} /\ changes # {}
    /\ LET g == MakeParentsDependOnChildren(map)
       IN  /\ map' = g
           /\ cyclic' = HasCycle(g.deps)
           /\ order' = IF cyclic' THEN {} ELSE EvaluationOrder(g, tree, changes, dependants)
    /\ changes' = {} /\ dependants' = {} /\ last' = tree
    /\ UNCHANGED <<tree, todo, trees, abandoned, retained>>

(* After a cycle the next evaluation makes a new evaluator.                *)
SetupFirstTree(t) ==
    /\ Idle /\ cyclic /\ trees < MaxTrees
    /\ trees' = trees + 1
    /\ tree' = t /\ last' = t
    /\ map' = CreateDependencyMap(t)
    /\ cyclic' = HasCycle(map'.deps)
    /\ order' = IF cyclic' THEN {} ELSE Bound \cap t.paths
    /\ abandoned' = {} /\ retained' = {}
    /\ UNCHANGED <<todo, changes, dependants>>

Next ==
    \/ \E t \in Tree : UpdateTree(t) \/ SetupFirstTree(t)
    \/ \E p \in Path : Touch(p)
    \/ \E d \in todo : HandleDiff(d)
    \/ Sort

Spec == Init /\ [][Next]_vars

---------------------------------------------------------------------------
(* Properties                                                              *)

TypeOK ==
    /\ {tree, last} \subseteq Tree \cup {EmptyTree} /\ map \in Maps /\ todo \subseteq Diffs
    /\ changes \cup dependants \subseteq Path /\ order \subseteq Bound
    /\ cyclic \in BOOLEAN /\ trees \in 0..MaxTrees
    /\ abandoned \subseteq Pairs /\ retained \subseteq Path

(* Through any sequence of calls, also in the middle of an update: every   *)
(* dependency is in the inverse map, so a change finds its dependants, and *)
(* every path that waits for an unknown one is found when that is added;   *)
(* valid dependencies are between nodes, invalid ones never on a node.     *)
InversesAgree ==
    /\ map.deps \subseteq map.inverse /\ map.invalid \subseteq map.invalidInverse
    /\ map.declared \subseteq map.nodes
    /\ \A e \in map.deps : e[1] \in map.declared /\ e[2] \in map.nodes
    /\ \A e \in map.invalid : e[1] \in map.declared /\ e[2] \notin map.nodes

Reads == {e \in Bound \X Path : e[1] \in tree.paths /\ e[2] \in tree.code[e[1]]}
BoundParent(p) == \E c \in Path : Below(c, p)

(* After an update the nodes are the paths of the tree, and code that      *)
(* mentions one of them depends on it or on a path above it, in whatever   *)
(* order the two appeared, unless it is code of a path with paths below it *)
(* (see UsedEarlierIsConnected).                                           *)
Connected ==
    Idle /\ ~cyclic =>
        /\ map.nodes = tree.paths
        /\ \A e \in Reads : e[2] \in tree.paths /\ ~BoundParent(e[1]) =>
              \E q \in Dependencies(map.deps, e[1]) : Within(e[2], q)

(* "If it was used earlier, it is added to the valid dependencies"         *)
(* (addNodes), for every code.                                             *)
UsedEarlierIsConnected ==
    Idle /\ ~cyclic =>
        \A e \in Reads : e[2] \in tree.paths =>
            \E q \in Dependencies(map.deps, e[1]) : Within(e[2], q)

(* No dependency is made up: the parent depends on its child, the code     *)
(* mentions it, or it is one of two leftovers.  An edit from a binding to   *)
(* a value that is no string declares nothing, and no later value without  *)
(* a binding does; the next binding does, and so does the path when it is  *)
(* removed and comes back.  And a path that is removed while it waits      *)
(* keeps waiting.  So "Cyclic dependency found" without a leftover means   *)
(* a cycle.                                                                *)
Explained ==
    Idle => \A e \in map.deps :
        \/ ~IsEntity(e[2]) /\ e[1] = Parent(e[2])
        \/ \E r \in IF e[1] \in Bound THEN tree.code[e[1]] ELSE {} : Within(r, e[2])
        \/ e[1] \in retained
        \/ \E w \in abandoned : w[1] = e[1] /\ Within(w[2], e[2])

(* A path that an update does not evaluate is not concerned by it: it is    *)
(* not changed, nor below a change but of a bound path; it depended on     *)
(* nothing that was removed; and what its code mentions is as before.  If  *)
(* that exists, it existed, and nothing above or below it is changed or    *)
(* evaluated; if not, it did not, and no other part of it was added.  But  *)
(* for a path whose entity got another path, of which a new declaration    *)
(* may have hidden that something was deleted.                             *)
Added == tree.paths \ last.paths
Declared(b) == \E p \in Added : p[1] = b[1]
OrderComplete ==
    [][Sort /\ ~cyclic' =>
          \A b \in {b \in Bound \cap tree.paths : ~BoundParent(b)} \ order' :
              /\ b \notin changes \cup dependants
              /\ \A c \in changes \ Bound : ~Within(b, c)
              /\ \A r \in tree.code[b] :
                    /\ r \in tree.paths =>
                          /\ r \in last.paths
                          /\ \A c \in changes \cup dependants : ~Within(c, r) /\ ~Within(r, c)
                          /\ \A c \in order' : ~Within(c, r)
                    /\ r \notin tree.paths =>
                          /\ r \notin last.paths \/ Declared(b)
                          /\ \A q \in Added : Within(r, q) => IsEntity(q)]_vars
=============================================================================
