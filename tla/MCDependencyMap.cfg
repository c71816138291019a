SPECIFICATION Spec
CONSTANTS
    Path <- MCPath
    Bound <- MCBound
    Tree <- MCTree
    Rank <- MCRank
    MaxDiffs = 2
    MaxTrees = 4
INVARIANTS TypeOK InversesAgree Connected Explained
PROPERTIES OrderComplete
CHECK_DEADLOCK FALSE
