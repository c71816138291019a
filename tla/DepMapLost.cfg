SPECIFICATION Spec
CONSTANTS
    Path <- MCPath
    Bound <- MCBound
    Tree <- MCTree
    Rank <- MCRank
    MaxDiffs = 2
    MaxTrees = 4
INVARIANTS UsedEarlierIsConnected
CHECK_DEADLOCK FALSE
