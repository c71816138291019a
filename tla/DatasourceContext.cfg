SPECIFICATION FairSpec
CONSTANTS
    Callers = {t1, t2}
    Archivers = {a1}
    Fails = TRUE
    MaxVersion = 2
    MaxBreaks = 1
    MaxContexts = 4
INVARIANTS TypeOK MapsAgree OneConnection
PROPERTIES QueriesEnd
CHECK_DEADLOCK FALSE
