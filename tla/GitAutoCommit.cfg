SPECIFICATION FairSpec
CONSTANTS
    Commands = {c1}
    Requests = {q1, q2}
    Chained = {c1}
    ServerSide = {q1}
    MaxRetries = 1
    None = None
INVARIANTS TypeOK ExclusiveWhenCalm RunningUnderLock ProgressIsOwn
PROPERTIES EverythingEnds
CHECK_DEADLOCK FALSE
