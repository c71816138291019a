SPECIFICATION FairSpec
CONSTANTS
    Requests = {r1, r2, r3}
    Nested = {r1}
    Failing = {r3}
    Pings = {p1}
    MaxStarts = 2
INVARIANTS TypeOK Conserved NoCallGivesUp
PROPERTIES GracefulSpec ServedWhileAlive DrainEndsOrBlocked
CHECK_DEADLOCK FALSE
