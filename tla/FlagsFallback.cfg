SPECIFICATION Spec
CONSTANTS
    Processes = {p1, p2}
    Crons = {p1}
    Flags = {f1, f2}
    Empty = Empty
    None = None
INVARIANTS UserFallback
