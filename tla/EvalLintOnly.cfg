\* One JS object that is edited in the JS editor.  The system stops when the
\* bounds are used up.
CONSTANTS
    JSObjects = {j1}
    Typed = {j1}
    MaxChanges = 4
    MaxTriggers = 0
    MaxFetches = 1
    j1 = j1
SPECIFICATION Spec
CHECK_DEADLOCK FALSE
INVARIANT TypedParsed
