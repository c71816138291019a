\* Two JS objects, one of them edited in the JS editor; up to four changes (six
\* with those of arriving pages), one trigger and two page fetches.  The system
\* stops when the bounds are used up.
CONSTANTS
    JSObjects = {j1, j2}
    Typed = {j2}
    MaxChanges = 4
    MaxTriggers = 1
    MaxFetches = 2
    j1 = j1
    j2 = j2
SPECIFICATION Spec
CHECK_DEADLOCK FALSE
INVARIANTS TypeOK JSParsed  QuietIsCurrent PostEvalConserved
PROPERTIES PostEvalAfterTree PostEvalRuns
