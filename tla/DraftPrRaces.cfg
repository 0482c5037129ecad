\* One finding; two workers, two reconcilers and the sweep racing for its card;
\* deaths, refusals, deleted branches.
SPECIFICATION FairSpec
CONSTANTS
    Findings = {1}
    Workers = {w1, w2}
    Reconcilers = {r1, r2}
    Limit = 1
    Place <- NewestLast
    Checks = {0, 1}
    Faults = TRUE
INVARIANT TypeOK
INVARIANT OnePrPerFinding
INVARIANT OneRescanPerResolution
INVARIANT ResolutionIsOwed
PROPERTY RecordsAreKept
PROPERTY OnlyLateRefusalBlocks
PROPERTY DecidedFreesTheSlot
PROPERTY ResolutionIsVerified
CHECK_DEADLOCK FALSE
