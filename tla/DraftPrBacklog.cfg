\* Nothing fails: one slot, two findings, people who decide.
SPECIFICATION FairSpec
CONSTANTS
    Findings = {1, 2}
    Workers = {w1}
    Reconcilers = {r1}
    Limit = 1
    Place <- NewestLast
    Checks = {2}
    Faults = FALSE
PROPERTY BacklogDrains
CHECK_DEADLOCK FALSE
