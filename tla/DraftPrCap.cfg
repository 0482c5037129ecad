\* Three findings and two workers competing for one slot.
SPECIFICATION Spec
CONSTANTS
    Findings = {1, 2, 3}
    Workers = {w1, w2}
    Reconcilers = {r1}
    Limit = 1
    Place <- NewestLast
    Checks = {1, 2}
    Faults = FALSE
SYMMETRY Symmetry
INVARIANT BoundedOvershoot
CHECK_DEADLOCK FALSE
