\* No resolutions: only overlapping or redelivered runs can comment twice.
SPECIFICATION Spec
CONSTANTS
    Cards = {c1}
    Procs = {p1, p2}
    Resolves = FALSE
    Dies = TRUE
INVARIANT NeverDoubleComments
