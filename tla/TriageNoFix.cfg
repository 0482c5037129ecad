\* A single worker that never dies, under fairness.
SPECIFICATION FairSpec
CONSTANTS
    Cards = {c1}
    Procs = {p1}
    Resolves = FALSE
    Dies = FALSE
PROPERTY NoFixIsRetried
