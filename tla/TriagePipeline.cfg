\* One card, two processes, deaths, lost enqueues, on-demand requests, resolutions.
SPECIFICATION FairSpec
CONSTANTS
    Cards = {c1}
    Procs = {p1, p2}
    Resolves = TRUE
    Dies = TRUE
INVARIANT TypeOK
INVARIANT SecondFixNeedsCause
PROPERTY FirstRunWins
PROPERTY ResolutionSticks
PROPERTY EveryCardTriaged
