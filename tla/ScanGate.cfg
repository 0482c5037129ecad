\* Three attempts: one whose scan runs, one it races with, and one to find the
\* target free when it is not.
CONSTANTS
    Dispatches = {d1, d2, d3}
    NoOne = NoOne
    Dies = TRUE
SPECIFICATION FairSpec
INVARIANT TypeOK
INVARIANT OneInFlight
PROPERTY CooldownRespected
PROPERTY Reopens
CHECK_DEADLOCK FALSE
