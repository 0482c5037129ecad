CONSTANTS
    n1 = n1
    n2 = n2
    n3 = n3
    Nodes <- MCNodes
    NoNode = NoNode
    Graphs <- MCGraphs
    Processes = {p1, p2}
    MaxRequests = 3
    MaxFaults = 1
SPECIFICATION Spec
SYMMETRY Symmetric
INVARIANT TypeOK
INVARIANT OneBranch
INVARIANT RunsOnce
INVARIANT RunMoves
PROPERTY OverIsOver
CHECK_DEADLOCK FALSE
