CONSTANTS
    Observations = {o1, o2}
    Operators = {p1}
    Filers = {f1, f2}
    NoId = NoId
    MaxCards = 2
    Faulty = TRUE
SPECIFICATION Spec
SYMMETRY Symmetric
INVARIANT TypeOK
INVARIANT OneCard
INVARIANT RaisedFindsTheRow
INVARIANT FiledOrOnItsWay
INVARIANT BinnedOrOnItsWay
PROPERTY NoQuietReopening
