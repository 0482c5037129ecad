\* Two requests at a time; they die, lose answers and outlive a redeployment's
\* change of the read-only setting as rows do.
SPECIFICATION Spec
CONSTANTS
    Actions = {a1, a2}
    Rules = {sg1, sg2}
    Requests = {r1, r2}
    RequestsDie = TRUE
    Redeploys = TRUE
    InitReadOnly = TRUE
INVARIANT ExecutedTookEffect
PROPERTY NeverReopensUnclosed
PROPERTY RealChangesAreOptedInto
