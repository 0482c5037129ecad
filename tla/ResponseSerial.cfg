\* One request at a time, none dying: the behaviour the flow tests exercise.
SPECIFICATION Spec
CONSTANTS
    Actions = {a1, a2}
    Rules = {sg1, sg2}
    Requests = {r1}
    RequestsDie = FALSE
    Redeploys = FALSE
    InitReadOnly = FALSE
INVARIANT TypeOK
PROPERTY ImplementsPromise
