\* One operator approves while another rejects.
SPECIFICATION Spec
CONSTANTS
    Actions = {a1}
    Rules = {sg1}
    Requests = {r1, r2}
    RequestsDie = FALSE
    Redeploys = FALSE
    InitReadOnly = FALSE
INVARIANT RejectedHasNoCloudEffect
