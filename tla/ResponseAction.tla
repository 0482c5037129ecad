--------------------------- MODULE ResponseAction ---------------------------
(***************************************************************************)
(* The response context (components/response): a containment action is     *)
(* proposed, a human approves or rejects it, an executed one is rolled     *)
(* back.  Each decision is an HTTP request that loads the ledger row, runs *)
(* the mutation against AWS, and saves the whole row; the three are        *)
(* separate steps, no lock is held across them, and requests run in        *)
(* autocommit.                                                             *)
(*                                                                         *)
(* A request that reads the row in a status its decision does not accept   *)
(* is answered with an error and changes nothing, so it has no step here.  *)
(***************************************************************************)

CONSTANTS
    Actions,        \* ids of ledger rows
    Rules,          \* public ingress rules an action may target
    Requests,       \* slots for requests that can be in flight together
    RequestsDie,    \* a worker may die, or a call may raise, mid-request
    Redeploys,      \* SOC_RESPONSE_READ_ONLY may change with a new deployment
    InitReadOnly    \* its value at the start

ASSUME ConstantsAssumption ==
    /\ Rules # {}
    /\ RequestsDie \in BOOLEAN
    /\ Redeploys \in BOOLEAN
    /\ InitReadOnly \in BOOLEAN

VARIABLES
    status,     \* ledger rows: the status column, "none" while there is no row
    spec,       \* ledger rows: the targeted rule and the dry_run column
    req,        \* the requests in flight
    live,       \* the rules of Rules that exist in the cloud account
    readOnly,   \* SOC_RESPONSE_READ_ONLY of the running deployment
    effect      \* history: the last real mutation made on behalf of an action, or
                \* "downgraded": none yet, but a real one was run as a probe

vars == <<status, spec, req, live, readOnly, effect>>

Status  == {"none", "proposed", "executed", "failed", "rejected", "rolled_back"}
Effects == {"none", "downgraded", "revoked", "restored"}
Kinds   == {"approve", "reject", "rollback"}
ActionSpec == [rule : Rules, dryRun : BOOLEAN]
NoSpec     == [rule |-> CHOOSE r \in Rules : TRUE, dryRun |-> TRUE]
Idle       == [step |-> "idle"]
Busy       == [step : {"loaded", "applied"}, kind : Kinds, action : Actions, ok : BOOLEAN]

TypeOK ==
    /\ status \in [Actions -> Status]
    /\ spec \in [Actions -> ActionSpec]
    /\ req \in [Requests -> {Idle} \cup Busy]
    /\ live \subseteq Rules
    /\ readOnly \in BOOLEAN
    /\ effect \in [Actions -> Effects]

Init ==
    /\ status = [a \in Actions |-> "none"]
    /\ spec = [a \in Actions |-> NoSpec]
    /\ req = [r \in Requests |-> Idle]
    /\ live = Rules
    /\ readOnly = InitReadOnly
    /\ effect = [a \in Actions |-> "none"]

-----------------------------------------------------------------------------
(* Operators' requests *)

\* The proposal is grounded: the public rule exists in the account now.
Propose(a, rule, dry) ==
    /\ status[a] = "none"
    /\ rule \in live
    /\ status' = [status EXCEPT ![a] = "proposed"]
    /\ spec' = [spec EXCEPT ![a] = [rule |-> rule, dryRun |-> dry]]
    /\ UNCHANGED <<req, live, readOnly, effect>>

\* Faulty variant: can_rollback lets a proposal through.
AcceptsEarlyRollback(kind, st) ==
    st = "proposed" \/ (kind = "rollback" /\ st = "executed")

\* can_approve, can_reject, can_rollback
Accepts(kind, st) == st = (IF kind = "rollback" THEN "executed" ELSE "proposed")

\* A decision loads the row and passes its status check.
Load(r, kind, a) ==
    /\ req[r] = Idle
    /\ Accepts(kind, status[a])
    /\ req' = [req EXCEPT ![r] = [step |-> "loaded", kind |-> kind,
                                  action |-> a, ok |-> FALSE]]
    /\ UNCHANGED <<status, spec, live, readOnly, effect>>

\* Faulty variant: the adapter does not look at SOC_RESPONSE_READ_ONLY.
IsProbeIfDry(a) == spec[a].dryRun

\* What the adapter really asks of AWS: a real execution is downgraded to a
\* permission probe while the deployment is read-only.
IsProbe(a) == spec[a].dryRun \/ readOnly

\* AWS accepts a probe without looking at the rule; a real revoke needs the
\* rule to exist and a real authorize needs it not to.
CloudAccepts(kind, a) ==
    IsProbe(a) \/ (spec[a].rule \in live <=> kind = "approve")

\* What a call that succeeds leaves in the history.
EffectOf(kind, a) ==
    IF spec[a].dryRun THEN effect[a]
    ELSE IF IsProbe(a) THEN IF effect[a] = "none" THEN "downgraded" ELSE effect[a]
    ELSE IF kind = "approve" THEN "revoked" ELSE "restored"

\* The mutation, or the probe, succeeded in the cloud.
Mutate(kind, a) ==
    /\ live' = IF IsProbe(a) THEN live
               ELSE IF kind = "approve" THEN live \ {spec[a].rule}
               ELSE live \cup {spec[a].rule}
    /\ effect' = [effect EXCEPT ![a] = EffectOf(kind, a)]

Answer(r, ok) ==
    req' = [req EXCEPT ![r] = [step |-> "applied", kind |-> req[r].kind,
                               action |-> req[r].action, ok |-> ok]]

Calling(r) == req[r].step = "loaded" /\ req[r].kind # "reject"

ApplyOk(r) ==
    /\ Calling(r)
    /\ CloudAccepts(req[r].kind, req[r].action)
    /\ Mutate(req[r].kind, req[r].action)
    /\ Answer(r, TRUE)
    /\ UNCHANGED <<status, spec, readOnly>>

\* A ClientError: permission denied, throttled, or the rule is not as needed.
ApplyError(r) ==
    /\ Calling(r)
    /\ Answer(r, FALSE)
    /\ UNCHANGED <<status, spec, live, readOnly, effect>>

\* Anything but a ClientError escapes the adapter, so nothing is saved; when
\* only the answer was lost, the cloud has changed all the same.
ApplyRaises(r) ==
    /\ RequestsDie
    /\ Calling(r)
    /\ \/ UNCHANGED <<live, effect>>
       \/ /\ CloudAccepts(req[r].kind, req[r].action)
          /\ Mutate(req[r].kind, req[r].action)
    /\ req' = [req EXCEPT ![r] = Idle]
    /\ UNCHANGED <<status, spec, readOnly>>

\* Faulty variant: an approval is recorded whatever the cloud answered.
OutcomeUnasked(r) ==
    IF req[r].kind = "reject" THEN "rejected"
    ELSE IF req[r].kind = "approve" THEN "executed" ELSE "rolled_back"

\* Faulty variant: the row is saved with the decision's verb.
OutcomeVerb(r) == req[r].kind

\* update_or_create of the row as the request loaded it, with its decision on
\* top; a rollback the cloud refused raises instead of saving.
Outcome(r) ==
    IF req[r].kind = "reject" THEN "rejected"
    ELSE IF req[r].kind = "approve"
         THEN IF req[r].ok THEN "executed" ELSE "failed"
         ELSE IF req[r].ok THEN "rolled_back" ELSE "executed"

Decided(r) ==
    \/ req[r].step = "applied"
    \/ req[r].step = "loaded" /\ req[r].kind = "reject"

Save(r) ==
    /\ Decided(r)
    /\ status' = IF req[r].kind = "rollback" /\ ~req[r].ok THEN status
                 ELSE [status EXCEPT ![req[r].action] = Outcome(r)]
    /\ req' = [req EXCEPT ![r] = Idle]
    /\ UNCHANGED <<spec, live, readOnly, effect>>

\* The worker dies between two steps of a request.
Die(r) ==
    /\ RequestsDie
    /\ req[r] # Idle
    /\ req' = [req EXCEPT ![r] = Idle]
    /\ UNCHANGED <<status, spec, live, readOnly, effect>>

-----------------------------------------------------------------------------
(* The environment *)

\* The customer's own people add or remove a rule.
CustomerEdits(rule) ==
    /\ live' = IF rule \in live THEN live \ {rule} ELSE live \cup {rule}
    /\ UNCHANGED <<status, spec, req, readOnly, effect>>

\* A new deployment with the other setting; requests in flight do not survive.
Redeploy ==
    /\ Redeploys
    /\ readOnly' = ~readOnly
    /\ req' = [r \in Requests |-> Idle]
    /\ UNCHANGED <<status, spec, live, effect>>

RequestStep(r) ==
    \/ \E kind \in Kinds, a \in Actions : Load(r, kind, a)
    \/ ApplyOk(r) \/ ApplyError(r) \/ ApplyRaises(r) \/ Save(r) \/ Die(r)

Next ==
    \/ \E a \in Actions, rule \in Rules, dry \in BOOLEAN : Propose(a, rule, dry)
    \/ \E r \in Requests : RequestStep(r)
    \/ \E rule \in Rules : CustomerEdits(rule)
    \/ Redeploy

Spec == Init /\ [][Next]_vars

-----------------------------------------------------------------------------
(* Properties *)

\* "We don't open ingress on a finding" (propose_response_action_use_case.py):
\* the product re-opens a public rule only for an action whose real execution it
\* did run, under any interleaving of requests, deaths and lost answers.
NeverReopensUnclosed ==
    [][\A a \in Actions : effect[a] = "none" => effect'[a] # "restored"]_vars

\* The ledger never overclaims: a row recorded as a real execution stands for a
\* revoke that was really made, or was knowingly run as a probe.
ExecutedTookEffect ==
    \A a \in Actions : status[a] = "executed" => spec[a].dryRun \/ effect[a] # "none"

\* Read-only guarantee (boto3_cloud_response_adapter.py): a public rule of the
\* customer appears or disappears on an action's behalf only while the deployment
\* has opted out, and never for an action some human did not decide on.
RealChangesAreOptedInto ==
    [][\A a \in Actions : effect'[a] \in {"revoked", "restored"} \ {effect[a]} =>
        /\ ~readOnly /\ ~spec[a].dryRun
        /\ \E r \in Requests : Calling(r) /\ req[r].action = a]_vars

\* The status an observer would see if a request saved its row in the very
\* step that called the cloud.
Pending(a) == {r \in Requests : req[r].step = "applied" /\ req[r].action = a}
EffectiveStatus ==
    [a \in Actions |-> IF Pending(a) = {} THEN status[a]
                       ELSE Outcome(CHOOSE r \in Pending(a) : TRUE)]

\* With one request at a time and none dying, the ledger and the cloud change
\* together as the abstract lifecycle says.
CloudEffect == [a \in Actions |-> IF effect[a] = "downgraded" THEN "none" ELSE effect[a]]
Promise == INSTANCE ReversibleAction WITH state <- EffectiveStatus, effect <- CloudEffect

ImplementsPromise == Promise!Spec

\* reject_response_action_use_case.py:1 "a human declines it. No cloud effect.":
\* once no request is in flight, a rejected action's rule was not revoked for it.
AtRest == \A r \in Requests : req[r] = Idle
RejectedHasNoCloudEffect ==
    AtRest => \A a \in Actions : status[a] = "rejected" => effect[a] # "revoked"

=============================================================================
