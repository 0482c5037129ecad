------------------------ MODULE ResponseActionProofs ------------------------
(***************************************************************************)
(* For every set of actions, rules and concurrent requests: the product    *)
(* re-opens a public rule only for an action whose real execution it ran,  *)
(* and the ledger calls executed only what took effect, whatever the       *)
(* interleaving of requests, whichever of them die or lose the answer, and *)
(* however the read-only setting changes between deployments.              *)
(***************************************************************************)
EXTENDS ResponseAction, TLAPS

LEMMA NoSpecType == NoSpec \in ActionSpec
  BY ConstantsAssumption DEF NoSpec, ActionSpec

\* Every step keeps the ledger, the requests and the history well formed.
THEOREM TypeCorrect == Spec => []TypeOK
<1>1. Init => TypeOK
  BY NoSpecType, ConstantsAssumption
  DEF Init, TypeOK, Status, Effects, Idle
<1>2. ASSUME TypeOK, [Next]_vars
      PROVE  TypeOK'
  <2> USE <1>2 DEF TypeOK
  <2>1. ASSUME NEW a \in Actions, NEW rule \in Rules, NEW dry \in BOOLEAN,
               Propose(a, rule, dry)
        PROVE  TypeOK'
    BY <2>1 DEF Propose, Status, ActionSpec
  <2>2. ASSUME NEW r \in Requests, NEW kind \in Kinds, NEW a \in Actions,
               Load(r, kind, a)
        PROVE  TypeOK'
    BY <2>2 DEF Load, Busy
  <2>3. ASSUME NEW r \in Requests, Calling(r)
        PROVE  req[r] \in Busy /\ req[r].action \in Actions
    BY <2>3 DEF Calling, Busy, Idle
  <2>4. ASSUME NEW kind, NEW a \in Actions, Mutate(kind, a)
        PROVE  live' \subseteq Rules /\ effect' \in [Actions -> Effects]
    BY <2>4 DEF Mutate, EffectOf, Effects, ActionSpec
  <2>5. ASSUME NEW r \in Requests, ApplyOk(r) PROVE TypeOK'
    BY <2>3, <2>4, <2>5 DEF ApplyOk, Answer, Calling, Busy
  <2>6. ASSUME NEW r \in Requests, ApplyError(r) PROVE TypeOK'
    BY <2>3, <2>6 DEF ApplyError, Answer, Calling, Busy
  <2>7. ASSUME NEW r \in Requests, ApplyRaises(r) PROVE TypeOK'
    BY <2>3, <2>4, <2>7 DEF ApplyRaises
  <2>8. ASSUME NEW r \in Requests, Save(r) PROVE TypeOK'
    BY <2>8 DEF Save, Outcome, Status
  <2>9. ASSUME NEW r \in Requests, Die(r) PROVE TypeOK'
    BY <2>9 DEF Die
  <2>10. ASSUME NEW rule \in Rules, CustomerEdits(rule) PROVE TypeOK'
    BY <2>10 DEF CustomerEdits
  <2>11. CASE Redeploy
    BY <2>11 DEF Redeploy
  <2>12. CASE UNCHANGED vars
    BY <2>12 DEF vars
  <2> QED BY <1>2, <2>1, <2>2, <2>5, <2>6, <2>7, <2>8, <2>9, <2>10, <2>11, <2>12
          DEF Next, RequestStep
<1> QED BY <1>1, <1>2, PTL DEF Spec

-----------------------------------------------------------------------------
\* A request holds a row that exists, so no later proposal rewrites its spec.
HoldsARow == \A r \in Requests : req[r] # Idle => status[req[r].action] # "none"

\* A real execution that the ledger, or a request about to save, calls done took
\* effect; and so did the one a rollback is working on.
Closed(a) == spec[a].dryRun \/ effect[a] # "none"
ExecutedClosed == \A a \in Actions : status[a] = "executed" => Closed(a)
RequestClosed ==
    \A r \in Requests :
        /\ req[r] # Idle
        /\ \/ req[r].kind = "rollback"
           \/ req[r].kind = "approve" /\ req[r].step = "applied" /\ req[r].ok
        => Closed(req[r].action)

ClosedInv == TypeOK /\ HoldsARow /\ ExecutedClosed /\ RequestClosed

\* The history never forgets a real mutation, and a mutation records one.
LEMMA MutateRecords ==
  ASSUME TypeOK, NEW kind, NEW a \in Actions, Mutate(kind, a)
  PROVE  /\ \A b \in Actions : effect[b] # "none" => effect'[b] # "none"
         /\ spec[a].dryRun \/ effect'[a] # "none"
  BY DEF TypeOK, Mutate, EffectOf, Effects

\* The invariant survives every step.
LEMMA ClosedInvStep ==
  ASSUME ClosedInv, TypeOK', [Next]_vars
  PROVE  ClosedInv'
<1> USE DEF ClosedInv, TypeOK, HoldsARow, ExecutedClosed, RequestClosed, Closed
<1>1. ASSUME NEW a \in Actions, NEW rule \in Rules, NEW dry \in BOOLEAN,
             Propose(a, rule, dry)
      PROVE  ClosedInv'
  BY <1>1 DEF Propose, Busy
<1>2. ASSUME NEW r \in Requests, NEW kind \in Kinds, NEW a \in Actions,
             Load(r, kind, a)
      PROVE  ClosedInv'
  BY <1>2 DEF Load, Accepts, Kinds, Idle
<1>3. ASSUME NEW r \in Requests, ApplyOk(r) PROVE ClosedInv'
  <2>1. req[r] \in Busy /\ req[r] # Idle /\ req[r].kind \in {"approve", "rollback"}
    BY <1>3 DEF ApplyOk, Calling, Busy, Idle, Kinds
  <2>2. /\ \A b \in Actions : effect[b] # "none" => effect'[b] # "none"
        /\ spec[req[r].action].dryRun \/ effect'[req[r].action] # "none"
    BY <1>3, <2>1, MutateRecords DEF ApplyOk, Busy
  <2>3. \A q \in Requests : q # r => req'[q] = req[q]
    BY <1>3 DEF ApplyOk, Answer
  <2>4. /\ req'[r] # Idle /\ req'[r].action = req[r].action
        /\ req'[r].kind = req[r].kind
    BY <1>3, <2>1 DEF ApplyOk, Answer, Busy, Idle
  <2>5. spec' = spec
    BY <1>3 DEF ApplyOk
  <2>6. \A b \in Actions : Closed(b) => Closed(b)'
    BY <2>2, <2>5
  <2>7. ASSUME NEW b \in Actions, b = req[r].action
        PROVE  Closed(b)'
    BY <2>2, <2>5, <2>7
  <2>8. HoldsARow'
    BY <1>3, <2>1, <2>3, <2>4 DEF ApplyOk
  <2>9. ExecutedClosed'
    BY <1>3, <2>6 DEF ApplyOk
  <2>10. ASSUME NEW q \in Requests, req'[q] # Idle
         PROVE  req[q] \in Busy
    BY <2>1, <2>3, <2>10
  <2>11. RequestClosed'
    BY <2>3, <2>4, <2>6, <2>7, <2>10 DEF Busy
  <2> QED BY <2>8, <2>9, <2>11
<1>4. ASSUME NEW r \in Requests, ApplyError(r) PROVE ClosedInv'
  BY <1>4 DEF ApplyError, Answer, Calling, Busy, Idle
<1>5. ASSUME NEW r \in Requests, ApplyRaises(r) PROVE ClosedInv'
  <2>1. req[r].action \in Actions
    BY <1>5 DEF ApplyRaises, Calling, Busy, Idle
  <2>2. \A b \in Actions : effect[b] # "none" => effect'[b] # "none"
    BY <1>5, <2>1, MutateRecords DEF ApplyRaises
  <2>3. \A q \in Requests : q # r => req'[q] = req[q]
    BY <1>5 DEF ApplyRaises
  <2>4. \A b \in Actions : Closed(b) => Closed(b)'
    BY <1>5, <2>2 DEF ApplyRaises
  <2>5. req'[r] = Idle
    BY <1>5 DEF ApplyRaises
  <2>6. HoldsARow' /\ ExecutedClosed'
    BY <1>5, <2>3, <2>4, <2>5 DEF ApplyRaises
  <2>7. RequestClosed'
    BY <2>3, <2>4, <2>5 DEF Busy
  <2> QED BY <2>6, <2>7
<1>6. ASSUME NEW r \in Requests, Save(r) PROVE ClosedInv'
  <2>1. req[r] \in Busy /\ req[r] # Idle
    BY <1>6 DEF Save, Decided, Idle
  <2>2. \A b \in Actions : Closed(b)' = Closed(b)
    BY <1>6 DEF Save
  <2>3. /\ \A q \in Requests : q # r => req'[q] = req[q]
        /\ req'[r] = Idle
    BY <1>6 DEF Save
  <2>4. \A b \in Actions : status[b] # "none" => status'[b] # "none"
    BY <1>6, <2>1 DEF Save, Outcome
  <2>5. HoldsARow'
    BY <2>3, <2>4 DEF Busy
  <2>6. ASSUME NEW b \in Actions, status'[b] = "executed", status[b] # "executed"
        PROVE  Closed(b)
    BY <1>6, <2>1, <2>6 DEF Save, Decided, Outcome, Busy, Kinds
  <2>7. ExecutedClosed'
    BY <2>2, <2>6
  <2>8. RequestClosed'
    BY <2>2, <2>3 DEF Busy
  <2> QED BY <2>5, <2>7, <2>8
<1>7. ASSUME NEW r \in Requests, Die(r) PROVE ClosedInv'
  BY <1>7 DEF Die
<1>8. ASSUME NEW rule \in Rules, CustomerEdits(rule) PROVE ClosedInv'
  BY <1>8 DEF CustomerEdits
<1>9. CASE Redeploy
  BY <1>9 DEF Redeploy
<1>10. CASE UNCHANGED vars
  BY <1>10 DEF vars
<1> QED BY <1>1, <1>2, <1>3, <1>4, <1>5, <1>6, <1>7, <1>8, <1>9, <1>10
        DEF Next, RequestStep

\* The invariant holds in every reachable state.
LEMMA ClosedAlways == Spec => []ClosedInv
<1>1. Init => ClosedInv
  BY NoSpecType, ConstantsAssumption
  DEF Init, ClosedInv, TypeOK, HoldsARow, ExecutedClosed, RequestClosed,
      Status, Effects, Idle
<1>2. ClosedInv /\ TypeOK' /\ [Next]_vars => ClosedInv'
  BY ClosedInvStep
<1> QED BY <1>1, <1>2, TypeCorrect, PTL DEF Spec

\* A row recorded as a real execution stands for a mutation that took effect or
\* was knowingly run as a probe, with any number of requests racing and dying.
THEOREM LedgerNeverOverclaims == Spec => []ExecutedTookEffect
<1>1. ClosedInv => ExecutedTookEffect
  BY DEF ClosedInv, ExecutedClosed, Closed, ExecutedTookEffect
<1> QED BY <1>1, ClosedAlways, PTL

\* No step re-opens a rule for an action whose real execution was never run:
\* rollback only ever undoes, with any number of requests racing, dying or losing
\* the answer of the cloud.
THEOREM NoUnclosedReopen == Spec => NeverReopensUnclosed
<1>1. ASSUME ClosedInv, [Next]_vars
      PROVE  [\A a \in Actions : effect[a] = "none" => effect'[a] # "restored"]_vars
  <2> SUFFICES ASSUME NEW a \in Actions, effect[a] = "none", effect'[a] = "restored"
               PROVE  FALSE
    OBVIOUS
  <2>1. PICK r \in Requests : ApplyOk(r) \/ ApplyRaises(r)
    BY <1>1 DEF Next, RequestStep, Propose, Load, ApplyError, Save, Die,
                CustomerEdits, Redeploy, vars
  <2>2. /\ req[r] \in Busy /\ req[r] # Idle
        /\ req[r].kind \in {"approve", "rollback"}
    <3>1. Calling(r)
      BY <2>1 DEF ApplyOk, ApplyRaises
    <3>2. req[r] \in {Idle} \cup Busy
      BY <1>1 DEF ClosedInv, TypeOK
    <3> QED BY <3>1, <3>2 DEF Calling, Busy, Idle, Kinds
  <2>4. effect' # effect
    OBVIOUS
  <2>5. Mutate(req[r].kind, req[r].action)
    BY <2>1, <2>4 DEF ApplyOk, ApplyRaises
  <2>3. req[r].action = a /\ req[r].kind = "rollback" /\ ~IsProbe(a)
    BY <1>1, <2>2, <2>5 DEF Mutate, EffectOf, IsProbe, ClosedInv, TypeOK, Busy, Effects
  <2> QED BY <1>1, <2>2, <2>3 DEF ClosedInv, RequestClosed, Closed, IsProbe
<1> QED BY <1>1, ClosedAlways, PTL DEF Spec, NeverReopensUnclosed

\* The cloud is really changed for an action only by a request that was calling for
\* it, with the deployment out of read-only and the action not a dry run.
THEOREM ChangesAreOptedInto == Spec => RealChangesAreOptedInto
<1>1. ASSUME TypeOK, [Next]_vars
      PROVE  [\A a \in Actions : effect'[a] \in {"revoked", "restored"} \ {effect[a]} =>
                /\ ~readOnly /\ ~spec[a].dryRun
                /\ \E r \in Requests : Calling(r) /\ req[r].action = a]_vars
  <2> SUFFICES ASSUME NEW a \in Actions,
                      effect'[a] \in {"revoked", "restored"}, effect'[a] # effect[a]
               PROVE  /\ ~readOnly /\ ~spec[a].dryRun
                      /\ \E r \in Requests : Calling(r) /\ req[r].action = a
    OBVIOUS
  <2>1. PICK r \in Requests : ApplyOk(r) \/ ApplyRaises(r)
    BY <1>1 DEF Next, RequestStep, Propose, Load, ApplyError, Save, Die,
                CustomerEdits, Redeploy, vars
  <2>2. Calling(r)
    BY <2>1 DEF ApplyOk, ApplyRaises
  <2>3. req[r].action \in Actions
    BY <1>1, <2>2 DEF Calling, TypeOK, Busy, Idle
  <2>4. effect' = [effect EXCEPT ![req[r].action] = EffectOf(req[r].kind, req[r].action)]
    BY <2>1 DEF ApplyOk, ApplyRaises, Mutate
  <2>5. a = req[r].action /\ effect'[a] = EffectOf(req[r].kind, a)
    BY <1>1, <2>3, <2>4 DEF TypeOK
  <2>6. ~readOnly /\ ~spec[a].dryRun
    BY <2>5 DEF EffectOf, IsProbe
  <2> QED BY <2>2, <2>5, <2>6
<1> QED BY <1>1, TypeCorrect, PTL DEF Spec, RealChangesAreOptedInto

=============================================================================
