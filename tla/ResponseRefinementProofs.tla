---------------------- MODULE ResponseRefinementProofs ----------------------
(***************************************************************************)
(* The load, the cloud call and the save of a decision are three steps     *)
(* with no lock held across them.  For every set of actions, rules and     *)
(* concurrent requests they are nevertheless one indivisible step of       *)
(* ReversibleAction, as long as no two requests are in flight for the same *)
(* action, none dies and none is overtaken by a redeployment.              *)
(***************************************************************************)
EXTENDS ResponseActionProofs

-----------------------------------------------------------------------------
\* Two requests in flight at the same time are for different actions.
NoOverlap ==
    \A r, q \in Requests :
        req[r] # Idle /\ req[q] # Idle /\ req[r].action = req[q].action => r = q

\* The request whose call to the cloud has been answered but is not recorded yet.
Applied(r, a) == req[r].step = "applied" /\ req[r].action = a

\* With no such request the effective status is the recorded one.
LEMMA ShownRecorded ==
  ASSUME NEW a \in Actions, \A r \in Requests : ~Applied(r, a)
  PROVE  EffectiveStatus[a] = status[a]
<1>1. Pending(a) = {}
  BY DEF Pending, Applied
<1> QED BY <1>1 DEF EffectiveStatus

\* With one it is what that request is about to record.
LEMMA ShownPending ==
  ASSUME NoOverlap, NEW r \in Requests, NEW a \in Actions, Applied(r, a)
  PROVE  EffectiveStatus[a] = Outcome(r)
<1>1. Pending(a) = {r}
  BY DEF Pending, Applied, NoOverlap, Idle
<1>2. (CHOOSE q \in Pending(a) : TRUE) = r
  BY <1>1
<1> QED BY <1>1, <1>2 DEF EffectiveStatus

\* The same of the next state.
LEMMA ShownRecordedNext ==
  ASSUME NEW a \in Actions, \A r \in Requests : ~Applied(r, a)'
  PROVE  EffectiveStatus'[a] = status'[a]
<1>1. Pending(a)' = {}
  BY DEF Pending, Applied
<1> QED BY <1>1 DEF EffectiveStatus

LEMMA ShownPendingNext ==
  ASSUME NoOverlap', NEW r \in Requests, NEW a \in Actions, Applied(r, a)'
  PROVE  EffectiveStatus'[a] = Outcome(r)'
<1>1. Pending(a)' = {r}
  BY DEF Pending, Applied, NoOverlap, Idle
<1>2. (CHOOSE q \in Pending(a)' : TRUE) = r
  BY <1>1
<1> QED BY <1>1, <1>2 DEF EffectiveStatus

\* The effective status of an action changes only with its recorded status or the
\* requests that are about to record one.
LEMMA ShownStill ==
  ASSUME NEW b \in Actions, status'[b] = status[b],
         Pending(b)' = Pending(b), \A q \in Pending(b) : req'[q] = req[q]
  PROVE  EffectiveStatus'[b] = EffectiveStatus[b]
<1>1. CASE Pending(b) = {}
  BY <1>1 DEF EffectiveStatus
<1>2. CASE Pending(b) # {}
  <2>1. PICK c \in Pending(b) : c = CHOOSE q \in Pending(b) : TRUE
    BY <1>2
  <2>2. Outcome(c)' = Outcome(c)
    BY <2>1 DEF Outcome
  <2>3. c = CHOOSE q \in Pending(b)' : TRUE
    BY <2>1
  <2>4. EffectiveStatus[b] = Outcome(c)
    BY <1>2, <2>1 DEF EffectiveStatus
  <2>5. EffectiveStatus'[b] = Outcome(c)'
    BY <1>2, <2>3 DEF EffectiveStatus
  <2> QED BY <2>2, <2>4, <2>5
<1> QED BY <1>1, <1>2

\* A step of a request for one action does not show at another.
LEMMA ShownElsewhere ==
  ASSUME NEW r \in Requests, NEW a \in Actions, NEW b \in Actions, b # a,
         \A q \in Requests \ {r} : req'[q] = req[q],
         req[r].step = "applied" => req[r].action = a,
         req'[r].step = "applied" => req'[r].action = a,
         status'[b] = status[b]
  PROVE  EffectiveStatus'[b] = EffectiveStatus[b]
<1>1. Pending(b)' = Pending(b) /\ \A q \in Pending(b) : req'[q] = req[q]
  BY DEF Pending
<1> QED BY <1>1, ShownStill

\* A step that shows at one action only.
LEMMA ShowsAt ==
  ASSUME NEW a \in Actions, NEW s, EffectiveStatus'[a] = s,
         \A b \in Actions : b # a => EffectiveStatus'[b] = EffectiveStatus[b]
  PROVE  EffectiveStatus' = [EffectiveStatus EXCEPT ![a] = s]
<1> DEFINE Shown == [EffectiveStatus EXCEPT ![a] = s]
<1>1. DOMAIN EffectiveStatus = Actions /\ DOMAIN EffectiveStatus' = Actions
  BY DEF EffectiveStatus
<1>2. EffectiveStatus' = [b \in Actions |-> EffectiveStatus'[b]]
  BY DEF EffectiveStatus
<1>3. Shown = [b \in Actions |-> Shown[b]]
  BY <1>1
<1>4. \A b \in Actions : Shown[b] = EffectiveStatus'[b]
  BY <1>1
<1> HIDE DEF Shown
<1>5. EffectiveStatus' = Shown
  BY <1>2, <1>3, <1>4
<1> QED BY <1>5 DEF Shown

\* A step that shows nowhere.
LEMMA ShowsNowhere ==
  ASSUME \A b \in Actions : EffectiveStatus'[b] = EffectiveStatus[b]
  PROVE  EffectiveStatus' = EffectiveStatus
  BY DEF EffectiveStatus

-----------------------------------------------------------------------------
\* What holds between the calls, the ledger and the cloud in every state.
RequestsMatch ==
    \A r \in Requests : req[r] # Idle =>
        status[req[r].action] = IF req[r].kind = "rollback" THEN "executed" ELSE "proposed"
ProbesChangeNothing ==
    \A a \in Actions : IsProbe(a) => effect[a] \in {"none", "downgraded"}
UndecidedUntouched ==
    \A a \in Actions : EffectiveStatus[a] \in {"none", "proposed"} => effect[a] = "none"
ExecutedRevoked ==
    \A a \in Actions : EffectiveStatus[a] = "executed" /\ ~IsProbe(a) => effect[a] = "revoked"

RefInv == RequestsMatch /\ ProbesChangeNothing /\ UndecidedUntouched /\ ExecutedRevoked

PromiseStep == Promise!Next \/ UNCHANGED Promise!vars

LEMMA BusyType ==
  ASSUME TypeOK, NEW r \in Requests, req[r] # Idle
  PROVE  req[r] \in Busy
  BY DEF TypeOK

\* A step that neither shows nor touches the cloud.
LEMMA Stutters ==
  ASSUME RefInv, spec' = spec, readOnly' = readOnly, effect' = effect,
         EffectiveStatus' = EffectiveStatus, RequestsMatch'
  PROVE  RefInv' /\ PromiseStep
<1>1. RefInv'
  BY DEF RefInv, ProbesChangeNothing, UndecidedUntouched, ExecutedRevoked, IsProbe
<1>2. UNCHANGED Promise!vars
  BY DEF Promise!vars, CloudEffect
<1> QED BY <1>1, <1>2 DEF PromiseStep

LEMMA ProposeImplements ==
  ASSUME TypeOK, RefInv, NEW a \in Actions, NEW rule \in Rules, NEW dry \in BOOLEAN,
         Propose(a, rule, dry)
  PROVE  RefInv' /\ PromiseStep
<1>1. \A r \in Requests : ~Applied(r, a)
  <2> SUFFICES ASSUME NEW r \in Requests, Applied(r, a) PROVE FALSE
    OBVIOUS
  <2>1. req[r] # Idle
    BY DEF Applied, Idle
  <2> QED BY <2>1 DEF Propose, RefInv, RequestsMatch, Applied
<1>2. EffectiveStatus[a] = "none"
  BY <1>1, ShownRecorded DEF Propose
<1>3. EffectiveStatus'[a] = "proposed"
  <2>1. \A r \in Requests : ~Applied(r, a)'
    BY <1>1 DEF Propose, Applied
  <2> QED BY <2>1, ShownRecordedNext DEF Propose, TypeOK
<1>4. ASSUME NEW b \in Actions, b # a PROVE EffectiveStatus'[b] = EffectiveStatus[b]
  <2>1. Pending(b)' = Pending(b) /\ \A q \in Pending(b) : req'[q] = req[q]
    BY DEF Propose, Pending
  <2>2. status'[b] = status[b]
    BY <1>4 DEF Propose, TypeOK
  <2> QED BY <2>1, <2>2, ShownStill
<1>5. Promise!Propose(a)
  BY <1>2, <1>3, <1>4, ShowsAt DEF Promise!Propose, Propose, CloudEffect
<1>6. RequestsMatch'
  <2> SUFFICES ASSUME NEW r \in Requests, req'[r] # Idle
               PROVE  RequestsMatch!(r)'
    BY DEF RequestsMatch
  <2>1. req'[r] = req[r] /\ req[r] \in Busy
    BY BusyType DEF Propose
  <2>2. req[r].action # a /\ req[r].action \in Actions
    BY <2>1 DEF Propose, RefInv, RequestsMatch, Busy
  <2> QED BY <2>1, <2>2 DEF Propose, TypeOK, RefInv, RequestsMatch
<1>7. ProbesChangeNothing' /\ UndecidedUntouched' /\ ExecutedRevoked'
  <2>1. effect[a] = "none"
    BY <1>2 DEF RefInv, UndecidedUntouched
  <2> QED BY <1>2, <1>3, <1>4, <2>1
          DEF Propose, TypeOK, RefInv, ProbesChangeNothing, UndecidedUntouched,
              ExecutedRevoked, IsProbe
<1> QED BY <1>5, <1>6, <1>7 DEF PromiseStep, Promise!Next, RefInv

LEMMA LoadImplements ==
  ASSUME TypeOK, RefInv, NEW r \in Requests, NEW kind \in Kinds, NEW a \in Actions,
         Load(r, kind, a)
  PROVE  RefInv' /\ PromiseStep
<1>1. ASSUME NEW b \in Actions PROVE EffectiveStatus'[b] = EffectiveStatus[b]
  <2>1. Pending(b)' = Pending(b) /\ \A q \in Pending(b) : req'[q] = req[q]
    BY DEF Load, Pending, TypeOK, Idle
  <2> QED BY <2>1, ShownStill DEF Load
<1>2. RequestsMatch'
  BY DEF Load, Accepts, RefInv, RequestsMatch, TypeOK
<1> QED BY <1>1, <1>2, ShowsNowhere, Stutters DEF Load

\* A request that calls the cloud is the only one at its action, which shows the
\* status the decision was taken in.
LEMMA CallingShows ==
  ASSUME TypeOK, RefInv, NoOverlap, NEW r \in Requests, Calling(r)
  PROVE  /\ req[r] \in Busy /\ req[r] # Idle
         /\ req[r].kind \in {"approve", "rollback"}
         /\ req[r].action \in Actions
         /\ EffectiveStatus[req[r].action] = status[req[r].action]
         /\ status[req[r].action] = IF req[r].kind = "approve" THEN "proposed" ELSE "executed"
<1>1. req[r] \in Busy /\ req[r] # Idle /\ req[r].kind \in {"approve", "rollback"}
  BY DEF Calling, TypeOK, Busy, Idle, Kinds
<1>2. req[r].action \in Actions
  BY <1>1 DEF Busy
<1>3. \A q \in Requests : ~Applied(q, req[r].action)
  BY <1>1 DEF NoOverlap, Applied, Calling, Idle
<1>4. EffectiveStatus[req[r].action] = status[req[r].action]
  BY <1>2, <1>3, ShownRecorded
<1> QED BY <1>1, <1>2, <1>4 DEF RefInv, RequestsMatch

\* Once it is answered, the action shows what the request will record.
LEMMA AnswerShows ==
  ASSUME TypeOK, NoOverlap', NEW r \in Requests, Calling(r), NEW ok \in BOOLEAN,
         Answer(r, ok), status' = status, RefInv
  PROVE  LET a == req[r].action
             s == IF req[r].kind = "approve" THEN IF ok THEN "executed" ELSE "failed"
                                             ELSE IF ok THEN "rolled_back" ELSE "executed"
         IN  /\ RequestsMatch'
             /\ EffectiveStatus'[a] = s
             /\ \A b \in Actions : b # a => EffectiveStatus'[b] = EffectiveStatus[b]
             /\ EffectiveStatus' = [EffectiveStatus EXCEPT ![a] = s]
<1> DEFINE a == req[r].action
           s == IF req[r].kind = "approve" THEN IF ok THEN "executed" ELSE "failed"
                                           ELSE IF ok THEN "rolled_back" ELSE "executed"
<1>1. req[r] \in Busy /\ req[r] # Idle /\ req[r].kind \in {"approve", "rollback"}
  BY DEF Calling, TypeOK, Busy, Idle, Kinds
<1>2. a \in Actions
  BY <1>1 DEF Busy
<1>3. /\ req'[r] = [step |-> "applied", kind |-> req[r].kind, action |-> a, ok |-> ok]
      /\ \A q \in Requests \ {r} : req'[q] = req[q]
  BY DEF Answer, TypeOK
<1>4. PICK n \in Actions : n = a
  BY <1>2
<1>5. Applied(r, n)'
  BY <1>3, <1>4 DEF Applied
<1>6. EffectiveStatus'[n] = Outcome(r)'
  BY <1>5, ShownPendingNext
<1>7. Outcome(r)' = s
  BY <1>1, <1>3 DEF Outcome
<1>8. ASSUME NEW b \in Actions, b # n PROVE EffectiveStatus'[b] = EffectiveStatus[b]
  <2>1. req[r].step = "applied" => req[r].action = n
    BY <1>4
  <2>2. req'[r].step = "applied" => req'[r].action = n
    BY <1>3, <1>4
  <2> QED BY <1>3, <1>8, <2>1, <2>2, ShownElsewhere
<1>9. RequestsMatch'
  BY <1>1, <1>3 DEF RefInv, RequestsMatch
<1>10. PICK t : t = s
  OBVIOUS
<1>11. EffectiveStatus'[n] = t
  BY <1>6, <1>7, <1>10
<1>12. EffectiveStatus' = [EffectiveStatus EXCEPT ![n] = t]
  BY <1>8, <1>11, ShowsAt
<1> QED BY <1>4, <1>8, <1>9, <1>10, <1>11, <1>12

LEMMA ApplyOkImplements ==
  ASSUME TypeOK, RefInv, NoOverlap, NoOverlap', NEW r \in Requests, ApplyOk(r)
  PROVE  RefInv' /\ PromiseStep
<1>1. Calling(r) /\ Answer(r, TRUE)
  BY DEF ApplyOk
<1>2. PICK a \in Actions : a = req[r].action
  BY <1>1, CallingShows
<1>3. PICK s : s = IF req[r].kind = "approve" THEN "executed" ELSE "rolled_back"
  OBVIOUS
<1>4. /\ req[r].kind \in {"approve", "rollback"}
      /\ EffectiveStatus[a] = IF req[r].kind = "approve" THEN "proposed" ELSE "executed"
  BY <1>1, <1>2, CallingShows
<1>5. /\ RequestsMatch'
      /\ EffectiveStatus'[a] = s
      /\ \A b \in Actions : b # a => EffectiveStatus'[b] = EffectiveStatus[b]
      /\ EffectiveStatus' = [EffectiveStatus EXCEPT ![a] = s]
  BY <1>1, <1>2, <1>3, AnswerShows DEF ApplyOk
<1>6. effect' = [effect EXCEPT ![a] = EffectOf(req[r].kind, a)]
  BY <1>2 DEF ApplyOk, Mutate
<1>7. \A b \in Actions : b # a => effect'[b] = effect[b]
  BY <1>6
<1>8. effect'[a] = EffectOf(req[r].kind, a) /\ effect \in [Actions -> Effects]
  BY <1>6 DEF TypeOK
<1>9. spec' = spec /\ readOnly' = readOnly /\ \A b \in Actions : IsProbe(b)' = IsProbe(b)
  BY DEF ApplyOk, IsProbe
<1>10. CASE req[r].kind = "approve"
  <2>1. effect[a] = "none"
    BY <1>4, <1>10 DEF RefInv, UndecidedUntouched
  <2>2. effect'[a] = IF spec[a].dryRun THEN "none"
                     ELSE IF IsProbe(a) THEN "downgraded" ELSE "revoked"
    BY <1>8, <1>10, <2>1 DEF EffectOf
  <2>3. IsProbe(a) => effect'[a] \in {"none", "downgraded"}
    BY <2>2 DEF IsProbe
  <2>4. ~IsProbe(a) => effect'[a] = "revoked"
    BY <2>2 DEF IsProbe
  <2>5. RefInv'
    BY <1>3, <1>5, <1>7, <1>9, <1>10, <2>3, <2>4
       DEF RefInv, ProbesChangeNothing, UndecidedUntouched, ExecutedRevoked
  <2>6. CloudEffect' \in {CloudEffect, [CloudEffect EXCEPT ![a] = "revoked"]}
    <3>1. CASE IsProbe(a)
      BY <1>7, <1>8, <2>1, <2>3, <3>1 DEF CloudEffect
    <3>2. CASE ~IsProbe(a)
      BY <1>7, <1>8, <2>1, <2>4, <3>2 DEF CloudEffect
    <3> QED BY <3>1, <3>2
  <2>7. Promise!Execute(a)
    BY <1>3, <1>4, <1>5, <1>10, <2>6 DEF Promise!Execute
  <2> QED BY <2>5, <2>7 DEF PromiseStep, Promise!Next
<1>11. CASE req[r].kind = "rollback"
  <2>1. CASE IsProbe(a)
    <3>1. effect[a] \in {"none", "downgraded"} /\ effect'[a] \in {"none", "downgraded"}
      BY <1>8, <2>1 DEF RefInv, ProbesChangeNothing, EffectOf
    <3>2. RefInv'
      BY <1>3, <1>5, <1>7, <1>9, <1>11, <2>1, <3>1
         DEF RefInv, ProbesChangeNothing, UndecidedUntouched, ExecutedRevoked
    <3>3. CloudEffect' = CloudEffect /\ CloudEffect[a] = "none"
      BY <1>7, <1>8, <3>1 DEF CloudEffect
    <3>4. Promise!Rollback(a)
      BY <1>3, <1>4, <1>5, <1>11, <3>3 DEF Promise!Rollback
    <3> QED BY <3>2, <3>4 DEF PromiseStep, Promise!Next
  <2>2. CASE ~IsProbe(a)
    <3>1. effect[a] = "revoked" /\ effect'[a] = "restored"
      BY <1>4, <1>8, <1>11, <2>2 DEF RefInv, ExecutedRevoked, EffectOf, IsProbe
    <3>2. RefInv'
      BY <1>3, <1>5, <1>7, <1>9, <1>11, <2>2, <3>1
         DEF RefInv, ProbesChangeNothing, UndecidedUntouched, ExecutedRevoked
    <3>3. CloudEffect' = [CloudEffect EXCEPT ![a] = "restored"] /\ CloudEffect[a] = "revoked"
      BY <1>7, <1>8, <3>1 DEF CloudEffect
    <3>4. Promise!Rollback(a)
      BY <1>3, <1>4, <1>5, <1>11, <3>3 DEF Promise!Rollback
    <3> QED BY <3>2, <3>4 DEF PromiseStep, Promise!Next
  <2> QED BY <2>1, <2>2
<1> QED BY <1>4, <1>10, <1>11

\* An approval the cloud refuses fails; a refused rollback leaves what was executed.
LEMMA ApplyErrorImplements ==
  ASSUME TypeOK, RefInv, NoOverlap, NoOverlap', NEW r \in Requests, ApplyError(r)
  PROVE  RefInv' /\ PromiseStep
<1>1. Calling(r) /\ Answer(r, FALSE)
  BY DEF ApplyError
<1>2. PICK a \in Actions : a = req[r].action
  BY <1>1, CallingShows
<1>3. PICK s : s = IF req[r].kind = "approve" THEN "failed" ELSE "executed"
  OBVIOUS
<1>4. /\ req[r].kind \in {"approve", "rollback"}
      /\ EffectiveStatus[a] = IF req[r].kind = "approve" THEN "proposed" ELSE "executed"
  BY <1>1, <1>2, CallingShows
<1>5. /\ RequestsMatch'
      /\ EffectiveStatus'[a] = s
      /\ \A b \in Actions : b # a => EffectiveStatus'[b] = EffectiveStatus[b]
      /\ EffectiveStatus' = [EffectiveStatus EXCEPT ![a] = s]
  BY <1>1, <1>2, <1>3, AnswerShows DEF ApplyError
<1>6. CASE req[r].kind = "approve"
  <2>1. RefInv'
    BY <1>3, <1>5, <1>6
       DEF ApplyError, RefInv, ProbesChangeNothing, UndecidedUntouched, ExecutedRevoked, IsProbe
  <2>2. Promise!Fail(a)
    BY <1>3, <1>4, <1>5, <1>6 DEF ApplyError, Promise!Fail, CloudEffect
  <2> QED BY <2>1, <2>2 DEF PromiseStep, Promise!Next
<1>7. CASE req[r].kind = "rollback"
  <2>1. \A b \in Actions : EffectiveStatus'[b] = EffectiveStatus[b]
    BY <1>3, <1>4, <1>5, <1>7
  <2> QED BY <1>5, <2>1, ShowsNowhere, Stutters DEF ApplyError
<1> QED BY <1>4, <1>6, <1>7

\* A save records what the action already showed, or is the rejection itself.
LEMMA SaveImplements ==
  ASSUME TypeOK, RefInv, NoOverlap, NoOverlap', NEW r \in Requests, Save(r)
  PROVE  RefInv' /\ PromiseStep
<1>1. req[r] \in Busy /\ req[r] # Idle
  BY DEF Save, Decided, TypeOK, Idle
<1>2. PICK a \in Actions : a = req[r].action
  BY <1>1 DEF Busy
<1>3. req'[r] = Idle /\ \A q \in Requests \ {r} : req'[q] = req[q]
  BY DEF Save, TypeOK
<1>4. \A b \in Actions : b # a => status'[b] = status[b]
  BY <1>2 DEF Save, TypeOK
<1>5. \A q \in Requests \ {r} : req[q] # Idle => req[q].action # a
  BY <1>1, <1>2 DEF NoOverlap
<1>6. RequestsMatch'
  <2> SUFFICES ASSUME NEW q \in Requests, req'[q] # Idle
               PROVE  RequestsMatch!(q)'
    BY DEF RequestsMatch
  <2>1. q # r /\ req'[q] = req[q] /\ req[q] \in Busy
    BY <1>3, BusyType
  <2>2. req[q].action # a /\ req[q].action \in Actions
    BY <1>5, <2>1 DEF Busy
  <2> QED BY <1>4, <2>1, <2>2 DEF RefInv, RequestsMatch
<1>7. \A b \in Actions : b # a => EffectiveStatus'[b] = EffectiveStatus[b]
  BY <1>2, <1>3, <1>4, ShownElsewhere DEF Idle
<1>8. EffectiveStatus'[a] = status'[a]
  <2>1. \A q \in Requests : ~Applied(q, a)'
    BY <1>3, <1>5 DEF Applied, Idle
  <2> QED BY <2>1, ShownRecordedNext
<1>9. CASE req[r].step = "applied"
  <2>1. EffectiveStatus[a] = Outcome(r)
    BY <1>2, <1>9, ShownPending DEF Applied
  <2>2. status'[a] = Outcome(r)
    <3>1. CASE req[r].kind = "rollback" /\ ~req[r].ok
      BY <1>1, <1>2, <3>1 DEF Save, Outcome, RefInv, RequestsMatch
    <3>2. CASE ~(req[r].kind = "rollback" /\ ~req[r].ok)
      BY <1>2, <3>2 DEF Save, TypeOK
    <3> QED BY <3>1, <3>2
  <2>3. \A b \in Actions : EffectiveStatus'[b] = EffectiveStatus[b]
    BY <1>7, <1>8, <2>1, <2>2
  <2> QED BY <1>6, <2>3, ShowsNowhere, Stutters DEF Save
<1>10. CASE req[r].step = "loaded" /\ req[r].kind = "reject"
  <2>1. EffectiveStatus[a] = "proposed"
    <3>1. \A q \in Requests : ~Applied(q, a)
      BY <1>5, <1>10 DEF Applied, Idle
    <3>2. status[a] = "proposed"
      BY <1>1, <1>2, <1>10 DEF RefInv, RequestsMatch
    <3> QED BY <3>1, <3>2, ShownRecorded
  <2>2. EffectiveStatus'[a] = "rejected"
    BY <1>2, <1>8, <1>10 DEF Save, Outcome, TypeOK
  <2>3. RefInv'
    BY <1>6, <1>7, <2>2
       DEF Save, RefInv, ProbesChangeNothing, UndecidedUntouched, ExecutedRevoked, IsProbe
  <2>4. EffectiveStatus' = [EffectiveStatus EXCEPT ![a] = "rejected"]
    BY <1>7, <2>2, ShowsAt
  <2>5. Promise!Reject(a)
    BY <2>1, <2>4 DEF Save, Promise!Reject, CloudEffect
  <2> QED BY <2>3, <2>5 DEF PromiseStep, Promise!Next
<1> QED BY <1>9, <1>10 DEF Save, Decided

\* The customer's own edits change neither side of the promise.
LEMMA EnvironmentImplements ==
  ASSUME RefInv, \/ \E rule \in Rules : CustomerEdits(rule)
                 \/ UNCHANGED vars
  PROVE  RefInv' /\ PromiseStep
<1>1. /\ status' = status /\ req' = req
      /\ spec' = spec /\ readOnly' = readOnly /\ effect' = effect
  BY DEF CustomerEdits, vars
<1>2. RequestsMatch'
  BY <1>1 DEF RefInv, RequestsMatch
<1>3. ASSUME NEW b \in Actions PROVE EffectiveStatus'[b] = EffectiveStatus[b]
  <2>1. Pending(b)' = Pending(b)
    BY <1>1 DEF Pending
  <2> QED BY <1>1, <2>1, ShownStill
<1> QED BY <1>1, <1>2, <1>3, ShowsNowhere, Stutters

\* Every step of the three-step requests is one step of the promise, or none.
LEMMA StepImplements ==
  ASSUME RequestsDie = FALSE, Redeploys = FALSE,
         TypeOK, RefInv, NoOverlap, NoOverlap', [Next]_vars
  PROVE  RefInv' /\ PromiseStep
<1>1. ASSUME NEW r \in Requests, RequestStep(r) PROVE RefInv' /\ PromiseStep
  BY <1>1, LoadImplements, ApplyOkImplements, ApplyErrorImplements, SaveImplements
     DEF RequestStep, ApplyRaises, Die
<1> QED BY <1>1, ProposeImplements, EnvironmentImplements DEF Next, Redeploy

\* The ledger and the cloud change together as the lifecycle of execution_status.py
\* says, although a decision is a load, a cloud call and a save with no lock across
\* them: for any number of concurrent requests, if no two are in flight for the same
\* action, none dies and no deployment cuts one short.
THEOREM DecisionsLookAtomic ==
  ASSUME RequestsDie = FALSE, Redeploys = FALSE
  PROVE  Spec /\ []NoOverlap => ImplementsPromise
<1>1. Init => RefInv /\ Promise!Init
  <2> SUFFICES ASSUME Init PROVE RefInv /\ Promise!Init
    OBVIOUS
  <2>1. \A a \in Actions : EffectiveStatus[a] = "none"
    BY ShownRecorded DEF Init, Applied, Idle
  <2>2. EffectiveStatus = [a \in Actions |-> "none"]
    BY <2>1 DEF EffectiveStatus
  <2>3. CloudEffect = [a \in Actions |-> "none"]
    BY DEF Init, CloudEffect
  <2>4. RefInv
    BY <2>1 DEF Init, RefInv, RequestsMatch, ProbesChangeNothing, UndecidedUntouched,
                ExecutedRevoked
  <2> QED BY <2>2, <2>3, <2>4 DEF Promise!Init
<1>2. TypeOK /\ RefInv /\ NoOverlap /\ NoOverlap' /\ [Next]_vars
        => RefInv' /\ [Promise!Next]_(Promise!vars)
  BY StepImplements DEF PromiseStep
<1> QED BY <1>1, <1>2, TypeCorrect, PTL DEF Spec, ImplementsPromise, Promise!Spec

\* One operator at a time, as the flow tests exercise it: the promise is kept
\* outright.
COROLLARY SerialDecisionsAreAtomic ==
  ASSUME RequestsDie = FALSE, Redeploys = FALSE, \A r, q \in Requests : r = q
  PROVE  Spec => ImplementsPromise
<1>1. NoOverlap
  BY DEF NoOverlap
<1> QED BY <1>1, DecisionsLookAtomic, PTL

=============================================================================
