--------------------------- MODULE ScanGateProofs ---------------------------
(* Proofs about ScanGate for any number of dispatch attempts.  OneInFlight is *)
(* not inductive: it rests on who holds the lock at each stage, and on a lock  *)
(* that a rescan may take over being older than the newest completion.         *)
EXTENDS ScanGate, TLAPS

\* On its way: the lock, or a row, stands for it.
OnItsWay == InFlight \cup {"locked"}

\* What a rescan has read of older stamps stays true of them.
SeenCovered == \A d \in Dispatches : seen[d] \subseteq covered

\* A dispatch that has no row yet holds the lock, with a stamp of its own.
HoldsLock ==
    \A d \in Dispatches : stage[d] \in Waiting \cup {"locked"} => lock = d /\ d \notin covered

\* A running one may have outlived its lock, once nobody is inside the gate.
RunsAlone ==
    \A d \in Dispatches : stage[d] = "running" =>
        /\ d \notin covered
        /\ \/ lock = d
           \/ lock = NoOne /\ \A e \in Dispatches : stage[e] \notin Gate

AtMostOne ==
    \A d, e \in Dispatches : stage[d] \in OnItsWay /\ stage[e] \in OnItsWay => d = e

\* While the cooldown is on, a caller that read the history before it finds the lock.
Mirrored ==
    ~unmirrored /\ cooling /\ (\E d \in Dispatches : stage[d] = "checked") => lock # NoOne

Sound == HoldsLock /\ RunsAlone /\ AtMostOne /\ Mirrored
IInv  == TypeOK /\ SeenCovered /\ (~slipped => Sound)

-----------------------------------------------------------------------------

\* Every step leaves the state well typed.
LEMMA TypeStep == TypeOK /\ [Next]_vars => TypeOK'
<1> SUFFICES ASSUME TypeOK, [Next]_vars PROVE TypeOK'
  OBVIOUS
<1> USE DEF TypeOK, Stages, Gate, InFlight, Waiting, Go, Leave, Release, TaskGone
<1>1. ASSUME NEW d \in Dispatches, Check(d) PROVE TypeOK'
  <2>1. PICK bypass \in BOOLEAN : /\ Go(d, IF bypass THEN "rescan" ELSE "checked")
                                  /\ seen' = [e \in Dispatches |->
                                        IF e = d /\ bypass THEN covered \ {d}
                                                            ELSE seen[e] \ {d}]
    BY <1>1 DEF Check
  <2>2. seen' \in [Dispatches -> SUBSET Dispatches]
    BY <2>1
  <2>3. stage' \in [Dispatches -> Stages]
    BY <2>1
  <2> QED
    BY <1>1, <2>2, <2>3 DEF Check
<1>2. ASSUME NEW d \in Dispatches, Add(d) PROVE TypeOK'
  BY <1>2 DEF Add
<1>3. ASSUME NEW d \in Dispatches, Contended(d) PROVE TypeOK'
  BY <1>3 DEF Contended
<1>4. ASSUME NEW d \in Dispatches, TakeOver(d) PROVE TypeOK'
  BY <1>4 DEF TakeOver
<1>5. ASSUME NEW d \in Dispatches, Enqueue(d) PROVE TypeOK'
  BY <1>5 DEF Enqueue
<1>6. ASSUME NEW d \in Dispatches, EnqueueFails(d) PROVE TypeOK'
  BY <1>6 DEF EnqueueFails
<1>7. ASSUME NEW d \in Dispatches, CallerDies(d) PROVE TypeOK'
  BY <1>7 DEF CallerDies
<1>8. ASSUME NEW d \in Dispatches, Abandon(d) \/ Start(d) PROVE TypeOK'
  BY <1>8 DEF Abandon, Start
<1>9. ASSUME NEW d \in Dispatches, Complete(d) PROVE TypeOK'
  BY <1>9 DEF Complete
<1>10. ASSUME NEW d \in Dispatches, Publish(d) \/ PublishFails(d) PROVE TypeOK'
  BY <1>10 DEF Publish, PublishFails
<1>11. ASSUME NEW d \in Dispatches, Fail(d) PROVE TypeOK'
  BY <1>11 DEF Fail
<1>12. ASSUME NEW d \in Dispatches, ReleaseFailed(d) PROVE TypeOK'
  BY <1>12 DEF ReleaseFailed
<1>13. ASSUME NEW d \in Dispatches, WorkerDies(d) \/ TaskDies(d) PROVE TypeOK'
  BY <1>13 DEF WorkerDies, TaskDies
<1>14. ASSUME LockExpires \/ CooldownEnds \/ RowStale PROVE TypeOK'
  BY <1>14 DEF LockExpires, CooldownEnds, RowStale
<1>15. CASE UNCHANGED vars
  BY <1>15 DEF vars
<1> QED
  BY <1>1, <1>2, <1>3, <1>4, <1>5, <1>6, <1>7, <1>8, <1>9, <1>10, <1>11, <1>12,
     <1>13, <1>14, <1>15 DEF Next

\* Stamps a rescan has seen to be old are those of attempts that have not checked
\* again since, so they stay covered.
LEMMA SeenStep == TypeOK /\ SeenCovered /\ [Next]_vars => SeenCovered'
<1> SUFFICES ASSUME TypeOK, SeenCovered, [Next]_vars PROVE SeenCovered'
  OBVIOUS
<1> USE DEF TypeOK, SeenCovered, Go, Leave, Release, TaskGone
<1>1. ASSUME NEW d \in Dispatches, Check(d) PROVE SeenCovered'
  <2>1. PICK bypass \in BOOLEAN : seen' = [e \in Dispatches |->
                                        IF e = d /\ bypass THEN covered \ {d}
                                                            ELSE seen[e] \ {d}]
    BY <1>1 DEF Check
  <2>2. ASSUME NEW e \in Dispatches PROVE seen'[e] \subseteq covered'
    BY <1>1, <2>1 DEF Check
  <2> QED
    BY <2>2
<1>2. ASSUME NEW d \in Dispatches, Contended(d) PROVE SeenCovered'
  BY <1>2 DEF Contended, LockPredatesCompletion
<1>3. ASSUME NEW d \in Dispatches, Add(d) \/ TakeOver(d) \/ CallerDies(d)
      PROVE  SeenCovered'
  BY <1>3 DEF Add, TakeOver, CallerDies
<1>4. ASSUME NEW d \in Dispatches, Complete(d) PROVE SeenCovered'
  BY <1>4 DEF Complete
<1>5. ASSUME NEW d \in Dispatches,
             \/ Enqueue(d) \/ EnqueueFails(d) \/ Abandon(d) \/ Start(d) \/ Publish(d)
             \/ PublishFails(d) \/ Fail(d) \/ ReleaseFailed(d) \/ WorkerDies(d)
             \/ TaskDies(d)
      PROVE  SeenCovered'
  BY <1>5 DEF Enqueue, EnqueueFails, Abandon, Start, Publish, PublishFails, Fail,
              ReleaseFailed, WorkerDies, TaskDies
<1>6. ASSUME LockExpires \/ CooldownEnds \/ RowStale PROVE SeenCovered'
  BY <1>6 DEF LockExpires, CooldownEnds, RowStale
<1>7. CASE UNCHANGED vars
  BY <1>7 DEF vars
<1> QED
  BY <1>1, <1>2, <1>3, <1>4, <1>5, <1>6, <1>7 DEF Next

\* A caller about to write the lock, finding it free or older than a completion,
\* finds nobody on their way.
LEMMA NobodyOnTheirWay ==
    ASSUME TypeOK, Sound, NEW d \in Dispatches, stage[d] \in Gate,
           lock = NoOne \/ lock \in covered
    PROVE  \A e \in Dispatches : stage[e] \notin OnItsWay
  BY ConstantsAssumption DEF TypeOK, Sound, HoldsLock, RunsAlone, OnItsWay, InFlight,
                             Waiting

\* Every step that leaves the lock sound keeps the four conjuncts.
LEMMA SoundStep ==
    TypeOK /\ SeenCovered /\ (~slipped => Sound) /\ [Next]_vars => (~slipped' => Sound')
<1> SUFFICES ASSUME TypeOK, SeenCovered, ~slipped => Sound, [Next]_vars, ~slipped'
             PROVE  Sound'
  OBVIOUS
<1> USE DEF Gate, InFlight, Waiting, OnItsWay, Stages
<1>1. ASSUME NEW d \in Dispatches, Check(d) PROVE Sound'
  BY <1>1, ConstantsAssumption
  DEF Check, Go, TypeOK, Sound, HoldsLock, RunsAlone, AtMostOne, Mirrored,
      HistoryAdmits, RunInFlight, SomeRuns
<1>2. ASSUME NEW d \in Dispatches, Add(d) PROVE Sound'
  <2>1. \A e \in Dispatches : stage[e] \notin OnItsWay
    BY <1>2, NobodyOnTheirWay DEF Add
  <2> QED
    BY <1>2, <2>1, ConstantsAssumption
    DEF Add, Leave, Go, TypeOK, Sound, HoldsLock, RunsAlone, AtMostOne, Mirrored
<1>3. ASSUME NEW d \in Dispatches, Contended(d) PROVE Sound'
  BY <1>3, ConstantsAssumption
  DEF Contended, Leave, Go, TypeOK, Sound, HoldsLock, RunsAlone, AtMostOne, Mirrored
<1>4. ASSUME NEW d \in Dispatches, TakeOver(d) PROVE Sound'
  <2>1. \A e \in Dispatches : stage[e] \notin OnItsWay
    BY <1>4, NobodyOnTheirWay DEF TakeOver, SeenCovered
  <2> QED
    BY <1>4, <2>1, ConstantsAssumption
    DEF TakeOver, Leave, Go, TypeOK, Sound, HoldsLock, RunsAlone, AtMostOne, Mirrored
<1>5. ASSUME NEW d \in Dispatches, Enqueue(d) \/ Abandon(d) \/ Start(d) PROVE Sound'
  BY <1>5
  DEF Enqueue, Abandon, Start, Go, TypeOK, Sound, HoldsLock, RunsAlone, AtMostOne,
      Mirrored
<1>6. ASSUME NEW d \in Dispatches, EnqueueFails(d) \/ ReleaseFailed(d) PROVE Sound'
  <2>1. ~slipped /\ lock \in {d, NoOne}
    BY <1>6 DEF EnqueueFails, ReleaseFailed, Release
  <2>2. \A e \in Dispatches \ {d} : stage[e] \notin Waiting \cup {"locked"}
    BY <1>6, <2>1, ConstantsAssumption
    DEF EnqueueFails, ReleaseFailed, TypeOK, Sound, HoldsLock
  <2>3. lock' = NoOne /\ covered' = covered /\ (unmirrored' \/ ~cooling')
    BY <1>6 DEF EnqueueFails, ReleaseFailed, Release, TypeOK
  <2>4. stage' = [stage EXCEPT ![d] = "idle"]
    BY <1>6 DEF EnqueueFails, ReleaseFailed, Go
  <2>5. RunsAlone'
    BY <2>1, <2>3, <2>4, ConstantsAssumption DEF TypeOK, Sound, RunsAlone
  <2> QED
    BY <2>1, <2>2, <2>3, <2>4, <2>5 DEF TypeOK, Sound, HoldsLock, AtMostOne, Mirrored
<1>7. ASSUME NEW d \in Dispatches, CallerDies(d) PROVE Sound'
  BY <1>7
  DEF CallerDies, Leave, Go, TypeOK, Sound, HoldsLock, RunsAlone, AtMostOne, Mirrored
<1>8. ASSUME NEW d \in Dispatches, Complete(d) PROVE Sound'
  BY <1>8, ConstantsAssumption
  DEF Complete, Go, TypeOK, Sound, HoldsLock, RunsAlone, AtMostOne, Mirrored
<1>9. ASSUME NEW d \in Dispatches, Publish(d) \/ PublishFails(d) \/ Fail(d) PROVE Sound'
  BY <1>9
  DEF Publish, PublishFails, Fail, Go, TypeOK, Sound, HoldsLock, RunsAlone, AtMostOne,
      Mirrored
<1>10. ASSUME NEW d \in Dispatches, WorkerDies(d) \/ TaskDies(d) PROVE Sound'
  BY <1>10, ConstantsAssumption
  DEF WorkerDies, TaskDies, TaskGone, Go, TypeOK, Sound, HoldsLock, RunsAlone,
      AtMostOne, Mirrored
<1>11. ASSUME LockExpires PROVE Sound'
  BY <1>11, ConstantsAssumption
  DEF LockExpires, TypeOK, Sound, HoldsLock, RunsAlone, AtMostOne, Mirrored
<1>12. ASSUME CooldownEnds \/ RowStale PROVE Sound'
  BY <1>12
  DEF CooldownEnds, RowStale, Sound, HoldsLock, RunsAlone, AtMostOne, Mirrored
<1>13. CASE UNCHANGED vars
  BY <1>13 DEF vars, Sound, HoldsLock, RunsAlone, AtMostOne, Mirrored
<1> QED
  BY <1>1, <1>2, <1>3, <1>4, <1>5, <1>6, <1>7, <1>8, <1>9, <1>10, <1>11, <1>12, <1>13
  DEF Next

\* The strengthened invariant holds in every reachable state.
LEMMA Inductive == Spec => []IInv
<1>1. Init => IInv
  BY DEF Init, IInv, TypeOK, SeenCovered, Sound, HoldsLock, RunsAlone, AtMostOne,
         Mirrored, OnItsWay, InFlight, Waiting, Stages, Gate
<1>2. IInv /\ [Next]_vars => IInv'
  BY TypeStep, SeenStep, SoundStep DEF IInv
<1> QED
  BY <1>1, <1>2, PTL DEF Spec

-----------------------------------------------------------------------------

\* Types hold in every reachable state of the gate.
THEOREM TypeCorrect == Spec => []TypeOK
<1>1. IInv => TypeOK
  BY DEF IInv
<1> QED
  BY <1>1, Inductive, PTL

\* At most one dispatch of a target is queued or running, for any number of callers,
\* as long as no lock has failed its dispatch (check_and_lock_dispatch).
THEOREM NeverTwoInFlight == Spec => []OneInFlight
<1>1. IInv => OneInFlight
  BY DEF IInv, Sound, AtMostOne, OnItsWay, OneInFlight
<1> QED
  BY <1>1, Inductive, PTL

\* No trigger is admitted during a cooldown on the strength of a history it read
\* before, unless a lock has failed or a release has removed the cooldown's mirror.
THEOREM CooldownHolds == Spec => CooldownRespected
<1> DEFINE Late(d) == stage[d] = "checked" /\ stage'[d] = "locked" /\ cooling
<1>1. ASSUME IInv, [Next]_vars, NEW d \in Dispatches, Late(d)
      PROVE  slipped \/ unmirrored
  <2> SUFFICES ASSUME ~slipped, ~unmirrored PROVE FALSE
    OBVIOUS
  <2>1. lock # NoOne
    BY <1>1 DEF IInv, Sound, Mirrored
  <2> USE <1>1, <2>1 DEF IInv, TypeOK, Stages, Gate, InFlight, Waiting, Go, Leave
  <2>2. \A e \in Dispatches : ~Add(e)
    BY DEF Add
  <2>4. ASSUME NEW e \in Dispatches, Check(e) \/ Contended(e) \/ TakeOver(e) \/ CallerDies(e)
        PROVE  FALSE
    BY <2>4 DEF Check, Contended, TakeOver, CallerDies
  <2>5. ASSUME NEW e \in Dispatches,
               \/ Enqueue(e) \/ EnqueueFails(e) \/ Abandon(e) \/ Start(e) \/ Complete(e)
               \/ Publish(e) \/ PublishFails(e) \/ Fail(e) \/ ReleaseFailed(e)
        PROVE  FALSE
    BY <2>5 DEF Enqueue, EnqueueFails, Abandon, Start, Complete, Publish, PublishFails,
                Fail, ReleaseFailed
  <2>6. ASSUME NEW e \in Dispatches, WorkerDies(e) \/ TaskDies(e) PROVE FALSE
    BY <2>6 DEF WorkerDies, TaskDies, TaskGone
  <2>7. ASSUME LockExpires \/ CooldownEnds \/ RowStale \/ UNCHANGED vars PROVE FALSE
    BY <2>7 DEF LockExpires, CooldownEnds, RowStale, vars
  <2> QED
    BY <2>2, <2>4, <2>5, <2>6, <2>7 DEF Next
<1>2. IInv /\ [Next]_vars
        => [\A d \in Dispatches : Late(d) => slipped \/ unmirrored]_vars
  BY <1>1
<1> QED
  BY <1>2, Inductive, PTL DEF Spec, CooldownRespected
=============================================================================
