------------------------------ MODULE ScanGate ------------------------------
(***************************************************************************)
(* The dispatch gate of one scan target (components/scanning): callers ask *)
(* check_and_lock_dispatch, the admitted ones enqueue scanning.run_scan,   *)
(* a worker runs it, records a ScanRun row and, when it fails, gives the   *)
(* dispatch lock back.  The gate reads the run history in the database,    *)
(* then adds the lock in the cache: two stores, two steps.  A rescan after *)
(* a merge skips the cooldown and may take over a completed run's lock.    *)
(*                                                                         *)
(* Time is left out but for the order of the instants that lock values and *)
(* rows carry (covered).  Locks expire, cooldowns end and rows go stale as *)
(* steps of their own.                                                     *)
(***************************************************************************)
CONSTANTS
    Dispatches,     \* dispatch attempts under way at once
    NoOne,          \* the lock is free
    Dies            \* workers and callers may die

ASSUME ConstantsAssumption == NoOne \notin Dispatches /\ Dies \in BOOLEAN

VARIABLES
    stage,      \* where each attempt has got to; "running" has a RUNNING ScanRun row
    seen,       \* of a rescan in the gate: covered, as its check read it; then the
                \* lock it has read and is to take over
    lock,       \* the cache's dispatch lock: the attempt whose time stamp it holds
    orphan,     \* a RUNNING row that nobody runs any more
    covered,    \* attempts whose last check is older than the newest completion
    cooling,    \* the newest completed run is younger than the cooldown
    slipped,    \* history: a lock has failed its dispatch (lapsed, been trampled,
                \* been dropped by another's release, or carried too old a stamp)
    unmirrored  \* history: a release has left a cooldown without its lock

vars == <<stage, seen, lock, orphan, covered, cooling, slipped, unmirrored>>

Gate     == {"checked", "rescan", "taking"}
Waiting  == {"queued", "lost"}      \* lost: the worker that held it is gone
InFlight == Waiting \cup {"running"}
Stages   == {"idle", "locked", "completed", "failed"} \cup Gate \cup InFlight

TypeOK ==
    /\ stage \in [Dispatches -> Stages]
    /\ seen \in [Dispatches -> SUBSET Dispatches]
    /\ lock \in Dispatches \cup {NoOne}
    /\ orphan \in {"none", "fresh", "stale"}
    /\ covered \subseteq Dispatches
    /\ cooling \in BOOLEAN
    /\ slipped \in BOOLEAN
    /\ unmirrored \in BOOLEAN

Init ==
    /\ stage = [d \in Dispatches |-> "idle"]
    /\ seen = [d \in Dispatches |-> {}]
    /\ lock = NoOne
    /\ orphan = "none"
    /\ covered = {}
    /\ cooling = FALSE
    /\ slipped = FALSE
    /\ unmirrored = FALSE

Go(d, s) == stage' = [stage EXCEPT ![d] = s]
Leave(d, s) == Go(d, s) /\ seen' = [seen EXCEPT ![d] = {}]

-----------------------------------------------------------------------------
(* The gate *)

SomeRuns == \E d \in Dispatches : stage[d] = "running"

\* Faulty variant: a crashed worker's row counts for ever.
RunInFlightForEver == SomeRuns \/ orphan # "none"

\* A PENDING or RUNNING row younger than _STALE_RUNNING_SECONDS.
RunInFlight == SomeRuns \/ orphan = "fresh"

\* The first half of check_and_lock_dispatch, the run history.
HistoryAdmits(bypass) == ~RunInFlight /\ (bypass \/ ~cooling)

\* An identity is used again once the lock no longer carries its old stamp.
Check(d) ==
    /\ stage[d] = "idle" /\ lock # d
    /\ \E bypass \in BOOLEAN :
        /\ HistoryAdmits(bypass)
        /\ Go(d, IF bypass THEN "rescan" ELSE "checked")
        /\ seen' = [e \in Dispatches |->
                        IF e = d /\ bypass THEN covered \ {d} ELSE seen[e] \ {d}]
    /\ covered' = covered \ {d}
    /\ UNCHANGED <<lock, orphan, cooling, slipped, unmirrored>>

\* Faulty variant: add finds the key held and is taken for a success.
AddAnyway(d) ==
    /\ stage[d] \in {"checked", "rescan"}
    /\ lock' = IF lock = NoOne THEN d ELSE lock
    /\ slipped' = (slipped \/ d \in covered)
    /\ Leave(d, "locked")
    /\ UNCHANGED <<orphan, covered, cooling, unmirrored>>

\* cache.add has found the key free.  Its stamp is the time of the check: if a run
\* has completed since, the lock looks like that run's.
Add(d) ==
    /\ stage[d] \in {"checked", "rescan"}
    /\ lock = NoOne
    /\ lock' = d
    /\ slipped' = (slipped \/ d \in covered)
    /\ Leave(d, "locked")
    /\ UNCHANGED <<orphan, covered, cooling, unmirrored>>

\* _lock_predates_completion, for the completion the check has read.
LockPredatesCompletion(d) == lock \in seen[d]

\* add has failed: a rescan reads the stamp, everyone else is refused.
Contended(d) ==
    /\ stage[d] \in {"checked", "rescan"}
    /\ lock # NoOne
    /\ IF stage[d] = "rescan" /\ LockPredatesCompletion(d)
       THEN Go(d, "taking") /\ seen' = [seen EXCEPT ![d] = {lock}]
       ELSE Leave(d, "idle")
    /\ UNCHANGED <<lock, orphan, covered, cooling, slipped, unmirrored>>

\* cache.set, whatever the lock has become since it was read.
TakeOver(d) ==
    /\ stage[d] = "taking"
    /\ lock' = d
    /\ slipped' = (slipped \/ d \in covered \/ lock \notin seen[d] \cup {NoOne})
    /\ Leave(d, "locked")
    /\ UNCHANGED <<orphan, covered, cooling, unmirrored>>

-----------------------------------------------------------------------------
(* The dispatch *)

Enqueue(d) ==
    /\ stage[d] = "locked"
    /\ Go(d, "queued")
    /\ UNCHANGED <<seen, lock, orphan, covered, cooling, slipped, unmirrored>>

\* release_dispatch_lock deletes the key, whichever dispatch it stands for and
\* though it may mirror a cooldown.
Release(d) ==
    /\ lock' = NoOne
    /\ slipped' = (slipped \/ lock \notin {d, NoOne})
    /\ unmirrored' = (unmirrored \/ cooling)

\* dispatch_scan raised: the caller gives the lock back.
EnqueueFails(d) ==
    /\ stage[d] = "locked"
    /\ Release(d)
    /\ Go(d, "idle")
    /\ UNCHANGED <<seen, orphan, covered, cooling>>

CallerDies(d) ==
    /\ Dies
    /\ stage[d] \in Gate \cup {"locked"}
    /\ Leave(d, "idle")
    /\ UNCHANGED <<lock, orphan, covered, cooling, slipped, unmirrored>>

\* An unknown source, or a job record that cannot be opened, ends the task before
\* it has a row; the lock stays.
Abandon(d) ==
    /\ stage[d] \in Waiting
    /\ Go(d, "idle")
    /\ UNCHANGED <<seen, lock, orphan, covered, cooling, slipped, unmirrored>>

-----------------------------------------------------------------------------
(* The scan *)

\* A worker takes the message, or takes it again from a dead one.
Start(d) ==
    /\ stage[d] \in Waiting
    /\ Go(d, "running")
    /\ UNCHANGED <<seen, lock, orphan, covered, cooling, slipped, unmirrored>>

\* The row is COMPLETED: the newest completion is now younger than every check made
\* so far.
Complete(d) ==
    /\ stage[d] = "running"
    /\ covered' = Dispatches
    /\ cooling' = TRUE
    /\ Go(d, "completed")
    /\ UNCHANGED <<seen, lock, orphan, slipped, unmirrored>>

\* Faulty variant: the lock is given back whatever the outcome.
PublishReleasing(d) ==
    /\ stage[d] = "completed"
    /\ lock' = NoOne
    /\ Go(d, "idle")
    /\ UNCHANGED <<seen, orphan, covered, cooling, slipped, unmirrored>>

\* Its events are published; the lock stays, to mirror the cooldown.
Publish(d) ==
    /\ stage[d] = "completed"
    /\ Go(d, "idle")
    /\ UNCHANGED <<seen, lock, orphan, covered, cooling, slipped, unmirrored>>

\* Publishing raises: a completed run takes the task's failure branch.
PublishFails(d) ==
    /\ stage[d] = "completed"
    /\ Go(d, "failed")
    /\ UNCHANGED <<seen, lock, orphan, covered, cooling, slipped, unmirrored>>

\* Faulty variant: the row is left in a status of its own.
FailPending(d) ==
    /\ stage[d] = "running"
    /\ Go(d, "pending")
    /\ UNCHANGED <<seen, lock, orphan, covered, cooling, slipped, unmirrored>>

\* The scan raises and its row is FAILED; or the write that finalizes it raises,
\* and the row stays RUNNING with nobody behind it.
Fail(d) ==
    /\ stage[d] = "running"
    /\ orphan' \in {orphan, "fresh"}
    /\ Go(d, "failed")
    /\ UNCHANGED <<seen, lock, covered, cooling, slipped, unmirrored>>

ReleaseFailed(d) ==
    /\ stage[d] = "failed"
    /\ Release(d)
    /\ Go(d, "idle")
    /\ UNCHANGED <<seen, orphan, covered, cooling>>

\* The end of a process that holds a message: the broker has it back (acks_late),
\* or, at the hard time limit, it is acknowledged.  The lock of a message that is
\* back may be gone, or look like a completed run's.
TaskGone(d) ==
    \/ Go(d, "idle") /\ UNCHANGED slipped
    \/ Go(d, "lost") /\ slipped' = (slipped \/ lock # d \/ d \in covered)

WorkerDies(d) ==
    /\ Dies
    /\ stage[d] = "running"
    /\ orphan' = "fresh"
    /\ TaskGone(d)
    /\ UNCHANGED <<seen, lock, covered, cooling, unmirrored>>

\* After the row is final and before the task has ended.
TaskDies(d) ==
    /\ Dies
    /\ stage[d] \in {"completed", "failed"}
    /\ TaskGone(d)
    /\ UNCHANGED <<seen, lock, orphan, covered, cooling, unmirrored>>

-----------------------------------------------------------------------------
(* Time *)

\* The lock has lived for a cooldown.  It has lapsed if its dispatch has still to
\* start, or if some caller is between its two reads (which last moments, not the
\* lock's hour).
LockExpires ==
    /\ lock # NoOne
    /\ lock' = NoOne
    /\ slipped' = (slipped \/ stage[lock] \in Waiting \cup {"locked"}
                           \/ \E d \in Dispatches : stage[d] \in Gate)
    /\ UNCHANGED <<stage, seen, orphan, covered, cooling, unmirrored>>

CooldownEnds ==
    /\ cooling
    /\ cooling' = FALSE
    /\ UNCHANGED <<stage, seen, lock, orphan, covered, slipped, unmirrored>>

\* _STALE_RUNNING_SECONDS have passed.  A run that is alive is stopped first, by its
\* soft time limit of the same length.
RowStale ==
    /\ orphan = "fresh"
    /\ orphan' = "stale"
    /\ UNCHANGED <<stage, seen, lock, covered, cooling, slipped, unmirrored>>

Next ==
    \/ \E d \in Dispatches :
        \/ Check(d) \/ Add(d) \/ Contended(d) \/ TakeOver(d)
        \/ Enqueue(d) \/ EnqueueFails(d) \/ CallerDies(d) \/ Abandon(d)
        \/ Start(d) \/ Complete(d) \/ Publish(d) \/ PublishFails(d)
        \/ Fail(d) \/ ReleaseFailed(d) \/ WorkerDies(d) \/ TaskDies(d)
    \/ LockExpires \/ CooldownEnds \/ RowStale

Spec == Init /\ [][Next]_vars

\* Time passes, whoever is alive.  Nothing else is owed.
Fairness == WF_vars(LockExpires) /\ WF_vars(CooldownEnds) /\ WF_vars(RowStale)

FairSpec == Spec /\ Fairness

-----------------------------------------------------------------------------
(* Properties *)

\* The gate's promise (scan_gate.py, "never more than one in flight"): as long as
\* no lock has failed its dispatch in one of the ways slipped names, at most one
\* dispatch of the target is queued or running, whatever dies in between.
OneInFlight ==
    ~slipped => \A d, e \in Dispatches :
                    stage[d] \in InFlight /\ stage[e] \in InFlight => d = e

\* A lock that is kept after a completed run mirrors the cooldown "even if the row
\* read is raced": a trigger that read the history before that run started cannot
\* come in behind it while the cooldown is on.
CooldownRespected ==
    [][\A d \in Dispatches :
        stage[d] = "checked" /\ stage'[d] = "locked" /\ cooling
            => slipped \/ unmirrored]_vars

\* Nobody scans the target and the next trigger would be admitted.
Quiet == \A d \in Dispatches : stage[d] = "idle"
Open  == Quiet /\ lock = NoOne /\ HistoryAdmits(FALSE)

\* "A crashed worker must not lock the target forever": a target that everyone has
\* left, in whatever state they left it, admits a trigger in the end unless someone
\* comes back first.
Reopens == Quiet ~> (Open \/ ~Quiet)
=============================================================================
