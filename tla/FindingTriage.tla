---------------------------- MODULE FindingTriage ----------------------------
(***************************************************************************)
(* How a finding's board card gets its fix (components/agents): a card is  *)
(* filed, a leased dispatch enqueues the owning specialist, a worker takes *)
(* the dispatch, stamps the pending cards as being drafted, lists them,    *)
(* and processes them one by one: advise with no lock held, then re-check  *)
(* and write under the row lock.  An operator can ask for one card, and    *)
(* the remediation reconciler resolves cards whose fix was merged.         *)
(*                                                                         *)
(* The stamp reads the rows in one query and writes their whole metadata   *)
(* back in another; every other writer here holds the row lock, so it is   *)
(* one step.  Tasks are acknowledged late: a worker that dies gives its    *)
(* message back to the broker.                                             *)
(***************************************************************************)
EXTENDS Naturals

CONSTANTS
    Cards,      \* findings of one specialist in one workspace
    Procs,      \* processes (workers and web requests) at work at once
    Resolves,   \* merged fixes are reconciled
    Dies        \* processes may die

ASSUME ConstantsAssumption == Resolves \in BOOLEAN /\ Dies \in BOOLEAN

VARIABLES
    card,       \* the metadata column of each card
    lease,      \* the cache holds the dispatch lease of the specialist
    fixLease,   \* cards whose on-demand lease the cache holds
    queue,      \* messages waiting at the broker, at most one of a kind
    proc,       \* what each process is doing
    done,       \* history: passes that left the card handled (counted to MaxDone)
    torn        \* history: cards whose newer metadata a stamp overwrote

vars == <<card, lease, fixLease, queue, proc, done, torn>>

MaxDone == 2    \* enough to tell a second commented fix from a first

\* complete: the payload carries what the source needs (a fix, or a graded patch)
Meta    == [status : {"absent", "new", "triaged", "resolved"},
            complete : BOOLEAN, resolved : BOOLEAN]
Absent  == [status |-> "absent", complete |-> FALSE, resolved |-> FALSE]
Message == [kind : {"batch", "fix"}, scope : SUBSET Cards]
Batch   == [kind |-> "batch", scope |-> Cards]

\* rows: the cards read by the stamp, then the cards listed and still to process
Proc == [step : {"idle", "stamping", "stamped", "working", "advised"},
         kind : {"batch", "fix", "request"}, scope : SUBSET Cards,
         rows : SUBSET Cards, seen : [Cards -> Meta]]
NothingSeen == [c \in Cards |-> Absent]
Idle == [step |-> "idle", kind |-> "batch", scope |-> {}, rows |-> {},
         seen |-> NothingSeen]

\* Faulty variant, the bug not_triaged_filter's docstring tells of: a card with no
\* triage status yet falls out of the filter.
PendingOnceStamped(m) == m.status = "resolved"

\* not_triaged_filter, _handled_with_suggestion, _is_resolved
Pending(m)    == m.status \in {"new", "resolved"}
Handled(m)    == m.status = "triaged" /\ m.complete
IsResolved(m) == m.status = "resolved" \/ m.resolved

TypeOK ==
    /\ card \in [Cards -> Meta]
    /\ lease \in BOOLEAN
    /\ fixLease \subseteq Cards
    /\ queue \subseteq Message
    /\ proc \in [Procs -> Proc]
    /\ done \in [Cards -> 0..MaxDone]
    /\ torn \subseteq Cards

Init ==
    /\ card = NothingSeen
    /\ lease = FALSE
    /\ fixLease = {}
    /\ queue = {}
    /\ proc = [p \in Procs |-> Idle]
    /\ done = [c \in Cards |-> 0]
    /\ torn = {}

-----------------------------------------------------------------------------
(* Dispatch *)

\* acquire_dispatch_lease, then the enqueue after commit
Dispatch == ~lease /\ lease' = TRUE /\ queue' = queue \cup {Batch}

\* The card of a raised finding is filed once; the specialist is dispatched at
\* once unless the lease is held or the AI gate is closed.
File(c) ==
    /\ card[c].status = "absent"
    /\ card' = [card EXCEPT ![c] = [status |-> "new", complete |-> FALSE,
                                    resolved |-> FALSE]]
    /\ Dispatch \/ UNCHANGED <<lease, queue>>
    /\ UNCHANGED <<fixLease, proc, done, torn>>

Cadence ==
    /\ \E c \in Cards : Pending(card[c])
    /\ Dispatch
    /\ UNCHANGED <<card, fixLease, proc, done, torn>>

\* The lease is taken but the process dies, or the broker is down, before the
\* message is out.
EnqueueLost ==
    /\ Dies
    /\ ~lease /\ lease' = TRUE
    /\ \E c \in Cards : Pending(card[c])
    /\ UNCHANGED <<card, fixLease, queue, proc, done, torn>>

\* The lease is never released: it expires, while the run it was taken for may
\* still be waiting or working (240s against a hard limit of 450s).
LeaseExpires ==
    /\ lease
    /\ lease' = FALSE
    /\ UNCHANGED <<card, fixLease, queue, proc, done, torn>>

FixLeaseExpires(c) ==
    /\ c \in fixLease
    /\ fixLease' = fixLease \ {c}
    /\ UNCHANGED <<card, lease, queue, proc, done, torn>>

-----------------------------------------------------------------------------
(* A process *)

\* The stamp's first query: the metadata of the pending cards it is to mark.
ReadRows(p, kind, scope) ==
    proc' = [proc EXCEPT ![p] =
        LET rows == {c \in scope : Pending(card[c])}
        IN  [step |-> "stamping", kind |-> kind, scope |-> scope, rows |-> rows,
             seen |-> [c \in Cards |-> IF c \in rows THEN card[c] ELSE Absent]]]

GoTo(p, step, rows) ==
    proc' = [proc EXCEPT ![p] =
        [step |-> step, kind |-> proc[p].kind, scope |-> proc[p].scope,
         rows |-> rows, seen |-> NothingSeen]]

\* The operator's button: an HTTP request that stamps the card before it enqueues.
Press(p, c) ==
    /\ proc[p] = Idle
    /\ card[c].status # "absent"
    /\ c \notin fixLease
    /\ fixLease' = fixLease \cup {c}
    /\ ReadRows(p, "request", {c})
    /\ UNCHANGED <<card, lease, queue, done, torn>>

Take(p, m) ==
    /\ proc[p] = Idle
    /\ m \in queue
    /\ queue' = queue \ {m}
    /\ ReadRows(p, m.kind, m.scope)
    /\ UNCHANGED <<card, lease, fixLease, done, torn>>

\* The stamp's second query writes back what the first one read.
StampWrite(p) ==
    /\ proc[p].step = "stamping"
    /\ card' = [c \in Cards |-> IF c \in proc[p].rows THEN proc[p].seen[c] ELSE card[c]]
    /\ torn' = torn \cup {c \in proc[p].rows : card[c] # proc[p].seen[c]}
    /\ IF proc[p].kind = "request"
       THEN /\ proc' = [proc EXCEPT ![p] = Idle]
            /\ queue' = queue \cup {[kind |-> "fix", scope |-> proc[p].scope]}
       ELSE /\ GoTo(p, "stamped", {})
            /\ UNCHANGED queue
    /\ UNCHANGED <<lease, fixLease, done>>

\* A batch run lists the pending cards; a run for one card is pinned to it, and
\* is skipped when the card already has its fix.
List(p) ==
    /\ proc[p].step = "stamped"
    /\ GoTo(p, "working",
            {c \in proc[p].scope : IF proc[p].kind = "batch" THEN Pending(card[c])
                                                             ELSE ~Handled(card[c])})
    /\ UNCHANGED <<card, lease, fixLease, queue, done, torn>>

\* The specialist starts on a card that is not handled yet and gets its advice.
Begin(p, c) ==
    /\ proc[p].step = "working"
    /\ c \in proc[p].rows
    /\ ~Handled(card[c])
    /\ proc' = [proc EXCEPT ![p] =
           [step |-> "advised", kind |-> proc[p].kind, scope |-> proc[p].scope,
            rows |-> proc[p].rows, seen |-> [NothingSeen EXCEPT ![c] = card[c]]]]
    /\ UNCHANGED <<card, lease, fixLease, queue, done, torn>>

\* The card whose advice the process holds.
Advising(p, c) == proc[p].step = "advised" /\ proc[p].seen[c] # Absent

\* Faulty variant: the triage write builds the metadata anew.
TriageAfresh(c, complete) ==
    /\ card' = [card EXCEPT ![c] = [status |-> "triaged", complete |-> complete,
                                    resolved |-> FALSE]]
    /\ done' = IF complete /\ done[c] < MaxDone
               THEN [done EXCEPT ![c] = done[c] + 1] ELSE done

\* Under the row lock, the first run to arrive comments, moves and stamps the
\* card; the advice may or may not be what the card's source needs.
Triage(c, complete) ==
    /\ card' = [card EXCEPT ![c] = [status |-> "triaged", complete |-> complete,
                                    resolved |-> card[c].resolved]]
    /\ done' = IF complete /\ done[c] < MaxDone
               THEN [done EXCEPT ![c] = done[c] + 1] ELSE done

\* Faulty variant: no second check under the lock.
CommitUnchecked(p, c) ==
    /\ Advising(p, c)
    /\ \E complete \in BOOLEAN : Triage(c, complete)
    /\ GoTo(p, "working", proc[p].rows \ {c})
    /\ UNCHANGED <<lease, fixLease, queue, torn>>

Commit(p, c) ==
    /\ Advising(p, c)
    /\ IF Handled(card[c]) THEN UNCHANGED <<card, done>>
       ELSE \E complete \in BOOLEAN : Triage(c, complete)
    /\ GoTo(p, "working", proc[p].rows \ {c})
    /\ UNCHANGED <<lease, fixLease, queue, torn>>

\* The run ends, finished or out of budget.
Finish(p) ==
    /\ proc[p].step = "working"
    /\ proc' = [proc EXCEPT ![p] = Idle]
    /\ UNCHANGED <<card, lease, fixLease, queue, done, torn>>

\* Faulty variant: whatever the process was doing is queued again.
DieRequeues(p) ==
    /\ Dies
    /\ proc[p] # Idle
    /\ proc' = [proc EXCEPT ![p] = Idle]
    /\ queue' = queue \cup {[kind |-> proc[p].kind, scope |-> proc[p].scope]}
    /\ UNCHANGED <<card, lease, fixLease, done, torn>>

\* The process dies; a task is redelivered, a web request is lost.
Die(p) ==
    /\ Dies
    /\ proc[p] # Idle
    /\ proc' = [proc EXCEPT ![p] = Idle]
    /\ queue' = IF proc[p].kind = "request" THEN queue
                ELSE queue \cup {[kind |-> proc[p].kind, scope |-> proc[p].scope]}
    /\ UNCHANGED <<card, lease, fixLease, done, torn>>

-----------------------------------------------------------------------------
(* The remediation reconciler resolves a card whose draft pull request merged. *)

Resolve(c) ==
    /\ Resolves
    /\ card[c].status = "triaged"
    /\ ~IsResolved(card[c])
    /\ card' = [card EXCEPT ![c] = [status |-> "resolved",
                                    complete |-> card[c].complete, resolved |-> TRUE]]
    /\ UNCHANGED <<lease, fixLease, queue, proc, done, torn>>

ProcStep(p) ==
    \/ \E c \in Cards : Press(p, c) \/ Begin(p, c) \/ Commit(p, c)
    \/ \E m \in queue : Take(p, m)
    \/ StampWrite(p) \/ List(p) \/ Finish(p) \/ Die(p)

Next ==
    \/ \E c \in Cards : File(c) \/ FixLeaseExpires(c) \/ Resolve(c)
    \/ \E p \in Procs : ProcStep(p)
    \/ Cadence \/ EnqueueLost \/ LeaseExpires

Spec == Init /\ [][Next]_vars

-----------------------------------------------------------------------------
(* Fairness: leases expire, workers take messages and finish what they do.  *)
(* Deaths and lost enqueues do not repeat for ever, and the specialist does *)
(* not give up before the same card every time it is listed.                *)

Fairness ==
    /\ WF_vars(LeaseExpires)
    /\ SF_vars(Cadence)
    /\ SF_vars(\E p \in Procs : Take(p, Batch))
    /\ \A p \in Procs : WF_vars(StampWrite(p)) /\ WF_vars(List(p)) /\ WF_vars(Finish(p))
    /\ SF_vars(\E p \in Procs : proc[p].kind = "batch" /\ StampWrite(p))
    /\ SF_vars(\E p \in Procs : proc[p].kind = "batch" /\ List(p))
    /\ \A c \in Cards : /\ SF_vars(\E p \in Procs : Begin(p, c))
                        /\ SF_vars(\E p \in Procs : Commit(p, c))

FairSpec == Spec /\ Fairness

-----------------------------------------------------------------------------
(* Properties *)

\* "The first through the lock acts" (_finding_processing.py): a card that has its
\* fix is not commented again, and only a stamp that overwrites newer metadata or
\* a resolution takes the fix away, however many runs overlap.
FirstRunWins ==
    [][\A c \in Cards : Handled(card[c]) =>
        /\ done'[c] = done[c]
        /\ Handled(card'[c]) \/ card'[c].status = "resolved" \/ c \in torn']_vars

\* What the row lock does guarantee: a card gets a second commented fix only after
\* the unlocked stamp overwrote it or after it had been resolved.
SecondFixNeedsCause ==
    \A c \in Cards : done[c] > 1 => c \in torn \/ IsResolved(card[c])

\* A resolution is lost only to the unlocked stamp.
ResolutionSticks ==
    [][\A c \in Cards : IsResolved(card[c]) => IsResolved(card'[c]) \/ c \in torn']_vars

\* Every filed card is triaged: no lost enqueue, death, held lease or filter
\* leaves it waiting.
EveryCardTriaged ==
    \A c \in Cards : card[c].status = "new" ~> card[c].status # "new"

\* _finding_processing.py:270 "the board mutation below re-locks and re-checks so
\* we never double-comment".
NeverDoubleComments == \A c \in Cards : done[c] <= 1

\* finding_triage_state_query.py:218 "The next scheduled pass will retry with
\* fresh context": a card without a fix is worked on again by a batch run.
WithoutFix(c) == card[c].status = "triaged" /\ ~card[c].complete
NoFixIsRetried ==
    \A c \in Cards : WithoutFix(c) ~> \/ ~WithoutFix(c)
                                      \/ \E p \in Procs : Advising(p, c)

=============================================================================
