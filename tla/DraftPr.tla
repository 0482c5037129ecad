------------------------------- MODULE DraftPr -------------------------------
(***************************************************************************)
(* The draft pull requests of one repository's code-security findings      *)
(* (components/integrations, components/agents, components/project).       *)
(* Triage hands a finding to a Celery task; the task passes the gates,     *)
(* among them the cap on open pull requests, then creates a branch, opens  *)
(* the pull request and records it on the finding's card.  A refusal is    *)
(* recorded on the card too.  People merge or close on the code host; the  *)
(* reconciler (components/remediation), on schedule and on a webhook,      *)
(* resolves what merged and asks for a scan that verifies it; an hourly    *)
(* sweep marks what was closed and hands the freed slot to one waiting     *)
(* finding.  A sweep asks the host about a few pull requests only, those   *)
(* of the newest cards that no earlier sweep has marked.                   *)
(*                                                                         *)
(* Recording and marking read the card and later write its whole metadata  *)
(* back, with no lock; a refusal and a resolution hold the row lock.       *)
(***************************************************************************)
EXTENDS Naturals, FiniteSets

CONSTANTS
    Findings,   \* findings, numbered by falling severity
    Workers,    \* worker slots that open pull requests
    Reconcilers,  \* reconcile_applied_remediations tasks that overlap
    Limit,      \* CODE_SECURITY_MAX_OPEN_DRAFT_PRS
    Place,      \* of each finding in the sweep's list, the newest card first
    Checks,     \* how many checks a sweep may have for this repository: what
                \* others leave it of _MAX_STATE_CHECKS_PER_SWEEP
    Faults      \* workers and sweeps die, the host fails, branches are deleted

ASSUME ConstantsAssumption ==
    /\ Findings \subseteq Nat /\ Findings # {}
    /\ IsFiniteSet(Findings) /\ IsFiniteSet(Workers)
    /\ Limit \in Nat \ {0}
    /\ Place \in [Findings -> Nat]
    /\ \A f, g \in Findings : Place[f] = Place[g] => f = g
    /\ Checks \subseteq Nat /\ Checks # {}
    /\ Faults \in BOOLEAN

VARIABLES
    card,       \* the metadata column of each finding's card
    tasks,      \* findings with an auto_draft_pr_for_finding message waiting
    work,       \* what each worker is doing
    sweep,      \* release_rejected_draft_prs
    recon,      \* reconcile_applied_remediations: findings to check, rescans it owes
    verified,   \* history: findings for whose resolution a rescan was requested
    missed,     \* history: resolutions whose request a fault lost
    branch,     \* code host: findings whose branch exists
    pr,         \* code host: the last pull request of each finding
    opened,     \* history: pull requests opened (counted to MaxOpened)
    deleted     \* history: findings whose branch somebody deleted

hostVars == <<branch, pr, opened, deleted>>
reconVars == <<recon, verified, missed>>
vars == <<card, tasks, work, sweep, reconVars, hostVars>>

MaxOpened == 2

Meta == [triage : {"new", "triaged", "resolved"},
         url : BOOLEAN, closed : BOOLEAN, blocked : BOOLEAN]
NewCard == [triage |-> "new", url |-> FALSE, closed |-> FALSE, blocked |-> FALSE]
PrState == {"none", "open", "merged", "closed"}

\* seen: the metadata a writer read and is to write back
Work == [step : {"idle", "gated", "branched", "opened", "recording", "refused"},
         finding : Findings, seen : Meta]
Idle == [step |-> "idle", finding |-> CHOOSE f \in Findings : TRUE, seen |-> NewCard]

\* todo: listed and not checked yet; released: this run freed a slot
NothingSeen == [f \in Findings |-> NewCard]
SweepState == [step : {"idle", "checking", "marking"}, todo : SUBSET Findings,
               seen : [Findings -> Meta], released : BOOLEAN]
NoSweep == [step |-> "idle", todo |-> {}, seen |-> NothingSeen, released |-> FALSE]

\* owed: findings this run resolved; its repository gets one rescan for them all
Recon == [step : {"idle", "looping"}, todo : SUBSET Findings, owed : SUBSET Findings]
NoRecon == [step |-> "idle", todo |-> {}, owed |-> {}]

TypeOK ==
    /\ card \in [Findings -> Meta]
    /\ tasks \subseteq Findings
    /\ work \in [Workers -> Work]
    /\ sweep \in SweepState
    /\ recon \in [Reconcilers -> Recon]
    /\ verified \subseteq Findings /\ missed \subseteq Findings
    /\ branch \subseteq Findings
    /\ pr \in [Findings -> PrState]
    /\ opened \in [Findings -> 0..MaxOpened]
    /\ deleted \subseteq Findings

Init ==
    /\ card = [f \in Findings |-> NewCard]
    /\ tasks = {}
    /\ work = [w \in Workers |-> Idle]
    /\ sweep = NoSweep
    /\ recon = [r \in Reconcilers |-> NoRecon]
    /\ verified = {} /\ missed = {}
    /\ branch = {}
    /\ pr = [f \in Findings |-> "none"]
    /\ opened = [f \in Findings |-> 0]
    /\ deleted = {}

\* Faulty variant, the bug draft_pr_retry_tasks.py:3-10 tells of: a pull request
\* holds its slot until the finding is resolved, though it was closed.
CountedUntilResolved(m) == m.url /\ m.triage # "resolved"

\* count_open_draft_prs: recorded, unresolved and not marked closed
Counted(m) == m.url /\ m.triage # "resolved" /\ ~m.closed
Open == {f \in Findings : Counted(card[f])}

-----------------------------------------------------------------------------
(* Hand-offs *)

\* The triage write commits and hands the finding off.
Triaged(f) ==
    /\ card[f].triage = "new"
    /\ card' = [card EXCEPT ![f].triage = "triaged"]
    /\ tasks' = tasks \cup {f}
    /\ UNCHANGED <<work, sweep, reconVars, hostVars>>

\* An operator asks for the fix of a triaged finding with no pull request.
Request(f) ==
    /\ card[f].triage = "triaged" /\ ~card[f].url
    /\ tasks' = tasks \cup {f}
    /\ UNCHANGED <<card, work, sweep, reconVars, hostVars>>

-----------------------------------------------------------------------------
(* A worker opening a pull request *)

Step(w, step, f, seen) ==
    work' = [work EXCEPT ![w] = [step |-> step, finding |-> f, seen |-> seen]]

At(w, step) == work[w].step = step
Finding(w)  == work[w].finding

\* Faulty variant: an off-by-one in the cap.
GateOffByOne(w, f) ==
    /\ work[w] = Idle
    /\ f \in tasks
    /\ tasks' = tasks \ {f}
    /\ IF card[f].url THEN UNCHANGED work
       ELSE IF card[f].triage = "triaged" /\ Cardinality(Open) <= Limit
            THEN Step(w, "gated", f, NewCard)
            ELSE Step(w, "refused", f, NewCard)
    /\ UNCHANGED <<card, sweep, reconVars, hostVars>>

\* The task takes its message and runs the engine's preconditions: a recorded
\* pull request ends it, an untriaged finding or a full window refuses it.
Gate(w, f) ==
    /\ work[w] = Idle
    /\ f \in tasks
    /\ tasks' = tasks \ {f}
    /\ IF card[f].url THEN UNCHANGED work
       ELSE IF card[f].triage = "triaged" /\ Cardinality(Open) < Limit
            THEN Step(w, "gated", f, NewCard)
            ELSE Step(w, "refused", f, NewCard)
    /\ UNCHANGED <<card, sweep, reconVars, hostVars>>

\* No valid patch, or an error of the host.
Refuse(w) ==
    /\ Faults
    /\ At(w, "gated") \/ At(w, "branched")
    /\ Step(w, "refused", Finding(w), NewCard)
    /\ UNCHANGED <<card, tasks, sweep, reconVars, hostVars>>

\* Faulty variant: a branch that exists already is reused.
ReuseBranch(w) ==
    /\ At(w, "gated")
    /\ Step(w, "branched", Finding(w), NewCard)
    /\ branch' = branch \cup {Finding(w)}
    /\ UNCHANGED <<card, tasks, sweep, pr, opened, deleted, reconVars>>

\* The branch name is the finding's: the host refuses to create it twice.
CreateBranch(w) ==
    /\ At(w, "gated")
    /\ IF Finding(w) \in branch
       THEN Step(w, "refused", Finding(w), NewCard) /\ UNCHANGED branch
       ELSE /\ Step(w, "branched", Finding(w), NewCard)
            /\ branch' = branch \cup {Finding(w)}
    /\ UNCHANGED <<card, tasks, sweep, pr, opened, deleted, reconVars>>

\* The host accepts a pull request from a branch that is there and has none open.
HostAccepts(f) == f \in branch /\ pr[f] # "open"

\* The commit and the pull request.
OpenPr(w) ==
    /\ At(w, "branched")
    /\ IF HostAccepts(Finding(w))
       THEN /\ Step(w, "opened", Finding(w), NewCard)
            /\ pr' = [pr EXCEPT ![Finding(w)] = "open"]
            /\ opened' = [opened EXCEPT ![Finding(w)] =
                             IF opened[Finding(w)] < MaxOpened
                             THEN opened[Finding(w)] + 1 ELSE MaxOpened]
       ELSE /\ Step(w, "refused", Finding(w), NewCard)
            /\ UNCHANGED <<pr, opened>>
    /\ UNCHANGED <<card, tasks, sweep, branch, deleted, reconVars>>

\* record_draft_pr: reads the card, keeps the record of a concurrent open ...
RecordRead(w) ==
    /\ At(w, "opened")
    /\ IF card[Finding(w)].url
       THEN work' = [work EXCEPT ![w] = Idle]
       ELSE Step(w, "recording", Finding(w), card[Finding(w)])
    /\ UNCHANGED <<card, tasks, sweep, reconVars, hostVars>>

\* Faulty variant: the refusal an earlier attempt left on the card stays.
RecordKeepsRefusal(w) ==
    /\ At(w, "recording")
    /\ card' = [card EXCEPT ![Finding(w)] =
           [work[w].seen EXCEPT !.url = TRUE, !.closed = FALSE]]
    /\ work' = [work EXCEPT ![w] = Idle]
    /\ UNCHANGED <<tasks, sweep, reconVars, hostVars>>

\* ... and writes back what it read, with the record and without the refusal.
RecordWrite(w) ==
    /\ At(w, "recording")
    /\ card' = [card EXCEPT ![Finding(w)] =
           [triage |-> work[w].seen.triage, url |-> TRUE, closed |-> FALSE,
            blocked |-> FALSE]]
    /\ work' = [work EXCEPT ![w] = Idle]
    /\ UNCHANGED <<tasks, sweep, reconVars, hostVars>>

\* _record_draft_pr_blocked, under the row lock
RecordBlocked(w) ==
    /\ At(w, "refused")
    /\ card' = [card EXCEPT ![Finding(w)].blocked = TRUE]
    /\ work' = [work EXCEPT ![w] = Idle]
    /\ UNCHANGED <<tasks, sweep, reconVars, hostVars>>

\* The worker dies: a lost one's message is redelivered, one killed at its time
\* limit has used its message up.
Die(w) ==
    /\ Faults
    /\ work[w] # Idle
    /\ work' = [work EXCEPT ![w] = Idle]
    /\ \E again \in {{}, {Finding(w)}} : tasks' = tasks \cup again
    /\ UNCHANGED <<card, sweep, reconVars, hostVars>>

-----------------------------------------------------------------------------
(* The code host *)

Merge(f) == pr[f] = "open" /\ pr' = [pr EXCEPT ![f] = "merged"]
Close(f) == pr[f] = "open" /\ pr' = [pr EXCEPT ![f] = "closed"]

Decide(f) ==
    /\ Merge(f) \/ Close(f)
    /\ UNCHANGED <<card, tasks, work, sweep, branch, opened, deleted, reconVars>>

\* Somebody deletes the branch of a decided pull request, or a stray one.
DeleteBranch(f) ==
    /\ Faults
    /\ f \in branch
    /\ pr[f] # "open"
    /\ branch' = branch \ {f}
    /\ deleted' = deleted \cup {f}
    /\ UNCHANGED <<card, tasks, work, sweep, pr, opened, reconVars>>

-----------------------------------------------------------------------------
(* Settling *)

Looping(r, todo, owed) ==
    recon' = [recon EXCEPT ![r] = [step |-> "looping", todo |-> todo, owed |-> owed]]

\* _iter_candidate_tasks: recorded and not yet resolved
Candidates == {f \in Findings : card[f].url /\ card[f].triage # "resolved"}

ReconStart(r) ==
    /\ recon[r] = NoRecon
    /\ Candidates # {}
    /\ Looping(r, Candidates, {})
    /\ UNCHANGED <<card, tasks, work, sweep, verified, missed, hostVars>>

\* The pull request has not merged, or the host or the database fails.
ReconSkip(r, f) ==
    /\ f \in recon[r].todo
    /\ Faults \/ pr[f] # "merged"
    /\ Looping(r, recon[r].todo \ {f}, recon[r].owed)
    /\ UNCHANGED <<card, tasks, work, sweep, verified, missed, hostVars>>

\* Faulty variant: a merge earns the rescan, whoever resolved the finding.
ReconcileOnMerge(r, f) ==
    /\ f \in recon[r].todo
    /\ pr[f] = "merged"
    /\ card' = [card EXCEPT ![f].triage = "resolved"]
    /\ Looping(r, recon[r].todo \ {f}, recon[r].owed \cup {f})
    /\ UNCHANGED <<tasks, work, sweep, verified, missed, hostVars>>

\* Faulty variant: the rescan is noted after the capture, which may fail.
ReconcileAfterCapture(r, f) ==
    /\ f \in recon[r].todo
    /\ pr[f] = "merged"
    /\ card' = [card EXCEPT ![f].triage = "resolved"]
    /\ \E new \in SUBSET {g \in {f} : card[g].triage # "resolved"} :
          Looping(r, recon[r].todo \ {f}, recon[r].owed \cup new)
    /\ UNCHANGED <<tasks, work, sweep, verified, missed, hostVars>>

\* A merged pull request resolves its finding under the row lock; a resolution
\* that is new earns the repository a rescan.
Reconcile(r, f) ==
    /\ f \in recon[r].todo
    /\ pr[f] = "merged"
    /\ card' = [card EXCEPT ![f].triage = "resolved"]
    /\ Looping(r, recon[r].todo \ {f},
               recon[r].owed \cup {g \in {f} : card[g].triage # "resolved"})
    /\ UNCHANGED <<tasks, work, sweep, verified, missed, hostVars>>

\* After the loop: the request is sent, or the broker refuses it.
ReconEnd(r) ==
    /\ recon[r].step = "looping" /\ recon[r].todo = {}
    /\ recon' = [recon EXCEPT ![r] = NoRecon]
    /\ \/ verified' = verified \cup recon[r].owed /\ UNCHANGED missed
       \/ Faults /\ missed' = missed \cup recon[r].owed /\ UNCHANGED verified
    /\ UNCHANGED <<card, tasks, work, sweep, hostVars>>

\* The task dies; the next one starts from the cards.
ReconDies(r) ==
    /\ Faults
    /\ recon[r] # NoRecon
    /\ recon' = [recon EXCEPT ![r] = NoRecon]
    /\ missed' = missed \cup recon[r].owed
    /\ UNCHANGED <<card, tasks, work, sweep, verified, hostVars>>

Sweep(step, todo, seen, released) ==
    sweep' = [step |-> step, todo |-> todo, seen |-> seen, released |-> released]

\* What a sweep asks the host about: a record that is not marked closed.  A merged
\* pull request's is never marked, so every sweep asks about it again.
Unsettled == {f \in Findings : card[f].url /\ ~card[f].closed}
Before(f) == {g \in Findings : Place[g] < Place[f]}

\* The records are listed; the first of them take the checks this sweep has left.
SweepStart ==
    /\ sweep = NoSweep
    /\ Unsettled # {}
    /\ \E n \in Checks :
          Sweep("checking", {f \in Unsettled : Cardinality(Before(f) \cap Unsettled) < n},
                NothingSeen, FALSE)
    /\ UNCHANGED <<card, tasks, work, reconVars, hostVars>>

\* The host says the pull request is closed: mark_draft_pr_rejected reads the card.
SweepRead(f) ==
    /\ sweep.step = "checking"
    /\ f \in sweep.todo
    /\ pr[f] = "closed"
    /\ card[f].url /\ ~card[f].closed
    /\ Sweep("marking", sweep.todo \ {f},
             [NothingSeen EXCEPT ![f] = card[f]], sweep.released)
    /\ UNCHANGED <<card, tasks, work, reconVars, hostVars>>

\* The pull request is open or merged, or marked already, or the host is down.
SweepSkip(f) ==
    /\ sweep.step = "checking"
    /\ f \in sweep.todo
    /\ Faults \/ pr[f] # "closed" \/ ~card[f].url \/ card[f].closed
    /\ Sweep("checking", sweep.todo \ {f}, sweep.seen, sweep.released)
    /\ UNCHANGED <<card, tasks, work, reconVars, hostVars>>

\* Faulty variant: the rejected record is erased so that the finding is retried.
SweepErases(f) ==
    /\ sweep.step = "marking"
    /\ sweep.seen[f] # NewCard
    /\ card' = [card EXCEPT ![f] = [sweep.seen[f] EXCEPT !.url = FALSE]]
    /\ Sweep("checking", sweep.todo, NothingSeen, TRUE)
    /\ UNCHANGED <<tasks, work, reconVars, hostVars>>

\* Faulty variant: the pull request's state lands in the triage status.
SweepMisfiles(f) ==
    /\ sweep.step = "marking"
    /\ sweep.seen[f] # NewCard
    /\ card' = [card EXCEPT ![f] = [sweep.seen[f] EXCEPT !.triage = "closed"]]
    /\ Sweep("checking", sweep.todo, NothingSeen, TRUE)
    /\ UNCHANGED <<tasks, work, reconVars, hostVars>>

\* The card read is written back as closed; nothing else of it changes.
SweepMark(f) ==
    /\ sweep.step = "marking"
    /\ sweep.seen[f] # NewCard
    /\ card' = [card EXCEPT ![f] = [triage |-> sweep.seen[f].triage, url |-> TRUE,
                                    closed |-> TRUE, blocked |-> sweep.seen[f].blocked]]
    /\ Sweep("checking", sweep.todo, NothingSeen, TRUE)
    /\ UNCHANGED <<tasks, work, reconVars, hostVars>>

\* _refill_freed_slots: if this sweep freed a slot, one waiting finding of the
\* repository, the most severe, is handed to the engine again.  (That others use up
\* _MAX_RETRIES_PER_SWEEP first is SweepDies: nothing is handed on.)
Waiting == {f \in Findings : card[f].triage = "triaged" /\ ~card[f].url}
Refill ==
    tasks' = IF sweep.released
             THEN tasks \cup {f \in Waiting : \A g \in Waiting : f <= g}
             ELSE tasks

SweepEnd ==
    /\ sweep.step = "checking"
    /\ sweep.todo = {}
    /\ Refill
    /\ sweep' = NoSweep
    /\ UNCHANGED <<card, work, reconVars, hostVars>>

SweepDies ==
    /\ Faults
    /\ sweep # NoSweep
    /\ sweep' = NoSweep
    /\ UNCHANGED <<card, tasks, work, reconVars, hostVars>>

WorkerStep(w) ==
    \/ \E f \in Findings : Gate(w, f)
    \/ Refuse(w) \/ CreateBranch(w) \/ OpenPr(w) \/ RecordRead(w) \/ RecordWrite(w)
    \/ RecordBlocked(w) \/ Die(w)

ReconStep(r) ==
    \/ ReconStart(r) \/ ReconEnd(r) \/ ReconDies(r)
    \/ \E f \in Findings : ReconSkip(r, f) \/ Reconcile(r, f)

SweepStep ==
    \/ SweepStart \/ SweepEnd \/ SweepDies
    \/ \E f \in Findings : SweepRead(f) \/ SweepSkip(f) \/ SweepMark(f)

Next ==
    \/ \E f \in Findings : \/ Triaged(f) \/ Request(f) \/ Decide(f) \/ DeleteBranch(f)
    \/ \E w \in Workers : WorkerStep(w)
    \/ \E r \in Reconcilers : ReconStep(r)
    \/ SweepStep

Spec == Init /\ [][Next]_vars

\* Workers and the two periodic tasks run; a periodic task does not die, and the
\* host does not fail it, for ever; people decide on every pull request.  A record
\* that a sweep has no check for is not in todo, and nothing is assumed of it.
Fairness ==
    /\ \A w \in Workers : WF_vars(WorkerStep(w))
    /\ WF_vars(SweepStart) /\ SF_vars(SweepEnd)
    /\ \A r \in Reconcilers :
          /\ WF_vars(ReconStart(r)) /\ WF_vars(ReconEnd(r))
          /\ \A f \in Findings : WF_vars(ReconSkip(r, f)) /\ SF_vars(Reconcile(r, f))
    /\ \A f \in Findings :
          /\ WF_vars(Decide(f))
          /\ WF_vars(SweepSkip(f)) /\ SF_vars(SweepRead(f)) /\ SF_vars(SweepMark(f))

FairSpec == Spec /\ Fairness

-----------------------------------------------------------------------------
(* Properties *)

\* The cap on open pull requests (_require_sast_gates) is checked before the open
\* and counted after it: concurrent workers overshoot it, by at most one each.
BoundedOvershoot == Cardinality(Open) <= Limit + Cardinality(Workers) - 1

\* "A duplicate dispatch can never open a second PR" (auto_draft_pr_for_finding):
\* true as long as nobody deletes the finding's branch, redeliveries and deaths
\* between the open and its record included.
OnePrPerFinding == \A f \in Findings : opened[f] <= 1 \/ f \in deleted

\* "The rejected attempt is KEPT, not erased" (draft_pr_retry_tasks.py): a
\* recorded pull request stays recorded, and one marked closed stays closed unless
\* a second pull request of the finding took its place.  The record and the mark are
\* the only unlocked writers here; the dispatch stamp, which erases records too
\* (finding_dispatch_service.py:341), is outside this module.
RecordsAreKept ==
    [][\A f \in Findings : card[f].url =>
        card'[f].url /\ (card[f].closed => card'[f].closed \/ opened[f] > 1)]_vars

\* "A card can never read blocked AND opened at once" (record_draft_pr's comment):
\* it comes to read so only when a worker's refusal lands on a card that another
\* attempt recorded on meanwhile, or after a second pull request of the finding.
\* Neither a record over an old refusal nor a sweep's stale write makes one.
OnlyLateRefusalBlocks ==
    [][\A f \in Findings :
        card'[f].url /\ card'[f].blocked /\ ~(card[f].url /\ card[f].blocked) =>
            /\ card[f].url
            /\ \/ \E w \in Workers : At(w, "refused") /\ Finding(w) = f
               \/ opened[f] > 1]_vars

\* "A NEW resolved transition ... earns ONE verification rescan"; a re-run, or "a
\* webhook racing the beat, never re-fires a rescan" (the reconciler's loop guard):
\* nobody owes a request for a resolution that somebody else owes or has made,
\* unless a second pull request's record put the card back.
OneRescanPerResolution ==
    \A r \in Reconcilers : \A f \in recon[r].owed :
        \/ f \notin verified \cup missed /\ \A q \in Reconcilers \ {r} : f \notin recon[q].owed
        \/ opened[f] > 1

\* A resolved finding's rescan was asked for or lost, or a reconciler still at work
\* owes it: also where two runs race for one row, a stale record or mark writes a
\* resolution back, or the loop is cut short.
ResolutionIsOwed ==
    \A f \in Findings : card[f].triage = "resolved" =>
        \/ f \in verified \cup missed
        \/ \E r \in Reconcilers : f \in recon[r].owed

\* The rescan a resolution earned is requested, whatever else goes wrong in the
\* loop; only the death of the very task, or the broker, loses it.
ResolutionIsVerified ==
    \A f \in Findings : card[f].triage = "resolved" ~> f \in verified \cup missed

\* Closed, and no sweep has read it back, nor has one a check for it.
PassedOver(f) == pr[f] = "closed" /\ f \in Unsettled /\ f \notin sweep.todo

\* A recorded pull request that people merged or closed stops holding its slot, but for
\* a closed one that every sweep from some time on passes over, its checks used up by
\* the records of newer cards, the merged ones included, or by other repositories.
DecidedFreesTheSlot ==
    \A f \in Findings :
        card[f].url /\ pr[f] \in {"merged", "closed"} ~> ~Counted(card[f]) \/ []PassedOver(f)

\* draft_pr_retry_tasks.py:18 "for every repo now under its cap, re-dispatch the
\* highest-risk finding that has a fix and no PR. This is what makes the backlog
\* drain itself": a waiting finding gets its pull request.
BacklogDrains ==
    \A f \in Findings : f \in Waiting ~> f \notin Waiting

=============================================================================
