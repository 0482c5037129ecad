----------------------------- MODULE WorkflowRun -----------------------------
(***************************************************************************)
(* One run of a workflow (components/workflow): Celery tasks walk a graph  *)
(* one node at a time, keeping a row per step and a row for the run.  The  *)
(* step row is locked when it is claimed; every other write is a save of a *)
(* few columns, whatever has become of the row since it was read.  People  *)
(* cancel, pause, resume and retry the run, answer its decisions and       *)
(* decide on the e-mails an AI wrote for it (components/sign_off).         *)
(*                                                                         *)
(* Tasks are Celery messages.  A lost worker's message is delivered again; *)
(* so is one that was held for longer than the broker's visibility         *)
(* timeout, which the timers of long waits always are.                     *)
(***************************************************************************)
EXTENDS Naturals

CONSTANTS
    Nodes,      \* the nodes of a workflow
    NoNode,     \* no node
    Graphs,     \* the graphs a run may have: start, kind of each node, its edges
    Processes,  \* Celery workers and web requests
    MaxRequests, MaxFaults  \* bounds on what people ask, on deaths and second deliveries

Kinds == {"condition", "action", "email", "wait_until", "decision", "end"}
Graph == [start : Nodes, kind : [Nodes -> Kinds],
          yes : [Nodes -> Nodes \cup {NoNode}], no : [Nodes -> Nodes \cup {NoNode}]]

ASSUME ConstantsAssumption ==
    NoNode \notin Nodes /\ Graphs \subseteq Graph /\ {MaxRequests, MaxFaults} \subseteq Nat

VARIABLES
    graph,      \* the workflow's graph
    run,        \* WorkflowRun.status
    current,    \* WorkflowRun.current_node_id
    step,       \* WorkflowStepState.status; pending, too, if there is no row yet
    tasks,      \* messages that wait for a worker
    proc,       \* what each process is doing
    sent,       \* how often a node has acted on the world; not counted beyond 2
    took,       \* the branches a wait has taken
    lapses,     \* what has gone wrong so far
    requests, faults    \* how many there have been

vars == <<graph, run, current, step, tasks, proc, sent, took, lapses, requests, faults>>

Statuses == {"queued", "running", "paused", "completed", "failed", "canceled"}
Over     == {"completed", "canceled"}
Steps    == {"pending", "running", "waiting", "waiting_input", "completed", "failed"}

\* A branch task is for the node that the answered decision leads to.
Tasks    == [task : {"start", "step", "resolve", "branch", "complete"},
             node : Nodes \cup {NoNode}]
Task(t, n) == [task |-> t, node |-> n]
Request  == Task("request", NoNode)

Stages ==
    { "idle",
      "read",       \* the run has been read, and is to be worked on
      "claimed",    \* so has the step: found
      "chosen",     \* a wait is over, and is to take the branch to
      "executed",   \* the node has acted, and is to lead to
      "settled",    \* the step is completed, the run is to go to
      "failing", "parking",     \* the step has failed or is parked, the run is to be
      "sending" }   \* the message out is to be sent

\* stale: it was at work when the run ended.
Process == [at : Stages, task : Tasks \cup {Request}, node : Nodes \cup {NoNode}, found : Steps,
            to : Nodes \cup {NoNode}, out : Tasks \cup {Request}, stale : BOOLEAN]
Idle == [at |-> "idle", task |-> Request, node |-> NoNode, found |-> "pending",
         to |-> NoNode, out |-> Request, stale |-> FALSE]

Lapses ==
    { "died",       \* a process died in the middle of its work
      "shared",     \* a process entered a step that another was at
      "restarted",  \* a run that had been paused was started again
      "revived",    \* a run that was over went on
      "returned",   \* the run was sent to a node that it had completed
      "unsure",     \* an action failed although it took effect
      "astray" }    \* a person asked for what the run or the step was not ready for

TypeOK ==
    /\ graph \in Graphs
    /\ run \in Statuses
    /\ current \in Nodes \cup {NoNode}
    /\ step \in [Nodes -> Steps]
    /\ tasks \subseteq Tasks
    /\ proc \in [Processes -> Process]
    /\ sent \in [Nodes -> 0..2]
    /\ took \in [Nodes -> SUBSET BOOLEAN]
    /\ lapses \subseteq Lapses
    /\ requests \in 0..MaxRequests /\ faults \in 0..MaxFaults

Init ==
    /\ graph \in Graphs
    /\ run = "queued"
    /\ current = NoNode
    /\ step = [n \in Nodes |-> "pending"]
    /\ tasks = {Task("start", NoNode)}
    /\ proc = [p \in Processes |-> Idle]
    /\ sent = [n \in Nodes |-> 0]
    /\ took = [n \in Nodes |-> {}]
    /\ lapses = {}
    /\ requests = 0 /\ faults = 0

Kind(p) == graph.kind[proc[p].node]
Lapsed(l, happened) == IF happened THEN {l} ELSE {}
Lapse(l, happened) == lapses' = lapses \cup Lapsed(l, happened)
SetStep(n, s) == step' = [step EXCEPT ![n] = s]
At(p, stage)  == proc' = [proc EXCEPT ![p].at = stage]
Done(p)       == proc' = [proc EXCEPT ![p] = Idle]

OneMore(k)    == IF k < 2 THEN k + 1 ELSE 2

\* What a process still needs to know when the step is settled, and when all is written.
Settling(p, n) == [proc EXCEPT ![p] = [Idle EXCEPT !.at = "settled", !.task = proc[p].task,
                                                  !.to = n, !.stale = proc[p].stale]]
Sending(p, t)  == [proc EXCEPT ![p] = [Idle EXCEPT !.at = "sending", !.task = proc[p].task,
                                                  !.out = t]]

\* Those who are at work now do not know that the run is over.
Overtaken(q) == [e \in Processes |-> IF q[e].at = "idle" THEN q[e] ELSE [q[e] EXCEPT !.stale = TRUE]]

-----------------------------------------------------------------------------
(* Taking a task *)

\* Faulty variant: nobody looks whether the run is canceled.
HeedsCanceled(t) == IF t = "branch" THEN Statuses ELSE {"queued", "running", "paused", "canceled"}

\* Which states of the run a task goes to work on.
Heeds(t) ==
    CASE t = "start"    -> {"queued", "paused"}
      [] t = "step"     -> {"queued", "running"}
      [] t = "resolve"  -> {"running"}
      [] t = "branch"   -> Statuses
      [] t = "complete" -> Statuses \ Over

Fault == faults < MaxFaults /\ faults' = faults + 1

Delivered(m) ==
    \/ tasks' = tasks \ {m} /\ UNCHANGED faults
    \/ UNCHANGED tasks /\ Fault

Take(p, m) ==
    /\ proc[p].at = "idle"
    /\ m \in tasks
    /\ Delivered(m)
    /\ IF run \notin Heeds(m.task) THEN UNCHANGED proc
       ELSE proc' = [proc EXCEPT ![p] =
                IF m.task = "branch" THEN [Idle EXCEPT !.at = "settled", !.task = m, !.to = m.node]
                                     ELSE [Idle EXCEPT !.at = "read", !.task = m, !.node = m.node]]
    /\ UNCHANGED <<graph, run, current, step, sent, took, lapses, requests>>

\* workflow_run_start.
Start(p) ==
    /\ proc[p].at = "read" /\ proc[p].task.task = "start"
    /\ run' = "running"
    /\ current' = graph.start
    /\ proc' = Sending(p, Task("step", graph.start))
    /\ Lapse("restarted", current # NoNode)
    /\ UNCHANGED <<graph, step, tasks, sent, took, requests, faults>>

\* workflow_run_complete.
Complete(p) ==
    /\ proc[p].at = "read" /\ proc[p].task.task = "complete"
    /\ run' = "completed"
    /\ proc' = Overtaken([proc EXCEPT ![p] = Idle])
    /\ UNCHANGED <<graph, current, step, tasks, sent, took, lapses, requests, faults>>

-----------------------------------------------------------------------------
(* workflow_run_step *)

Inside(n) ==
    {p \in Processes : /\ proc[p].node = n
                       /\ proc[p].at \in {"claimed", "chosen", "executed", "failing", "parking"}}

\* Faulty variant: a completed step is entered again.
ClaimAgain(p) ==
    LET n == proc[p].node IN
    /\ proc[p].at = "read" /\ proc[p].task.task = "step"
    /\ SetStep(n, "running")
    /\ proc' = [proc EXCEPT ![p].at = "claimed", ![p].found = "running"]
    /\ Lapse("shared", Inside(n) # {})
    /\ UNCHANGED <<graph, run, current, tasks, sent, took, requests, faults>>

\* Under the row lock: a completed step is left alone, a pending one is entered.
Claim(p) ==
    LET n == proc[p].node IN
    /\ proc[p].at = "read" /\ proc[p].task.task = "step"
    /\ IF step[n] = "completed"
       THEN Done(p) /\ UNCHANGED <<step, lapses>>
       ELSE LET s == IF step[n] = "pending" THEN "running" ELSE step[n] IN
            /\ SetStep(n, s)
            /\ proc' = [proc EXCEPT ![p].at = "claimed", ![p].found = s]
            /\ Lapse("shared", s # "waiting" /\ Inside(n) # {})
    /\ UNCHANGED <<graph, run, current, tasks, sent, took, requests, faults>>

\* A condition or a switch evaluates; an end leads nowhere.
Settle(p) ==
    /\ \/ /\ proc[p].at = "claimed" /\ Kind(p) \in {"condition", "end"}
          /\ \E t \in {graph.yes[proc[p].node], graph.no[proc[p].node]} :
                proc' = Settling(p, t)
          /\ UNCHANGED took
       \/ /\ proc[p].at = "executed"
          /\ proc' = Settling(p, proc[p].to)
          /\ UNCHANGED took
       \/ /\ proc[p].at = "chosen"
          /\ proc' = Settling(p, proc[p].to)
          /\ took' = [took EXCEPT ![proc[p].node] = @ \cup {proc[p].task.task = "resolve"}]
    /\ SetStep(proc[p].node, "completed")
    /\ UNCHANGED <<graph, run, current, tasks, sent, lapses, requests, faults>>

\* execute_node_action succeeds.
Execute(p) ==
    LET n == proc[p].node IN
    /\ proc[p].at = "claimed" /\ Kind(p) = "action"
    /\ sent' = [sent EXCEPT ![n] = OneMore(@)]
    /\ proc' = [proc EXCEPT ![p].at = "executed", ![p].to = graph.yes[n]]
    /\ UNCHANGED <<graph, run, current, step, tasks, took, lapses, requests, faults>>

\* It raises, or a condition does: _fail_run.
Raises(p) ==
    LET n == proc[p].node IN
    /\ proc[p].at = "claimed" /\ Kind(p) \in {"action", "condition"}
    /\ SetStep(n, "failed")
    /\ At(p, "failing")
    /\ \E unsure \in {FALSE, Kind(p) = "action"} :
        /\ sent' = [sent EXCEPT ![n] = IF unsure THEN OneMore(@) ELSE @]
        /\ Lapse("unsure", unsure)
    /\ UNCHANGED <<graph, run, current, tasks, took, requests, faults>>

FailRun(p) ==
    /\ proc[p].at = "failing"
    /\ run' = "failed"
    /\ Done(p)
    /\ UNCHANGED <<graph, current, step, tasks, sent, took, lapses, requests, faults>>

\* A decision waits for its answer, an AI's e-mail for its sign-off.
Parks(p) == Kind(p) = "email" \/ proc[p].found # "waiting_input"

Park(p) ==
    /\ proc[p].at = "claimed" /\ Kind(p) \in {"decision", "email"}
    /\ IF Parks(p) THEN SetStep(proc[p].node, "waiting_input") /\ At(p, "parking")
                   ELSE Done(p) /\ UNCHANGED step
    /\ UNCHANGED <<graph, run, current, tasks, sent, took, lapses, requests, faults>>

PauseRun(p) ==
    /\ proc[p].at = "parking"
    /\ run' = "paused"
    /\ Done(p)
    /\ UNCHANGED <<graph, current, step, tasks, sent, took, lapses, requests, faults>>

\* The first visit of a wait; its timer is a delayed step task.
Arm(p) ==
    LET n == proc[p].node IN
    /\ proc[p].at = "claimed" /\ Kind(p) = "wait_until" /\ proc[p].found # "waiting"
    /\ SetStep(n, "waiting")
    /\ proc' = Sending(p, Task("step", n))
    /\ UNCHANGED <<graph, run, current, tasks, sent, took, lapses, requests, faults>>

\* Any later visit takes itself for the timer.
TimesOut(p) == proc[p].at = "claimed" /\ Kind(p) = "wait_until" /\ proc[p].found = "waiting"
Resolves(p) == proc[p].at = "read" /\ proc[p].task.task = "resolve"

\* Faulty variant: the timer does not look again under the lock.
EndWaitUnchecked(p) ==
    LET n == proc[p].node IN
    /\ TimesOut(p) \/ Resolves(p)
    /\ IF step[n] = "waiting" \/ TimesOut(p)
       THEN /\ SetStep(n, "running")
            /\ proc' = [proc EXCEPT ![p].at = "chosen",
                            ![p].to = IF Resolves(p) THEN graph.yes[n] ELSE graph.no[n]]
       ELSE Done(p) /\ UNCHANGED step
    /\ UNCHANGED <<graph, run, current, tasks, sent, took, lapses, requests, faults>>

\* Under the row lock, the timer and the event race for the waiting step.
EndWait(p) ==
    LET n == proc[p].node IN
    /\ TimesOut(p) \/ Resolves(p)
    /\ IF step[n] = "waiting"
       THEN /\ SetStep(n, "running")
            /\ proc' = [proc EXCEPT ![p].at = "chosen",
                            ![p].to = IF Resolves(p) THEN graph.yes[n] ELSE graph.no[n]]
       ELSE Done(p) /\ UNCHANGED step
    /\ UNCHANGED <<graph, run, current, tasks, sent, took, lapses, requests, faults>>

\* _advance_to.
Advance(p) ==
    LET n == proc[p].to IN
    /\ proc[p].at = "settled"
    /\ IF n = NoNode THEN UNCHANGED <<run, current>> ELSE run' = "running" /\ current' = n
    /\ proc' = Sending(p, IF n = NoNode THEN Task("complete", NoNode) ELSE Task("step", n))
    /\ lapses' = lapses \cup Lapsed("revived", n # NoNode /\ run \in Over)
                       \cup Lapsed("returned", n # NoNode /\ step[n] = "completed")
    /\ UNCHANGED <<graph, step, tasks, sent, took, requests, faults>>

Send(p) ==
    /\ proc[p].at = "sending"
    /\ tasks' = tasks \cup {proc[p].out}
    /\ Done(p)
    /\ UNCHANGED <<graph, run, current, step, sent, took, lapses, requests, faults>>

\* A lost worker's message is delivered again; that of one stopped by an exception or
\* by its time limit is acknowledged.
Dies(p) ==
    /\ Fault
    /\ proc[p].at # "idle"
    /\ \E again \in {{}, {proc[p].task} \cap Tasks} : tasks' = tasks \cup again
    /\ Done(p)
    /\ lapses' = lapses \cup {"died"}
    /\ UNCHANGED <<graph, run, current, step, sent, took, requests>>

-----------------------------------------------------------------------------
(* Events and people *)

Asks == requests < MaxRequests /\ requests' = requests + 1

\* dispatch_event finds the wait that this event is for.
Event(n) ==
    /\ Asks
    /\ graph.kind[n] = "wait_until" /\ step[n] = "waiting" /\ run = "running"
    /\ tasks' = tasks \cup {Task("resolve", n)}
    /\ UNCHANGED <<graph, run, current, step, proc, sent, took, lapses, faults>>

Cancel ==
    /\ Asks
    /\ run' = "canceled"
    /\ proc' = Overtaken(proc)
    /\ UNCHANGED <<graph, current, step, tasks, sent, took, lapses, faults>>

Pause ==
    /\ Asks
    /\ run' = "paused"
    /\ Lapse("astray", run \in Over)
    /\ UNCHANGED <<graph, current, step, tasks, proc, sent, took, faults>>

\* The step to resume at, or the whole run if it never got to one.
Restart(n) == IF n = NoNode THEN Task("start", NoNode) ELSE Task("step", n)
Resumed(p, n) == proc' = Sending(p, Restart(n))

\* Faulty variant: the run is marked running, and no task is sent.
ResumeQuietly(p) ==
    /\ Asks
    /\ proc[p].at = "idle"
    /\ run' = "running"
    /\ Lapse("astray", run # "paused" \/ current = NoNode)
    /\ UNCHANGED <<graph, current, step, tasks, proc, sent, took, faults>>

Resume(p) ==
    /\ Asks
    /\ proc[p].at = "idle"
    /\ run' = "running"
    /\ Resumed(p, current)
    /\ Lapse("astray", run # "paused" \/ current = NoNode)
    /\ UNCHANGED <<graph, current, step, tasks, sent, took, faults>>

\* retry_run: a failed step is pending again, and the run at it.
FailedSteps == {n \in Nodes : step[n] = "failed"}
RetryAt == IF FailedSteps = {} THEN {current} ELSE FailedSteps

Retry(p) ==
    /\ Asks
    /\ proc[p].at = "idle"
    /\ run' = "running"
    /\ \E n \in RetryAt :
        /\ current' = n
        /\ step' = [m \in Nodes |-> IF m = n /\ step[m] = "failed" THEN "pending" ELSE step[m]]
        /\ Resumed(p, n)
    /\ Lapse("astray", run # "failed")
    /\ UNCHANGED <<graph, tasks, sent, took, faults>>

\* An e-mail is decided on by the id of its step row; nobody looks at the row's status.
HasRow(n) == step[n] # "pending"
Ready(n)  == step[n] = "waiting_input" /\ Inside(n) = {}

\* complete_step of a decision: no status is looked at, a missing row is made.
Answer(p, n) ==
    /\ Asks
    /\ proc[p].at = "idle"
    /\ graph.kind[n] = "decision"
    /\ SetStep(n, "completed")
    /\ \E t \in {graph.yes[n], graph.no[n]} :
        proc' = Sending(p, Task("branch", t))
    /\ Lapse("astray", ~Ready(n))
    /\ UNCHANGED <<graph, run, current, tasks, sent, took, faults>>

\* WorkflowEmailSignOffAdapter.approve: the e-mail is sent, then the step completed.
Approve(p, n) ==
    /\ Asks
    /\ proc[p].at = "idle"
    /\ graph.kind[n] = "email" /\ HasRow(n)
    /\ sent' = [sent EXCEPT ![n] = OneMore(@)]
    /\ proc' = [proc EXCEPT ![p] = [Idle EXCEPT !.at = "executed", !.node = n, !.to = graph.yes[n]]]
    /\ Lapse("astray", ~Ready(n))
    /\ UNCHANGED <<graph, run, current, step, tasks, took, faults>>

\* Faulty variant: the step keeps the review's state as its status.
ReviewVerbatim(n) ==
    /\ Asks
    /\ graph.kind[n] = "email" /\ HasRow(n)
    /\ \E s \in {"rejected", "changes_requested"} : SetStep(n, s)
    /\ Lapse("astray", ~Ready(n))
    /\ UNCHANGED <<graph, run, current, tasks, proc, sent, took, faults>>

\* Or it is rejected, or sent back for changes.
Review(n) ==
    /\ Asks
    /\ graph.kind[n] = "email" /\ HasRow(n)
    /\ \E s \in {"failed", "waiting_input"} : SetStep(n, s)
    /\ Lapse("astray", ~Ready(n))
    /\ UNCHANGED <<graph, run, current, tasks, proc, sent, took, faults>>

Work(p) ==
    \/ \E m \in tasks : Take(p, m)
    \/ Start(p) \/ Complete(p) \/ Claim(p) \/ Settle(p) \/ Execute(p) \/ Raises(p) \/ FailRun(p)
    \/ Park(p) \/ PauseRun(p) \/ Arm(p) \/ EndWait(p) \/ Advance(p) \/ Send(p)

Next ==
    \/ \E p \in Processes :
        \/ Work(p) \/ Dies(p) \/ Resume(p) \/ Retry(p)
        \/ \E n \in Nodes : Answer(p, n) \/ Approve(p, n)
    \/ \E n \in Nodes : Event(n) \/ Review(n)
    \/ Cancel \/ Pause

Spec == Init /\ [][Next]_vars

-----------------------------------------------------------------------------
(* Properties *)

\* "Whichever claims the waiting state first wins": a wait takes one branch, whatever
\* timers and events race for it, unless a process has joined another in its step.
OneBranch == "shared" \notin lapses => \A n \in Nodes : took[n] # BOOLEAN

\* "Persisting per-node state under a row lock for idempotency", "re-running does NOT
\* re-fire side effects": a node acts once, however often its task is delivered and the
\* run is paused, failed and retried, but for what lapses names.
RunsOnce == lapses \subseteq {"returned"} => \A n \in Nodes : sent[n] <= 1

\* A running run has somebody or something to take it further, or waits for an answer,
\* unless a process has died, a request was out of place or the run came to a node that
\* it had completed (an edge leads back, a branch is delivered again): the step task
\* finds nothing to do there, and sends nothing.
RunMoves ==
    run = "running" /\ lapses \subseteq {"unsure"}
        => \/ tasks # {}
           \/ \E p \in Processes : proc[p].at # "idle"
           \/ \E n \in Nodes : step[n] = "waiting_input"

\* A canceled or completed run comes back only by a request to pause, resume or retry
\* it, by an answer or an approval (which do not look), or by a process that was at
\* work when it ended.
Revives(p) ==
    \/ proc[p].stale
    \/ proc[p].at = "idle"
    \/ proc[p].task \in {Request} \cup [task : {"branch"}, node : Nodes \cup {NoNode}]

OverIsOver ==
    [][(run \in Over /\ run' \notin Over)
        => \/ UNCHANGED proc
           \/ \E p \in Processes : proc'[p] # proc[p] /\ Revives(p)]_vars
=============================================================================
