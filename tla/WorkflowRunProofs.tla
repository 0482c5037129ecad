-------------------------- MODULE WorkflowRunProofs --------------------------
(* Proofs about WorkflowRun for every graph, any number of processes, requests *)
(* and faults.  A process that is inside a step keeps others from entering it, *)
(* and those who work for a run that is over are stale.                        *)
EXTENDS WorkflowRun, TLAPS

NodeTasks == {"step", "resolve"}
Occupied  == {"claimed", "chosen", "executed", "failing", "parking"}

\* A task that is for a node names one.
SoundTask(t) == t.task \in NodeTasks => t.node \in Nodes

\* A process that needs a node has one, and one that sends has what to send.
Sound(r) ==
    /\ SoundTask(r.task)
    /\ r.at = "read" => r.node = r.task.node /\ r.task \in Tasks /\ r.task.task # "branch"
    /\ r.at \in Occupied => r.node \in Nodes
    /\ r.at = "sending" => r.out \in Tasks /\ SoundTask(r.out)

Typed ==
    /\ TypeOK
    /\ \A t \in tasks : SoundTask(t)
    /\ \A p \in Processes : Sound(proc[p])

-----------------------------------------------------------------------------

\* Tasks are made of the right parts.
LEMMA TaskIsTyped ==
    ASSUME NEW t \in {"start", "step", "resolve", "branch", "complete"},
           NEW n \in Nodes \cup {NoNode}
    PROVE  /\ Task(t, n) \in Tasks
           /\ Task(t, n).task = t /\ Task(t, n).node = n
BY DEF Task, Tasks

LEMMA IdleIsTyped == Idle \in Process /\ Sound(Idle)
BY DEF Idle, Process, Stages, Request, Task, Steps, Sound, SoundTask, NodeTasks, Occupied

\* What a process goes over to, and the others, stay as they should be.
LEMMA OneProcess ==
    ASSUME Typed, NEW p \in Processes, NEW r \in Process, Sound(r),
           proc' = [proc EXCEPT ![p] = r]
    PROVE  /\ proc' \in [Processes -> Process]
           /\ \A q \in Processes : Sound(proc'[q])
BY DEF Typed, TypeOK

\* A process that is about to settle or to send.
LEMMA SettlingIsTyped ==
    ASSUME Typed, NEW p \in Processes, NEW n \in Nodes \cup {NoNode}, proc' = Settling(p, n)
    PROVE  /\ proc' \in [Processes -> Process]
           /\ \A q \in Processes : Sound(proc'[q])
<1> DEFINE r == [Idle EXCEPT !.at = "settled", !.task = proc[p].task, !.to = n,
                             !.stale = proc[p].stale]
<1>1. proc[p] \in Process /\ Sound(proc[p])
  BY DEF Typed, TypeOK
<1>2. r \in Process
  BY <1>1, IdleIsTyped DEF Process, Stages
<1>3. r.at = "settled" /\ r.task = proc[p].task
  BY <1>1, IdleIsTyped DEF Process
<1>4. Sound(r)
  BY <1>1, <1>3 DEF Sound, Occupied
<1>5. proc' = [proc EXCEPT ![p] = r]
  BY DEF Settling
<1> QED
  BY <1>2, <1>4, <1>5, OneProcess

LEMMA SendingIsTyped ==
    ASSUME Typed, NEW p \in Processes, NEW t \in Tasks, SoundTask(t), proc' = Sending(p, t)
    PROVE  /\ proc' \in [Processes -> Process]
           /\ \A q \in Processes : Sound(proc'[q])
<1> DEFINE r == [Idle EXCEPT !.at = "sending", !.task = proc[p].task, !.out = t]
<1>1. proc[p] \in Process /\ Sound(proc[p])
  BY DEF Typed, TypeOK
<1>2. r \in Process
  BY <1>1, IdleIsTyped DEF Process, Stages
<1>3. r.at = "sending" /\ r.task = proc[p].task /\ r.out = t
  BY <1>1, IdleIsTyped DEF Process
<1>4. Sound(r)
  BY <1>1, <1>3 DEF Sound, Occupied
<1>5. proc' = [proc EXCEPT ![p] = r]
  BY DEF Sending
<1> QED
  BY <1>2, <1>4, <1>5, OneProcess

LEMMA DoneIsTyped ==
    ASSUME Typed, NEW p \in Processes, Done(p)
    PROVE  /\ proc' \in [Processes -> Process]
           /\ \A q \in Processes : Sound(proc'[q])
BY IdleIsTyped, OneProcess DEF Done

\* A process that goes on to another stage of its step.
LEMMA StageIsTyped ==
    ASSUME Typed, NEW p \in Processes, NEW s \in Occupied, NEW f \in Steps,
           NEW n \in Nodes \cup {NoNode}, proc[p].node \in Nodes,
           proc' = [proc EXCEPT ![p] = [proc[p] EXCEPT !.at = s, !.found = f, !.to = n]]
    PROVE  /\ proc' \in [Processes -> Process]
           /\ \A q \in Processes : Sound(proc'[q])
<1> DEFINE r == [proc[p] EXCEPT !.at = s, !.found = f, !.to = n]
<1>1. proc[p] \in Process /\ Sound(proc[p])
  BY DEF Typed, TypeOK
<1>2. r \in Process
  BY <1>1 DEF Process, Stages, Occupied
<1>3. r.at = s /\ r.task = proc[p].task /\ r.node = proc[p].node
  BY <1>1 DEF Process
<1>4. Sound(r)
  BY <1>1, <1>3 DEF Sound, Occupied
<1> QED
  BY <1>2, <1>4, OneProcess

LEMMA OvertakenIsTyped ==
    ASSUME NEW q \in [Processes -> Process], \A e \in Processes : Sound(q[e])
    PROVE  /\ Overtaken(q) \in [Processes -> Process]
           /\ \A e \in Processes : Sound(Overtaken(q)[e])
<1> SUFFICES ASSUME NEW e \in Processes
             PROVE  Overtaken(q)[e] \in Process /\ Sound(Overtaken(q)[e])
  BY DEF Overtaken
<1> DEFINE r == [q[e] EXCEPT !.stale = TRUE]
<1>1. q[e] \in Process /\ Sound(q[e])
  OBVIOUS
<1>2. r \in Process /\ r.at = q[e].at /\ r.task = q[e].task /\ r.node = q[e].node /\ r.out = q[e].out
  BY <1>1 DEF Process
<1>3. Sound(r)
  BY <1>1, <1>2 DEF Sound
<1> QED
  BY <1>1, <1>2, <1>3 DEF Overtaken

-----------------------------------------------------------------------------

\* Typed but for what the processes do, which the lemmas above cover.
Rows ==
    /\ graph \in Graphs /\ run \in Statuses /\ current \in Nodes \cup {NoNode}
    /\ step \in [Nodes -> Steps]
    /\ tasks \subseteq Tasks /\ \A t \in tasks : SoundTask(t)
    /\ sent \in [Nodes -> 0..2] /\ took \in [Nodes -> SUBSET BOOLEAN]
    /\ lapses \subseteq Lapses
    /\ requests \in 0..MaxRequests /\ faults \in 0..MaxFaults

LEMMA TypedParts ==
    Typed <=> /\ Rows
              /\ proc \in [Processes -> Process]
              /\ \A p \in Processes : Sound(proc[p])
BY DEF Typed, TypeOK, Rows

\* What the graph leads to.
LEMMA GraphIsTyped ==
    ASSUME Rows
    PROVE  /\ graph.start \in Nodes
           /\ graph.kind \in [Nodes -> Kinds]
           /\ graph.yes \in [Nodes -> Nodes \cup {NoNode}]
           /\ graph.no \in [Nodes -> Nodes \cup {NoNode}]
BY ConstantsAssumption DEF Rows, ConstantsAssumption, Graph

LEMMA LapseIsTyped ==
    ASSUME lapses \subseteq Lapses, NEW l \in Lapses, NEW b, Lapse(l, b)
    PROVE  lapses' \subseteq Lapses
BY DEF Lapse, Lapsed

LEMMA OneMoreIsTyped ==
    \A k \in 0..2 : OneMore(k) \in 0..2 /\ OneMore(0) = 1
BY DEF OneMore

\* Every step leaves the state well typed.
LEMMA TypedStep == Typed /\ [Next]_vars => Typed'
<1> SUFFICES ASSUME Typed, [Next]_vars PROVE Typed'
  OBVIOUS
<1>a. Rows /\ proc \in [Processes -> Process] /\ \A p \in Processes : Sound(proc[p])
  BY TypedParts
<1>b. SUFFICES /\ Rows'
               /\ proc' \in [Processes -> Process]
               /\ \A p \in Processes : Sound(proc'[p])
  BY DEF Typed, TypeOK, Rows
<1> USE ConstantsAssumption DEF ConstantsAssumption, SetStep
<1>1. ASSUME NEW p \in Processes, NEW m \in tasks, Take(p, m)
      PROVE  Rows' /\ proc' \in [Processes -> Process] /\ \A q \in Processes : Sound(proc'[q])
  <2>1. m \in Tasks /\ SoundTask(m)
    BY <1>a DEF Rows
  <2>2. m.node \in Nodes \cup {NoNode} /\ m.task \in {"start", "step", "resolve", "branch", "complete"}
    BY <2>1 DEF Tasks
  <2>3. Rows'
    BY <1>1, <1>a DEF Take, Delivered, Fault, Rows
  <2> DEFINE b == [Idle EXCEPT !.at = "settled", !.task = m, !.to = m.node]
             r == [Idle EXCEPT !.at = "read", !.task = m, !.node = m.node]
  <2>4. /\ b \in Process /\ b.at = "settled" /\ b.task = m
        /\ r \in Process /\ r.at = "read" /\ r.task = m /\ r.node = m.node
    BY <2>1, <2>2, IdleIsTyped DEF Process, Stages
  <2>5. Sound(b)
    BY <2>1, <2>4 DEF Sound, Occupied
  <2>6. m.task # "branch" => Sound(r)
    BY <2>1, <2>4 DEF Sound, Occupied
  <2>7. CASE UNCHANGED proc
    BY <2>3, <2>7, <1>a
  <2>8. CASE m.task = "branch" /\ proc' = [proc EXCEPT ![p] = b]
    BY <2>3, <2>4, <2>5, <2>8, OneProcess
  <2>9. CASE m.task # "branch" /\ proc' = [proc EXCEPT ![p] = r]
    BY <2>3, <2>4, <2>6, <2>9, OneProcess
  <2> QED
    BY <1>1, <2>7, <2>8, <2>9 DEF Take
<1>2. ASSUME NEW p \in Processes, Start(p)
      PROVE  Rows' /\ proc' \in [Processes -> Process] /\ \A q \in Processes : Sound(proc'[q])
  <2>1. Task("step", graph.start) \in Tasks /\ SoundTask(Task("step", graph.start))
    BY <1>a, GraphIsTyped, TaskIsTyped DEF SoundTask
  <2>2. Rows'
    BY <1>2, <1>a, GraphIsTyped, LapseIsTyped DEF Start, Rows, Statuses, Lapses
  <2> QED
    BY <1>2, <2>1, <2>2, SendingIsTyped DEF Start
<1>3. ASSUME NEW p \in Processes, Complete(p)
      PROVE  Rows' /\ proc' \in [Processes -> Process] /\ \A q \in Processes : Sound(proc'[q])
  <2>1. Rows'
    BY <1>3, <1>a DEF Complete, Rows, Statuses
  <2> DEFINE q == [proc EXCEPT ![p] = Idle]
  <2>2. q \in [Processes -> Process] /\ \A e \in Processes : Sound(q[e])
    BY <1>a, IdleIsTyped
  <2>3. proc' = Overtaken(q)
    BY <1>3 DEF Complete
  <2> HIDE DEF q
  <2> QED
    BY <2>1, <2>2, <2>3, OvertakenIsTyped
<1>4. ASSUME NEW p \in Processes, Claim(p)
      PROVE  Rows' /\ proc' \in [Processes -> Process] /\ \A q \in Processes : Sound(proc'[q])
  <2> DEFINE n == proc[p].node
             s == IF step[n] = "pending" THEN "running" ELSE step[n]
  <2>1. n \in Nodes /\ proc[p] \in Process
    BY <1>4, <1>a DEF Claim, Sound, SoundTask, NodeTasks
  <2>2. s \in Steps
    BY <2>1, <1>a DEF Rows, Steps
  <2>3. CASE Done(p) /\ UNCHANGED <<step, lapses>>
    BY <1>4, <2>3, <1>a, DoneIsTyped DEF Claim, Rows
  <2>4. CASE /\ SetStep(n, s)
             /\ proc' = [proc EXCEPT ![p].at = "claimed", ![p].found = s]
             /\ Lapse("shared", s # "waiting" /\ Inside(n) # {})
    <3>1. Rows'
      BY <1>4, <2>2, <2>4, <1>a, LapseIsTyped DEF Claim, Rows, Lapses
    <3>2. /\ proc[p].to \in Nodes \cup {NoNode}
          /\ proc' = [proc EXCEPT ![p] = [proc[p] EXCEPT !.at = "claimed", !.found = s,
                                                         !.to = proc[p].to]]
      BY <2>1, <2>4, <1>a DEF Process
    <3> HIDE DEF s
    <3> QED
      BY <2>1, <2>2, <3>1, <3>2, StageIsTyped DEF Occupied
  <2> QED
    BY <1>4, <2>3, <2>4 DEF Claim
<1>5. ASSUME NEW p \in Processes, Settle(p)
      PROVE  Rows' /\ proc' \in [Processes -> Process] /\ \A q \in Processes : Sound(proc'[q])
  <2>1. proc[p] \in Process /\ proc[p].node \in Nodes /\ proc[p].to \in Nodes \cup {NoNode}
    BY <1>5, <1>a DEF Settle, Sound, Occupied, Process
  <2>2. took' \in [Nodes -> SUBSET BOOLEAN]
    <3>1. CASE UNCHANGED took
      BY <3>1, <1>a DEF Rows
    <3>2. CASE took' = [took EXCEPT ![proc[p].node] = @ \cup {proc[p].task.task = "resolve"}]
      <4>1. took[proc[p].node] \cup {proc[p].task.task = "resolve"} \in SUBSET BOOLEAN
        BY <2>1, <1>a DEF Rows
      <4> QED
        BY <3>2, <4>1, <1>a DEF Rows
    <3> QED
      BY <1>5, <3>1, <3>2 DEF Settle
  <2>3. Rows'
    BY <1>5, <2>2, <1>a DEF Settle, Rows, Steps
  <2>4. PICK n \in Nodes \cup {NoNode} : proc' = Settling(p, n)
    BY <1>5, <2>1, <1>a, GraphIsTyped DEF Settle
  <2> QED
    BY <2>3, <2>4, SettlingIsTyped
<1>6. ASSUME NEW p \in Processes, Execute(p)
      PROVE  Rows' /\ proc' \in [Processes -> Process] /\ \A q \in Processes : Sound(proc'[q])
  <2>1. /\ proc[p] \in Process /\ proc[p].node \in Nodes
        /\ graph.yes[proc[p].node] \in Nodes \cup {NoNode}
    BY <1>6, <1>a, GraphIsTyped DEF Execute, Sound, Occupied
  <2>2. Rows'
    <3>1. OneMore(sent[proc[p].node]) \in 0..2
      BY <2>1, <1>a, OneMoreIsTyped DEF Rows
    <3>2. sent' \in [Nodes -> 0..2]
      BY <1>6, <3>1, <1>a DEF Execute, Rows
    <3> QED
      BY <1>6, <3>2, <1>a DEF Execute, Rows
  <2>3. /\ proc[p].found \in Steps
        /\ proc' = [proc EXCEPT ![p] = [proc[p] EXCEPT !.at = "executed", !.found = proc[p].found,
                                                       !.to = graph.yes[proc[p].node]]]
    BY <1>6, <2>1, <1>a DEF Execute, Process
  <2> QED
    BY <2>1, <2>2, <2>3, StageIsTyped DEF Occupied
<1>7. ASSUME NEW p \in Processes, Raises(p)
      PROVE  Rows' /\ proc' \in [Processes -> Process] /\ \A q \in Processes : Sound(proc'[q])
  <2>1. proc[p] \in Process /\ proc[p].node \in Nodes
    BY <1>7, <1>a DEF Raises, Sound, Occupied
  <2>2. Rows'
    <3>1. PICK unsure \in BOOLEAN :
            /\ sent' = [sent EXCEPT ![proc[p].node] = IF unsure THEN OneMore(@) ELSE @]
            /\ Lapse("unsure", unsure)
      BY <1>7 DEF Raises
    <3>2. lapses' \subseteq Lapses
      BY <3>1, <1>a, LapseIsTyped DEF Rows, Lapses
    <3>3. sent' \in [Nodes -> 0..2]
      <4>1. OneMore(sent[proc[p].node]) \in 0..2
        BY <2>1, <1>a, OneMoreIsTyped DEF Rows
      <4> QED
        BY <3>1, <4>1, <1>a DEF Rows
    <3> QED
      BY <1>7, <3>2, <3>3, <1>a DEF Raises, Rows, Steps
  <2>3. /\ proc[p].found \in Steps /\ proc[p].to \in Nodes \cup {NoNode}
        /\ proc' = [proc EXCEPT ![p] = [proc[p] EXCEPT !.at = "failing", !.found = proc[p].found,
                                                       !.to = proc[p].to]]
    BY <1>7, <2>1, <1>a DEF Raises, Process, At
  <2> QED
    BY <2>1, <2>2, <2>3, StageIsTyped DEF Occupied
<1>8. ASSUME NEW p \in Processes, FailRun(p)
      PROVE  Rows' /\ proc' \in [Processes -> Process] /\ \A q \in Processes : Sound(proc'[q])
  BY <1>8, <1>a, DoneIsTyped DEF FailRun, Rows, Statuses
<1>9. ASSUME NEW p \in Processes, Park(p)
      PROVE  Rows' /\ proc' \in [Processes -> Process] /\ \A q \in Processes : Sound(proc'[q])
  <2>1. proc[p] \in Process /\ proc[p].node \in Nodes
    BY <1>9, <1>a DEF Park, Sound, Occupied
  <2>2. CASE Done(p) /\ UNCHANGED step
    BY <1>9, <2>2, <1>a, DoneIsTyped DEF Park, Rows
  <2>3. CASE SetStep(proc[p].node, "waiting_input") /\ At(p, "parking")
    <3>1. Rows'
      BY <1>9, <2>3, <1>a DEF Park, Rows, Steps
    <3>2. /\ proc[p].found \in Steps /\ proc[p].to \in Nodes \cup {NoNode}
          /\ proc' = [proc EXCEPT ![p] = [proc[p] EXCEPT !.at = "parking", !.found = proc[p].found,
                                                         !.to = proc[p].to]]
      BY <2>1, <2>3, <1>a DEF Process, At
    <3> QED
      BY <2>1, <3>1, <3>2, StageIsTyped DEF Occupied
  <2> QED
    BY <1>9, <2>2, <2>3 DEF Park
<1>10. ASSUME NEW p \in Processes, PauseRun(p)
      PROVE  Rows' /\ proc' \in [Processes -> Process] /\ \A q \in Processes : Sound(proc'[q])
  BY <1>10, <1>a, DoneIsTyped DEF PauseRun, Rows, Statuses
<1>11. ASSUME NEW p \in Processes, Arm(p)
      PROVE  Rows' /\ proc' \in [Processes -> Process] /\ \A q \in Processes : Sound(proc'[q])
  <2>1. proc[p].node \in Nodes
    BY <1>11, <1>a DEF Arm, Sound, Occupied
  <2>2. Task("step", proc[p].node) \in Tasks /\ SoundTask(Task("step", proc[p].node))
    BY <2>1, TaskIsTyped DEF SoundTask
  <2>3. Rows'
    BY <1>11, <1>a DEF Arm, Rows, Steps
  <2> QED
    BY <1>11, <2>2, <2>3, SendingIsTyped DEF Arm
<1>12. ASSUME NEW p \in Processes, EndWait(p)
      PROVE  Rows' /\ proc' \in [Processes -> Process] /\ \A q \in Processes : Sound(proc'[q])
  <2> DEFINE n == proc[p].node
             b == IF Resolves(p) THEN graph.yes[n] ELSE graph.no[n]
  <2>1. proc[p] \in Process /\ n \in Nodes
    BY <1>12, <1>a DEF EndWait, TimesOut, Resolves, Sound, SoundTask, NodeTasks, Occupied
  <2>2. b \in Nodes \cup {NoNode}
    BY <2>1, <1>a, GraphIsTyped
  <2>3. CASE Done(p) /\ UNCHANGED step
    BY <1>12, <2>3, <1>a, DoneIsTyped DEF EndWait, Rows
  <2>4. CASE /\ SetStep(n, "running")
             /\ proc' = [proc EXCEPT ![p].at = "chosen", ![p].to = b]
    <3>1. Rows'
      BY <1>12, <2>4, <1>a DEF EndWait, Rows, Steps
    <3>2. /\ proc[p].found \in Steps
          /\ proc' = [proc EXCEPT ![p] = [proc[p] EXCEPT !.at = "chosen", !.found = proc[p].found,
                                                         !.to = b]]
      BY <2>1, <2>4, <1>a DEF Process
    <3> HIDE DEF b
    <3> QED
      BY <2>1, <2>2, <3>1, <3>2, StageIsTyped DEF Occupied
  <2> QED
    BY <1>12, <2>3, <2>4 DEF EndWait
<1>13. ASSUME NEW p \in Processes, Advance(p)
      PROVE  Rows' /\ proc' \in [Processes -> Process] /\ \A q \in Processes : Sound(proc'[q])
  <2> DEFINE n == proc[p].to
             t == IF n = NoNode THEN Task("complete", NoNode) ELSE Task("step", n)
  <2>1. n \in Nodes \cup {NoNode}
    BY <1>a DEF Process
  <2>2. t \in Tasks /\ SoundTask(t)
    BY <2>1, TaskIsTyped DEF SoundTask, NodeTasks
  <2>3. lapses' \subseteq Lapses
    BY <1>13, <1>a DEF Advance, Lapsed, Rows, Lapses
  <2>4. run' \in Statuses /\ current' \in Nodes \cup {NoNode}
    BY <1>13, <2>1, <1>a DEF Advance, Rows, Statuses
  <2>5. Rows'
    BY <1>13, <2>3, <2>4, <1>a DEF Advance, Rows
  <2>6. proc' = Sending(p, t)
    BY <1>13 DEF Advance
  <2> HIDE DEF t
  <2> QED
    BY <2>2, <2>5, <2>6, SendingIsTyped
<1>14. ASSUME NEW p \in Processes, Send(p)
      PROVE  Rows' /\ proc' \in [Processes -> Process] /\ \A q \in Processes : Sound(proc'[q])
  <2>1. proc[p].out \in Tasks /\ SoundTask(proc[p].out)
    BY <1>14, <1>a DEF Send, Sound
  <2> QED
    BY <1>14, <2>1, <1>a, DoneIsTyped DEF Send, Rows
<1>15. ASSUME NEW p \in Processes, Dies(p)
      PROVE  Rows' /\ proc' \in [Processes -> Process] /\ \A q \in Processes : Sound(proc'[q])
  <2>1. SoundTask(proc[p].task)
    BY <1>a DEF Sound
  <2>2. "died" \in Lapses
    BY DEF Lapses
  <2> QED
    BY <1>15, <2>1, <2>2, <1>a, DoneIsTyped DEF Dies, Fault, Rows
<1>16. ASSUME NEW n \in Nodes, Event(n)
      PROVE  Rows' /\ proc' \in [Processes -> Process] /\ \A q \in Processes : Sound(proc'[q])
  <2>1. Task("resolve", n) \in Tasks /\ SoundTask(Task("resolve", n))
    BY TaskIsTyped DEF SoundTask
  <2> QED
    BY <1>16, <2>1, <1>a DEF Event, Asks, Rows
<1>17. ASSUME Cancel
      PROVE  Rows' /\ proc' \in [Processes -> Process] /\ \A q \in Processes : Sound(proc'[q])
  <2>1. Rows'
    BY <1>17, <1>a DEF Cancel, Asks, Rows, Statuses
  <2> QED
    BY <1>17, <2>1, <1>a, OvertakenIsTyped DEF Cancel
<1>18. ASSUME Pause
      PROVE  Rows' /\ proc' \in [Processes -> Process] /\ \A q \in Processes : Sound(proc'[q])
  <2>1. lapses' \subseteq Lapses
    BY <1>18, <1>a, LapseIsTyped DEF Pause, Rows, Lapses
  <2> QED
    BY <1>18, <2>1, <1>a DEF Pause, Asks, Rows, Statuses
<1>19. ASSUME NEW p \in Processes, Resume(p)
      PROVE  Rows' /\ proc' \in [Processes -> Process] /\ \A q \in Processes : Sound(proc'[q])
  <2>1. Restart(current) \in Tasks /\ SoundTask(Restart(current))
    BY <1>a, TaskIsTyped DEF Rows, Restart, SoundTask, NodeTasks
  <2>2. lapses' \subseteq Lapses
    BY <1>19, <1>a, LapseIsTyped DEF Resume, Rows, Lapses
  <2>3. Rows'
    BY <1>19, <2>2, <1>a DEF Resume, Asks, Rows, Statuses
  <2> QED
    BY <1>19, <2>1, <2>3, SendingIsTyped DEF Resume, Resumed
<1>20. ASSUME NEW p \in Processes, Retry(p)
      PROVE  Rows' /\ proc' \in [Processes -> Process] /\ \A q \in Processes : Sound(proc'[q])
  <2>1. PICK n \in RetryAt :
          /\ current' = n
          /\ step' = [m \in Nodes |-> IF m = n /\ step[m] = "failed" THEN "pending" ELSE step[m]]
          /\ Resumed(p, n)
    BY <1>20 DEF Retry
  <2>2. n \in Nodes \cup {NoNode}
    BY <1>a DEF RetryAt, FailedSteps, Rows
  <2>3. Restart(n) \in Tasks /\ SoundTask(Restart(n))
    BY <2>2, TaskIsTyped DEF Restart, SoundTask, NodeTasks
  <2>4. step' \in [Nodes -> Steps]
    BY <2>1, <1>a DEF Rows, Steps
  <2>5. lapses' \subseteq Lapses
    BY <1>20, <1>a, LapseIsTyped DEF Retry, Rows, Lapses
  <2>6. Rows'
    BY <1>20, <2>1, <2>2, <2>4, <2>5, <1>a DEF Retry, Asks, Rows, Statuses
  <2> QED
    BY <2>1, <2>3, <2>6, SendingIsTyped DEF Resumed
<1>21. ASSUME NEW p \in Processes, NEW n \in Nodes, Answer(p, n)
      PROVE  Rows' /\ proc' \in [Processes -> Process] /\ \A q \in Processes : Sound(proc'[q])
  <2>1. PICK t \in {graph.yes[n], graph.no[n]} : proc' = Sending(p, Task("branch", t))
    BY <1>21 DEF Answer
  <2>2. Task("branch", t) \in Tasks /\ SoundTask(Task("branch", t))
    BY <1>a, GraphIsTyped, TaskIsTyped DEF SoundTask, NodeTasks
  <2>3. lapses' \subseteq Lapses
    BY <1>21, <1>a, LapseIsTyped DEF Answer, Rows, Lapses
  <2>4. Rows'
    BY <1>21, <2>3, <1>a DEF Answer, Asks, Rows, Steps
  <2> QED
    BY <2>1, <2>2, <2>4, SendingIsTyped
<1>22. ASSUME NEW p \in Processes, NEW n \in Nodes, Approve(p, n)
      PROVE  Rows' /\ proc' \in [Processes -> Process] /\ \A q \in Processes : Sound(proc'[q])
  <2> DEFINE r == [Idle EXCEPT !.at = "executed", !.node = n, !.to = graph.yes[n]]
  <2>1. r \in Process /\ r.at = "executed" /\ r.node = n /\ r.task = Request
    BY <1>a, GraphIsTyped, IdleIsTyped DEF Process, Stages, Idle
  <2>2. Sound(r)
    BY <2>1 DEF Sound, Occupied, SoundTask, NodeTasks, Request, Task
  <2>3. lapses' \subseteq Lapses
    BY <1>22, <1>a, LapseIsTyped DEF Approve, Rows, Lapses
  <2>4. Rows'
    <3>1. OneMore(sent[n]) \in 0..2
      BY <1>a, OneMoreIsTyped DEF Rows
    <3>2. sent' \in [Nodes -> 0..2]
      BY <1>22, <3>1, <1>a DEF Approve, Rows
    <3> QED
      BY <1>22, <2>3, <3>2, <1>a DEF Approve, Asks, Rows
  <2>5. proc' = [proc EXCEPT ![p] = r]
    BY <1>22 DEF Approve
  <2> QED
    BY <2>1, <2>2, <2>4, <2>5, OneProcess
<1>23. ASSUME NEW n \in Nodes, Review(n)
      PROVE  Rows' /\ proc' \in [Processes -> Process] /\ \A q \in Processes : Sound(proc'[q])
  <2>1. lapses' \subseteq Lapses
    BY <1>23, <1>a, LapseIsTyped DEF Review, Rows, Lapses
  <2>2. PICK s \in {"failed", "waiting_input"} : SetStep(n, s)
    BY <1>23 DEF Review
  <2> QED
    BY <1>23, <2>1, <2>2, <1>a DEF Review, Asks, Rows, Steps
<1>24. CASE UNCHANGED vars
  BY <1>24, <1>a DEF vars, Rows
<1> QED
  BY <1>1, <1>2, <1>3, <1>4, <1>5, <1>6, <1>7, <1>8, <1>9, <1>10, <1>11, <1>12,
     <1>13, <1>14, <1>15, <1>16, <1>17, <1>18, <1>19, <1>20, <1>21, <1>22, <1>23, <1>24 DEF Next, Work

\* So is the first state.
LEMMA TypedInit == Init => Typed
<1> SUFFICES ASSUME Init PROVE Typed
  OBVIOUS
<1>1. Task("start", NoNode) \in Tasks /\ SoundTask(Task("start", NoNode))
  BY TaskIsTyped DEF SoundTask, NodeTasks
<1>2. proc \in [Processes -> Process] /\ \A p \in Processes : Sound(proc[p])
  BY IdleIsTyped DEF Init
<1>3. Rows
  BY <1>1, ConstantsAssumption DEF Init, Rows, Statuses, Steps, ConstantsAssumption
<1> QED
  BY <1>2, <1>3, TypedParts

\* The state is always well typed, whatever the graph: the statuses are the ones the
\* tables know, and whoever is inside a step has a node to be in.
THEOREM TypeCorrect == Spec => []TypeOK
<1>1. Init => Typed
  BY TypedInit
<1>2. Typed /\ [Next]_vars => Typed'
  BY TypedStep
<1>3. Typed => TypeOK
  BY DEF Typed
<1> QED
  BY <1>1, <1>2, <1>3, PTL DEF Spec

-----------------------------------------------------------------------------

\* At work for a run that was not over when the work began, nor has ended since.
Honest(r) == r.at \notin {"idle", "sending"} /\ ~r.stale /\ r.task.task \notin {"request", "branch"}

Working == \A p \in Processes : Honest(proc[p]) => run \notin Over

LEMMA SettlingAt ==
    ASSUME proc \in [Processes -> Process], NEW p \in Processes, NEW n, proc' = Settling(p, n)
    PROVE  /\ \A q \in Processes \ {p} : proc'[q] = proc[q]
           /\ proc'[p].at = "settled" /\ proc'[p].task = proc[p].task
           /\ proc'[p].stale = proc[p].stale /\ proc'[p].node = NoNode
BY DEF Settling, Idle, Process

LEMMA SendingAt ==
    ASSUME proc \in [Processes -> Process], NEW p \in Processes, NEW t, proc' = Sending(p, t)
    PROVE  /\ \A q \in Processes \ {p} : proc'[q] = proc[q]
           /\ proc'[p].at = "sending" /\ proc'[p].node = NoNode
BY DEF Sending, Idle, Process

LEMMA DoneAt ==
    ASSUME proc \in [Processes -> Process], NEW p \in Processes, Done(p)
    PROVE  /\ \A q \in Processes \ {p} : proc'[q] = proc[q]
           /\ proc'[p] = Idle /\ proc'[p].at = "idle"
BY DEF Done, Idle, Process

LEMMA AtAt ==
    ASSUME proc \in [Processes -> Process], NEW p \in Processes, NEW s, At(p, s)
    PROVE  /\ \A q \in Processes \ {p} : proc'[q] = proc[q]
           /\ proc'[p].at = s /\ proc'[p].task = proc[p].task /\ proc'[p].node = proc[p].node
           /\ proc'[p].stale = proc[p].stale /\ proc'[p].found = proc[p].found
BY DEF At, Process

LEMMA OvertakenAt ==
    ASSUME NEW q \in [Processes -> Process], NEW e \in Processes
    PROVE  /\ Overtaken(q)[e].at = q[e].at /\ Overtaken(q)[e].node = q[e].node
           /\ Overtaken(q)[e].found = q[e].found /\ Overtaken(q)[e].task = q[e].task
           /\ q[e].at # "idle" => Overtaken(q)[e].stale
BY DEF Overtaken, Process

\* When one process moves, and the run does not end.
LEMMA StillWorking ==
    ASSUME Working, NEW p \in Processes, \A q \in Processes \ {p} : proc'[q] = proc[q],
           run' = run \/ run' \notin Over,
           Honest(proc'[p]) => Honest(proc[p]) \/ run' \notin Over
    PROVE  Working'
BY DEF Working

LEMMA WorkStep == Typed /\ Working /\ [Next]_vars => Working'
<1> SUFFICES ASSUME Typed, Working, [Next]_vars PROVE Working'
  OBVIOUS
<1>a. Rows /\ proc \in [Processes -> Process]
  BY TypedParts
<1>1. ASSUME NEW p \in Processes, NEW m \in tasks, Take(p, m) PROVE Working'
  <2>1. m.task \in {"start", "step", "resolve", "branch", "complete"}
    BY <1>a DEF Rows, Tasks
  <2>2. CASE UNCHANGED proc
    BY <1>1, <2>2 DEF Take, Working
  <2>3. CASE /\ run \in Heeds(m.task)
             /\ m.task = "branch"
             /\ proc' = [proc EXCEPT ![p] = [Idle EXCEPT !.at = "settled", !.task = m, !.to = m.node]]
    <3>1. proc'[p].task = m
      BY <2>3, <1>a DEF Idle
    <3> QED
      BY <1>1, <2>3, <3>1, <1>a, StillWorking DEF Take, Honest
  <2>4. CASE /\ run \in Heeds(m.task)
             /\ m.task # "branch"
             /\ proc' = [proc EXCEPT ![p] = [Idle EXCEPT !.at = "read", !.task = m, !.node = m.node]]
    <3>1. run \notin Over
      BY <2>1, <2>4 DEF Heeds, Over, Statuses
    <3> QED
      BY <1>1, <2>4, <3>1, <1>a, StillWorking DEF Take
  <2> QED
    BY <1>1, <2>2, <2>3, <2>4 DEF Take
<1>2. ASSUME NEW p \in Processes, Start(p) PROVE Working'
  BY <1>2, <1>a, SendingAt, StillWorking DEF Start, Honest, Over
<1>3. ASSUME NEW p \in Processes, Complete(p) PROVE Working'
  <2> DEFINE q == [proc EXCEPT ![p] = Idle]
  <2>1. q \in [Processes -> Process] /\ proc' = Overtaken(q)
    BY <1>3, <1>a, IdleIsTyped DEF Complete
  <2> HIDE DEF q
  <2> QED
    BY <2>1, OvertakenAt DEF Working, Honest
<1>4. ASSUME NEW p \in Processes, Claim(p) PROVE Working'
  <2>1. CASE Done(p)
    BY <1>4, <2>1, <1>a, DoneAt, StillWorking DEF Claim, Honest
  <2>2. CASE \E s : proc' = [proc EXCEPT ![p].at = "claimed", ![p].found = s]
    <3>1. /\ \A q \in Processes \ {p} : proc'[q] = proc[q]
          /\ proc'[p].task = proc[p].task /\ proc'[p].stale = proc[p].stale
      BY <2>2, <1>a DEF Process
    <3> QED
      BY <1>4, <3>1, StillWorking DEF Claim, Honest
  <2> QED
    BY <1>4, <2>1, <2>2 DEF Claim
<1>5. ASSUME NEW p \in Processes, Settle(p) PROVE Working'
  <2>1. PICK n : proc' = Settling(p, n)
    BY <1>5 DEF Settle
  <2> QED
    BY <1>5, <2>1, <1>a, SettlingAt, StillWorking DEF Settle, Honest
<1>6. ASSUME NEW p \in Processes, Execute(p) PROVE Working'
  <2>1. /\ \A q \in Processes \ {p} : proc'[q] = proc[q]
        /\ proc'[p].task = proc[p].task /\ proc'[p].stale = proc[p].stale
    BY <1>6, <1>a DEF Execute, Process
  <2> QED
    BY <1>6, <2>1, StillWorking DEF Execute, Honest
<1>7. ASSUME NEW p \in Processes, Raises(p) PROVE Working'
  BY <1>7, <1>a, AtAt, StillWorking DEF Raises, Honest
<1>8. ASSUME NEW p \in Processes, FailRun(p) PROVE Working'
  BY <1>8, <1>a, DoneAt, StillWorking DEF FailRun, Over
<1>9. ASSUME NEW p \in Processes, Park(p) PROVE Working'
  <2>1. CASE Done(p)
    BY <1>9, <2>1, <1>a, DoneAt, StillWorking DEF Park, Honest
  <2>2. CASE At(p, "parking")
    BY <1>9, <2>2, <1>a, AtAt, StillWorking DEF Park, Honest
  <2> QED
    BY <1>9, <2>1, <2>2 DEF Park
<1>10. ASSUME NEW p \in Processes, PauseRun(p) PROVE Working'
  BY <1>10, <1>a, DoneAt, StillWorking DEF PauseRun, Over
<1>11. ASSUME NEW p \in Processes, Arm(p) PROVE Working'
  BY <1>11, <1>a, SendingAt, StillWorking DEF Arm, Honest
<1>12. ASSUME NEW p \in Processes, EndWait(p) PROVE Working'
  <2>1. CASE Done(p)
    BY <1>12, <2>1, <1>a, DoneAt, StillWorking DEF EndWait, Honest
  <2>2. CASE \E b : proc' = [proc EXCEPT ![p].at = "chosen", ![p].to = b]
    <3>1. /\ \A q \in Processes \ {p} : proc'[q] = proc[q]
          /\ proc'[p].task = proc[p].task /\ proc'[p].stale = proc[p].stale
      BY <2>2, <1>a DEF Process
    <3> QED
      BY <1>12, <3>1, StillWorking DEF EndWait, TimesOut, Resolves, Honest
  <2> QED
    BY <1>12, <2>1, <2>2 DEF EndWait
<1>13. ASSUME NEW p \in Processes, Advance(p) PROVE Working'
  BY <1>13, <1>a, SendingAt, StillWorking DEF Advance, Honest, Over
<1>14. ASSUME NEW p \in Processes, Send(p) PROVE Working'
  BY <1>14, <1>a, DoneAt, StillWorking DEF Send, Honest
<1>15. ASSUME NEW p \in Processes, Dies(p) PROVE Working'
  BY <1>15, <1>a, DoneAt, StillWorking DEF Dies, Honest
<1>16. ASSUME NEW n \in Nodes, Event(n) \/ Review(n) PROVE Working'
  BY <1>16 DEF Event, Review, Working
<1>17. ASSUME Cancel PROVE Working'
  BY <1>17, <1>a, OvertakenAt DEF Cancel, Working, Honest
<1>18. ASSUME Pause PROVE Working'
  BY <1>18 DEF Pause, Working, Over
<1>19. ASSUME NEW p \in Processes, Resume(p) PROVE Working'
  BY <1>19, <1>a, SendingAt, StillWorking DEF Resume, Resumed, Over
<1>20. ASSUME NEW p \in Processes, Retry(p) PROVE Working'
  BY <1>20 DEF Retry, Working, Over
<1>21. ASSUME NEW p \in Processes, NEW n \in Nodes, Answer(p, n) PROVE Working'
  <2>1. PICK t : proc' = Sending(p, t)
    BY <1>21 DEF Answer
  <2> QED
    BY <1>21, <2>1, <1>a, SendingAt, StillWorking DEF Answer, Honest
<1>22. ASSUME NEW p \in Processes, NEW n \in Nodes, Approve(p, n) PROVE Working'
  <2>1. proc'[p].task = Request /\ \A q \in Processes \ {p} : proc'[q] = proc[q]
    BY <1>22, <1>a DEF Approve, Idle
  <2> QED
    BY <1>22, <2>1, StillWorking DEF Approve, Honest, Request, Task
<1>23. CASE UNCHANGED vars
  BY <1>23 DEF vars, Working
<1> QED
  BY <1>1, <1>2, <1>3, <1>4, <1>5, <1>6, <1>7, <1>8, <1>9, <1>10, <1>11, <1>12,
     <1>13, <1>14, <1>15, <1>16, <1>17, <1>18, <1>19, <1>20, <1>21, <1>22, <1>23 DEF Next, Work

\* One that is not honest is one of those who may revive a run.
LEMMA Dishonest ==
    ASSUME Typed, Working, run \in Over, NEW p \in Processes, proc[p].at # "sending"
    PROVE  Revives(p)
<1>1. ~Honest(proc[p])
  BY DEF Working
<1>2. CASE proc[p].at = "idle" \/ proc[p].stale
  BY <1>2 DEF Revives
<1>3. CASE proc[p].task.task \in {"request", "branch"}
  <2>1. proc[p].task \in Tasks \cup {Request}
    BY DEF Typed, TypeOK, Process
  <2>2. proc[p].task \in {Request} \cup [task : {"branch"}, node : Nodes \cup {NoNode}]
    BY <1>3, <2>1 DEF Tasks, Request
  <2> QED
    BY <2>2 DEF Revives
<1> QED
  BY <1>1, <1>2, <1>3 DEF Honest

LEMMA ReviveStep ==
    ASSUME Typed, Working, [Next]_vars, run \in Over, run' \notin Over
    PROVE  UNCHANGED proc \/ \E p \in Processes : proc'[p] # proc[p] /\ Revives(p)
<1>a. Rows /\ proc \in [Processes -> Process]
  BY TypedParts
<1>1. ASSUME NEW p \in Processes, Start(p) \/ FailRun(p) \/ PauseRun(p) \/ Advance(p)
      PROVE  proc'[p] # proc[p] /\ Revives(p)
  <2>1. proc[p].at \in {"read", "failing", "parking", "settled"}
    BY <1>1 DEF Start, FailRun, PauseRun, Advance
  <2>2. proc'[p].at \in {"sending", "idle"}
    BY <1>1, <1>a, SendingAt, DoneAt DEF Start, FailRun, PauseRun, Advance
  <2> QED
    BY <2>1, <2>2, Dishonest
<1>2. ASSUME NEW p \in Processes, Resume(p) \/ Retry(p)
      PROVE  proc'[p] # proc[p] /\ Revives(p)
  <2>1. proc[p].at = "idle"
    BY <1>2 DEF Resume, Retry
  <2>2. PICK t : proc' = Sending(p, t)
    BY <1>2 DEF Resume, Retry, Resumed
  <2>3. proc'[p].at = "sending"
    BY <2>2, <1>a, SendingAt
  <2> QED
    BY <2>1, <2>3 DEF Revives
<1>3. CASE Pause
  BY <1>3 DEF Pause
<1>4. ASSUME NEW p \in Processes,
             \/ \E m \in tasks : Take(p, m)
             \/ Complete(p) \/ Claim(p) \/ Settle(p) \/ Execute(p) \/ Raises(p)
             \/ Park(p) \/ Arm(p) \/ EndWait(p) \/ Send(p) \/ Dies(p)
             \/ \E n \in Nodes : Answer(p, n) \/ Approve(p, n)
      PROVE  FALSE
  BY <1>4 DEF Take, Complete, Claim, Settle, Execute, Raises, Park, Arm, EndWait, Send, Dies,
              Answer, Approve, Over
<1>5. ASSUME NEW n \in Nodes, Event(n) \/ Review(n) PROVE FALSE
  BY <1>5 DEF Event, Review
<1>6. ASSUME Cancel \/ UNCHANGED vars PROVE FALSE
  BY <1>6 DEF Cancel, Over, vars
<1> QED
  BY <1>1, <1>2, <1>3, <1>4, <1>5, <1>6 DEF Next, Work

\* A run that is over comes back by a request, an answer, an approval, or a process
\* that was at work when it ended; never by a task taken since.
THEOREM OverStaysOver == Spec => OverIsOver
<1>1. Init => Working
  BY DEF Init, Working, Over
<1>2. Init => Typed
  BY TypedInit
<1> DEFINE Inv == Typed /\ Working
<1>3. Inv /\ [Next]_vars => Inv'
  BY TypedStep, WorkStep
<1>4. Inv /\ [Next]_vars =>
        [(run \in Over /\ run' \notin Over)
            => \/ UNCHANGED proc
               \/ \E p \in Processes : proc'[p] # proc[p] /\ Revives(p)]_vars
  BY ReviveStep
<1> QED
  BY <1>1, <1>2, <1>3, <1>4, PTL DEF Spec, OverIsOver

-----------------------------------------------------------------------------

Waits(n) == graph.kind[n] = "wait_until"

\* Which kind of node is where.
Places ==
    /\ \A n \in Nodes :
        /\ step[n] = "waiting" => Waits(n)
        /\ Waits(n) => step[n] \in {"pending", "running", "waiting", "completed"}
    /\ \A p \in Processes :
        /\ proc[p].at = "chosen" => Kind(p) = "wait_until"
        /\ proc[p].at = "executed" => Kind(p) \in {"action", "email"}
        /\ proc[p].at \in {"failing", "parking"} => Kind(p) # "wait_until"
        /\ proc[p].at = "claimed" /\ Kind(p) = "wait_until" => proc[p].found \in {"running", "waiting"}

\* The graph stays, and what has gone wrong is not forgotten.
LEMMA Remembers == [Next]_vars => graph' = graph /\ lapses \subseteq lapses'
<1> SUFFICES ASSUME [Next]_vars PROVE graph' = graph /\ lapses \subseteq lapses'
  OBVIOUS
<1>1. ASSUME NEW p \in Processes, Work(p) \/ Dies(p) \/ Resume(p) \/ Retry(p)
      PROVE  graph' = graph /\ lapses \subseteq lapses'
  BY <1>1 DEF Work, Take, Start, Complete, Claim, Settle, Execute, Raises, FailRun, Park, PauseRun,
              Arm, EndWait, Advance, Send, Dies, Resume, Retry, Lapse, Lapsed
<1>2. ASSUME NEW p \in Processes, NEW n \in Nodes, Answer(p, n) \/ Approve(p, n)
      PROVE  graph' = graph /\ lapses \subseteq lapses'
  BY <1>2 DEF Answer, Approve, Lapse, Lapsed
<1>3. ASSUME NEW n \in Nodes, Event(n) \/ Review(n)
      PROVE  graph' = graph /\ lapses \subseteq lapses'
  BY <1>3 DEF Event, Review, Lapse, Lapsed
<1>4. CASE Cancel \/ Pause \/ UNCHANGED vars
  BY <1>4 DEF Cancel, Pause, vars, Lapse, Lapsed
<1> QED
  BY <1>1, <1>2, <1>3, <1>4 DEF Next

\* When only one process moves, out of its step, and no row changes.
LEMMA PlacesLeft ==
    ASSUME Places, NEW p \in Processes, \A q \in Processes \ {p} : proc'[q] = proc[q],
           proc'[p].at \notin Occupied, step' = step, graph' = graph
    PROVE  Places'
BY DEF Places, Waits, Kind, Occupied

LEMMA PlacesStep == Typed /\ Places /\ [Next]_vars => Places'
<1> SUFFICES ASSUME Typed, Places, [Next]_vars PROVE Places'
  OBVIOUS
<1>a. Rows /\ proc \in [Processes -> Process] /\ \A p \in Processes : Sound(proc[p])
  BY TypedParts
<1>b. graph' = graph
  BY Remembers
<1>1. ASSUME NEW p \in Processes, NEW m \in tasks, Take(p, m) PROVE Places'
  <2>1. CASE UNCHANGED proc
    BY <1>1, <2>1 DEF Take, Places, Waits, Kind
  <2>2. CASE proc' = [proc EXCEPT ![p] = [Idle EXCEPT !.at = "settled", !.task = m, !.to = m.node]]
    <3>1. proc'[p].at = "settled"
      BY <2>2, <1>a DEF Idle
    <3> QED
      BY <1>1, <1>b, <2>2, <3>1, <1>a, PlacesLeft DEF Take, Occupied
  <2>3. CASE proc' = [proc EXCEPT ![p] = [Idle EXCEPT !.at = "read", !.task = m, !.node = m.node]]
    <3>1. proc'[p].at = "read"
      BY <2>3, <1>a DEF Idle
    <3> QED
      BY <1>1, <1>b, <2>3, <3>1, <1>a, PlacesLeft DEF Take, Occupied
  <2> QED
    BY <1>1, <2>1, <2>2, <2>3 DEF Take
<1>2. ASSUME NEW p \in Processes, Start(p) \/ Advance(p) \/ Resume(p) PROVE Places'
  <2>1. PICK t : proc' = Sending(p, t)
    BY <1>2 DEF Start, Advance, Resume, Resumed
  <2> QED
    BY <1>2, <1>a, <1>b, <2>1, SendingAt, PlacesLeft DEF Start, Advance, Resume, Occupied
<1>3. ASSUME NEW p \in Processes, Complete(p) PROVE Places'
  <2> DEFINE q == [proc EXCEPT ![p] = Idle]
  <2>1. q \in [Processes -> Process] /\ proc' = Overtaken(q) /\ step' = step
    BY <1>3, <1>a, IdleIsTyped DEF Complete
  <2>2. \A e \in Processes \ {p} : q[e] = proc[e]
    OBVIOUS
  <2>3. q[p].at = "idle"
    BY <1>a DEF Idle
  <2> HIDE DEF q
  <2> QED
    BY <1>b, <2>1, <2>2, <2>3, OvertakenAt DEF Places, Waits, Kind
<1>4. ASSUME NEW p \in Processes, Claim(p) PROVE Places'
  <2>1. CASE Done(p) /\ UNCHANGED step
    BY <1>4, <1>b, <2>1, <1>a, DoneAt, PlacesLeft DEF Claim, Occupied
  <2>2. CASE LET n == proc[p].node
                 s == IF step[n] = "pending" THEN "running" ELSE step[n]
             IN  /\ step[n] # "completed"
                 /\ SetStep(n, s)
                 /\ proc' = [proc EXCEPT ![p].at = "claimed", ![p].found = s]
    <3> DEFINE n == proc[p].node
               s == IF step[n] = "pending" THEN "running" ELSE step[n]
    <3>1. n \in Nodes
      BY <1>4, <1>a DEF Claim, Sound, SoundTask, NodeTasks
    <3>2. /\ \A q \in Processes \ {p} : proc'[q] = proc[q]
          /\ proc'[p].at = "claimed" /\ proc'[p].node = n /\ proc'[p].found = s
      BY <2>2, <1>a DEF Process
    <3>3. \A k \in Nodes : step'[k] = IF k = n THEN s ELSE step[k]
      BY <2>2, <3>1, <1>a DEF SetStep, Rows
    <3>4. Waits(n) => s \in {"running", "waiting"}
      BY <2>2, <3>1 DEF Places
    <3>5. s = "waiting" => Waits(n)
      BY <3>1 DEF Places
    <3> HIDE DEF n, s
    <3> QED
      BY <1>b, <3>1, <3>2, <3>3, <3>4, <3>5 DEF Places, Waits, Kind
  <2> QED
    BY <1>4, <2>1, <2>2 DEF Claim
<1>5. ASSUME NEW p \in Processes, Settle(p) PROVE Places'
  <2>1. PICK n : proc' = Settling(p, n)
    BY <1>5 DEF Settle
  <2>2. proc'[p].at = "settled" /\ \A q \in Processes \ {p} : proc'[q] = proc[q]
    BY <2>1, <1>a, SettlingAt
  <2>3. \A k \in Nodes : step'[k] \in {step[k], "completed"}
    BY <1>5, <1>a DEF Settle, SetStep, Rows
  <2> QED
    BY <1>b, <2>2, <2>3 DEF Places, Waits, Kind
<1>6. ASSUME NEW p \in Processes, Execute(p) PROVE Places'
  <2>1. /\ \A q \in Processes \ {p} : proc'[q] = proc[q]
        /\ proc'[p].at = "executed" /\ proc'[p].node = proc[p].node
    BY <1>6, <1>a DEF Execute, Process
  <2>2. Kind(p) = "action" /\ step' = step
    BY <1>6 DEF Execute
  <2> QED
    BY <1>b, <2>1, <2>2 DEF Places, Waits, Kind
<1>7. ASSUME NEW p \in Processes, Raises(p) PROVE Places'
  <2>1. \A k \in Nodes : step'[k] = IF k = proc[p].node THEN "failed" ELSE step[k]
    BY <1>7, <1>a DEF Raises, SetStep, Rows
  <2> QED
    BY <1>7, <1>a, <1>b, <2>1, AtAt DEF Raises, Places, Waits, Kind
<1>8. ASSUME NEW p \in Processes, FailRun(p) \/ PauseRun(p) \/ Send(p) \/ Dies(p) PROVE Places'
  BY <1>8, <1>a, <1>b, DoneAt, PlacesLeft DEF FailRun, PauseRun, Send, Dies, Occupied
<1>9. ASSUME NEW p \in Processes, Park(p) PROVE Places'
  <2>1. CASE Done(p) /\ UNCHANGED step
    BY <1>b, <2>1, <1>a, DoneAt, PlacesLeft DEF Occupied
  <2>2. CASE SetStep(proc[p].node, "waiting_input") /\ At(p, "parking")
    <3>1. \A k \in Nodes : step'[k] = IF k = proc[p].node THEN "waiting_input" ELSE step[k]
      BY <2>2, <1>a DEF SetStep, Rows
    <3> QED
      BY <1>9, <1>a, <1>b, <2>2, <3>1, AtAt DEF Park, Places, Waits, Kind
  <2> QED
    BY <1>9, <2>1, <2>2 DEF Park
<1>10. ASSUME NEW p \in Processes, Arm(p) PROVE Places'
  <2>1. \A k \in Nodes : step'[k] = IF k = proc[p].node THEN "waiting" ELSE step[k]
    BY <1>10, <1>a DEF Arm, SetStep, Rows
  <2>2. proc'[p].at = "sending" /\ \A q \in Processes \ {p} : proc'[q] = proc[q]
    BY <1>10, <1>a, SendingAt DEF Arm
  <2> QED
    BY <1>10, <1>b, <2>1, <2>2 DEF Arm, Places, Waits, Kind
<1>11. ASSUME NEW p \in Processes, EndWait(p) PROVE Places'
  <2>1. CASE Done(p) /\ UNCHANGED step
    BY <1>b, <2>1, <1>a, DoneAt, PlacesLeft DEF Occupied
  <2>2. CASE /\ step[proc[p].node] = "waiting"
             /\ SetStep(proc[p].node, "running")
             /\ \E b : proc' = [proc EXCEPT ![p].at = "chosen", ![p].to = b]
    <3>1. proc[p].node \in Nodes
      BY <1>11, <1>a DEF EndWait, TimesOut, Resolves, Sound, SoundTask, NodeTasks, Occupied
    <3>2. \A k \in Nodes : step'[k] = IF k = proc[p].node THEN "running" ELSE step[k]
      BY <2>2, <1>a DEF SetStep, Rows
    <3>3. /\ \A q \in Processes \ {p} : proc'[q] = proc[q]
          /\ proc'[p].at = "chosen" /\ proc'[p].node = proc[p].node
      BY <2>2, <1>a DEF Process
    <3>4. Kind(p) = "wait_until"
      BY <2>2, <3>1 DEF Places, Waits, Kind
    <3> QED
      BY <1>b, <3>1, <3>2, <3>3, <3>4 DEF Places, Waits, Kind
  <2> QED
    BY <1>11, <2>1, <2>2 DEF EndWait
<1>12. ASSUME NEW n \in Nodes, Event(n) PROVE Places'
  BY <1>12, <1>b DEF Event, Places, Waits, Kind
<1>13. ASSUME Cancel PROVE Places'
  BY <1>13, <1>a, <1>b, OvertakenAt DEF Cancel, Places, Waits, Kind
<1>14. CASE Pause \/ UNCHANGED vars
  BY <1>14, <1>b DEF Pause, vars, Places, Waits, Kind
<1>15. ASSUME NEW p \in Processes, Retry(p) PROVE Places'
  <2>1. PICK n : /\ step' = [m \in Nodes |-> IF m = n /\ step[m] = "failed" THEN "pending" ELSE step[m]]
                 /\ proc' = Sending(p, Restart(n))
    BY <1>15 DEF Retry, Resumed
  <2>2. proc'[p].at = "sending" /\ \A q \in Processes \ {p} : proc'[q] = proc[q]
    BY <2>1, <1>a, SendingAt
  <2> QED
    BY <1>b, <2>1, <2>2 DEF Places, Waits, Kind
<1>16. ASSUME NEW p \in Processes, NEW n \in Nodes, Answer(p, n) PROVE Places'
  <2>1. PICK t : proc' = Sending(p, t)
    BY <1>16 DEF Answer
  <2>2. proc'[p].at = "sending" /\ \A q \in Processes \ {p} : proc'[q] = proc[q]
    BY <2>1, <1>a, SendingAt
  <2>3. \A k \in Nodes : step'[k] = IF k = n THEN "completed" ELSE step[k]
    BY <1>16, <1>a DEF Answer, SetStep, Rows
  <2> QED
    BY <1>b, <2>2, <2>3 DEF Places, Waits, Kind
<1>17. ASSUME NEW p \in Processes, NEW n \in Nodes, Approve(p, n) PROVE Places'
  <2>1. /\ proc'[p].at = "executed" /\ proc'[p].node = n
        /\ \A q \in Processes \ {p} : proc'[q] = proc[q]
    BY <1>17, <1>a DEF Approve, Idle
  <2> QED
    BY <1>17, <1>b, <2>1 DEF Approve, Places, Waits, Kind
<1>18. ASSUME NEW n \in Nodes, Review(n) PROVE Places'
  <2>1. PICK s \in {"failed", "waiting_input"} : SetStep(n, s)
    BY <1>18 DEF Review
  <2>2. \A k \in Nodes : step'[k] = IF k = n THEN s ELSE step[k]
    BY <2>1, <1>a DEF SetStep, Rows
  <2> QED
    BY <1>18, <1>b, <2>2 DEF Review, Places, Waits, Kind
<1> QED
  BY <1>1, <1>2, <1>3, <1>4, <1>5, <1>6, <1>7, <1>8, <1>9, <1>10, <1>11, <1>12, <1>13, <1>14,
     <1>15, <1>16, <1>17, <1>18 DEF Next, Work

-----------------------------------------------------------------------------

\* The one who is to end a wait, or to arm it.
Holds(p, n) ==
    /\ proc[p].node = n /\ Waits(n)
    /\ proc[p].at = "chosen" \/ (proc[p].at = "claimed" /\ proc[p].found # "waiting")

\* There is one at most, who has the step running; a wait that has taken a branch is over.
OneHolder ==
    /\ \A p \in Processes, n \in Nodes : Holds(p, n) => step[n] = "running"
    /\ \A p, q \in Processes, n \in Nodes : Holds(p, n) /\ Holds(q, n) => p = q
    /\ \A n \in Nodes : took[n] # {} => Waits(n) /\ step[n] = "completed" /\ took[n] # BOOLEAN

Alone == "shared" \notin lapses => OneHolder

\* When only one process moves, to where it holds no wait, and the waits stay.
LEMMA NoNewHolder ==
    ASSUME OneHolder, graph' = graph, took' = took, NEW p \in Processes,
           \A q \in Processes \ {p} : proc'[q] = proc[q],
           \A n \in Nodes : ~Holds(p, n)',
           \A n \in Nodes : Waits(n) => step'[n] = step[n]
    PROVE  OneHolder'
BY DEF OneHolder, Holds, Waits

\* A step of a node that is no wait leaves the waits alone.
LEMMA OtherStep ==
    ASSUME Rows, NEW n, graph.kind[n] # "wait_until", NEW s, SetStep(n, s)
    PROVE  \A k \in Nodes : Waits(k) => step'[k] = step[k]
BY DEF Rows, SetStep, Waits

LEMMA AloneStep == Typed /\ Places /\ Alone /\ [Next]_vars => Alone'
<1> SUFFICES ASSUME Typed, Places, Alone, [Next]_vars, "shared" \notin lapses' PROVE OneHolder'
  BY DEF Alone
<1>a. Rows /\ proc \in [Processes -> Process] /\ \A p \in Processes : Sound(proc[p])
  BY TypedParts
<1>b. graph' = graph
  BY Remembers
<1>c. OneHolder
  BY Remembers DEF Alone
<1>1. ASSUME NEW p \in Processes, NEW m \in tasks, Take(p, m) PROVE OneHolder'
  <2>1. CASE UNCHANGED proc
    BY <1>1, <1>c, <2>1 DEF Take, OneHolder, Holds, Waits
  <2>2. CASE proc' = [proc EXCEPT ![p] = [Idle EXCEPT !.at = "settled", !.task = m, !.to = m.node]]
    <3>1. proc'[p].at = "settled" /\ \A q \in Processes \ {p} : proc'[q] = proc[q]
      BY <2>2, <1>a DEF Idle
    <3> QED
      BY <1>1, <1>b, <1>c, <3>1, NoNewHolder DEF Take, Holds
  <2>3. CASE proc' = [proc EXCEPT ![p] = [Idle EXCEPT !.at = "read", !.task = m, !.node = m.node]]
    <3>1. proc'[p].at = "read" /\ \A q \in Processes \ {p} : proc'[q] = proc[q]
      BY <2>3, <1>a DEF Idle
    <3> QED
      BY <1>1, <1>b, <1>c, <3>1, NoNewHolder DEF Take, Holds
  <2> QED
    BY <1>1, <2>1, <2>2, <2>3 DEF Take
<1>2. ASSUME NEW p \in Processes, Start(p) \/ Advance(p) \/ Resume(p) PROVE OneHolder'
  <2>1. PICK t : proc' = Sending(p, t)
    BY <1>2 DEF Start, Advance, Resume, Resumed
  <2>2. proc'[p].at = "sending" /\ \A q \in Processes \ {p} : proc'[q] = proc[q]
    BY <2>1, <1>a, SendingAt
  <2> QED
    BY <1>2, <1>b, <1>c, <2>2, NoNewHolder DEF Start, Advance, Resume, Holds
<1>3. ASSUME NEW p \in Processes, Complete(p) PROVE OneHolder'
  <2> DEFINE q == [proc EXCEPT ![p] = Idle]
  <2>1. q \in [Processes -> Process] /\ proc' = Overtaken(q) /\ step' = step /\ took' = took
    BY <1>3, <1>a, IdleIsTyped DEF Complete
  <2>2. \A e \in Processes \ {p} : q[e] = proc[e]
    OBVIOUS
  <2>3. q[p].at = "idle"
    BY <1>a DEF Idle
  <2> HIDE DEF q
  <2>4. \A e \in Processes, n \in Nodes : Holds(e, n)' => Holds(e, n)
    BY <1>b, <2>1, <2>2, <2>3, OvertakenAt DEF Holds, Waits
  <2> QED
    BY <1>b, <1>c, <2>1, <2>4 DEF OneHolder, Waits
<1>4. ASSUME NEW p \in Processes, Claim(p) PROVE OneHolder'
  <2> DEFINE n == proc[p].node
             s == IF step[n] = "pending" THEN "running" ELSE step[n]
  <2>1. n \in Nodes
    BY <1>4, <1>a DEF Claim, Sound, SoundTask, NodeTasks
  <2>2. CASE Done(p) /\ UNCHANGED step
    BY <1>4, <1>a, <1>b, <1>c, <2>2, DoneAt, NoNewHolder DEF Claim, Holds
  <2>3. CASE /\ step[n] # "completed"
             /\ SetStep(n, s)
             /\ proc' = [proc EXCEPT ![p].at = "claimed", ![p].found = s]
             /\ Lapse("shared", s # "waiting" /\ Inside(n) # {})
    <3>1. /\ \A q \in Processes \ {p} : proc'[q] = proc[q]
          /\ proc'[p].at = "claimed" /\ proc'[p].node = n /\ proc'[p].found = s
      BY <2>3, <1>a DEF Process
    <3>2. \A k \in Nodes : step'[k] = IF k = n THEN s ELSE step[k]
      BY <2>1, <2>3, <1>a DEF SetStep, Rows
    <3>3. took' = took
      BY <1>4 DEF Claim
    <3>4. s # "waiting" => \A q \in Processes : ~Holds(q, n)
      BY <2>3, <3>1 DEF Lapse, Lapsed, Inside, Holds
    <3>5. Waits(n) => s \in {"running", "waiting"}
      BY <2>1, <2>3 DEF Places
    <3>6. Waits(n) => took[n] = {}
      BY <1>c, <2>1, <2>3 DEF OneHolder
    <3>7. s = "waiting" => step[n] = "waiting"
      OBVIOUS
    <3> HIDE DEF n, s
    <3>8. \A q \in Processes \ {p}, k \in Nodes : Holds(q, k)' <=> Holds(q, k)
      BY <1>b, <3>1 DEF Holds, Waits
    <3>9. \A k \in Nodes : Holds(p, k)' => k = n /\ s = "running" /\ Waits(n)
      BY <1>b, <3>1, <3>5 DEF Holds, Waits
    <3>10. \A q \in Processes, k \in Nodes : Holds(q, k)' => step'[k] = "running"
      BY <1>c, <2>1, <3>2, <3>4, <3>7, <3>8, <3>9 DEF OneHolder
    <3>11. \A q, r \in Processes, k \in Nodes : Holds(q, k)' /\ Holds(r, k)' => q = r
      BY <1>c, <2>1, <3>4, <3>8, <3>9 DEF OneHolder
    <3>12. \A k \in Nodes :
              took'[k] # {} => Waits(k)' /\ step'[k] = "completed" /\ took'[k] # BOOLEAN
      BY <1>b, <1>c, <2>1, <3>2, <3>3, <3>6 DEF OneHolder, Waits
    <3> QED
      BY <3>10, <3>11, <3>12 DEF OneHolder
  <2> QED
    BY <1>4, <2>2, <2>3 DEF Claim
<1>5. ASSUME NEW p \in Processes, Settle(p) PROVE OneHolder'
  <2> DEFINE n == proc[p].node
  <2>1. PICK t : proc' = Settling(p, t)
    BY <1>5 DEF Settle
  <2>2. proc'[p].at = "settled" /\ \A q \in Processes \ {p} : proc'[q] = proc[q]
    BY <2>1, <1>a, SettlingAt
  <2>3. CASE UNCHANGED took /\ (proc[p].at = "executed" \/ Kind(p) \in {"condition", "end"})
    <3>1. graph.kind[n] # "wait_until"
      BY <2>3 DEF Places, Kind
    <3>2. \A k \in Nodes : Waits(k) => step'[k] = step[k]
      BY <1>5, <1>a, <3>1, OtherStep DEF Settle
    <3> QED
      BY <1>b, <1>c, <2>2, <2>3, <3>2, NoNewHolder DEF Holds
  <2>4. CASE /\ proc[p].at = "chosen"
             /\ took' = [took EXCEPT ![n] = @ \cup {proc[p].task.task = "resolve"}]
    <3>1. n \in Nodes /\ Holds(p, n)
      BY <1>a, <2>4 DEF Sound, Occupied, Holds, Places, Kind, Waits
    <3>2. took[n] = {} /\ \A q \in Processes \ {p} : ~Holds(q, n)
      BY <1>c, <3>1 DEF OneHolder
    <3>3. took'[n] = {proc[p].task.task = "resolve"} /\ \A k \in Nodes \ {n} : took'[k] = took[k]
      BY <1>a, <2>4, <3>1, <3>2 DEF Rows
    <3>4. took'[n] # BOOLEAN
      BY <3>3
    <3>5. \A k \in Nodes : step'[k] = IF k = n THEN "completed" ELSE step[k]
      BY <1>5, <1>a DEF Settle, SetStep, Rows
    <3> HIDE DEF n
    <3>6. \A q \in Processes, k \in Nodes : Holds(q, k)' => q # p /\ k # n /\ Holds(q, k)
      BY <1>b, <2>2, <3>2 DEF Holds, Waits
    <3>7. \A k \in Nodes :
              took'[k] # {} => Waits(k)' /\ step'[k] = "completed" /\ took'[k] # BOOLEAN
      BY <1>b, <1>c, <3>1, <3>3, <3>4, <3>5 DEF OneHolder, Waits, Holds
    <3> QED
      BY <1>c, <3>5, <3>6, <3>7 DEF OneHolder
  <2> QED
    BY <1>5, <2>3, <2>4 DEF Settle
<1>6. ASSUME NEW p \in Processes, Execute(p) PROVE OneHolder'
  <2>1. /\ \A q \in Processes \ {p} : proc'[q] = proc[q]
        /\ proc'[p].at = "executed"
    BY <1>6, <1>a DEF Execute, Process
  <2> QED
    BY <1>6, <1>b, <1>c, <2>1, NoNewHolder DEF Execute, Holds
<1>7. ASSUME NEW p \in Processes, Raises(p) PROVE OneHolder'
  <2>1. \A k \in Nodes : Waits(k) => step'[k] = step[k]
    BY <1>7, <1>a, OtherStep DEF Raises, Kind
  <2> QED
    BY <1>7, <1>a, <1>b, <1>c, <2>1, AtAt, NoNewHolder DEF Raises, Holds
<1>8. ASSUME NEW p \in Processes, FailRun(p) \/ PauseRun(p) \/ Send(p) \/ Dies(p) PROVE OneHolder'
  <2>1. Done(p) /\ step' = step /\ took' = took
    BY <1>8 DEF FailRun, PauseRun, Send, Dies
  <2> QED
    BY <1>a, <1>b, <1>c, <2>1, DoneAt, NoNewHolder DEF Holds
<1>9. ASSUME NEW p \in Processes, Park(p) PROVE OneHolder'
  <2>1. CASE Done(p) /\ UNCHANGED step
    BY <1>9, <1>a, <1>b, <1>c, <2>1, DoneAt, NoNewHolder DEF Park, Holds
  <2>2. CASE SetStep(proc[p].node, "waiting_input") /\ At(p, "parking")
    <3>1. \A k \in Nodes : Waits(k) => step'[k] = step[k]
      BY <1>9, <1>a, <2>2, OtherStep DEF Park, Kind
    <3> QED
      BY <1>9, <1>a, <1>b, <1>c, <2>2, <3>1, AtAt, NoNewHolder DEF Park, Holds
  <2> QED
    BY <1>9, <2>1, <2>2 DEF Park
<1>10. ASSUME NEW p \in Processes, Arm(p) PROVE OneHolder'
  <2> DEFINE n == proc[p].node
  <2>1. n \in Nodes /\ Holds(p, n)
    BY <1>10, <1>a DEF Arm, Sound, Occupied, Holds, Kind, Waits
  <2>2. \A k \in Nodes : step'[k] = IF k = n THEN "waiting" ELSE step[k]
    BY <1>10, <1>a DEF Arm, SetStep, Rows
  <2>3. proc'[p].at = "sending" /\ \A q \in Processes \ {p} : proc'[q] = proc[q]
    BY <1>10, <1>a, SendingAt DEF Arm
  <2>4. took' = took
    BY <1>10 DEF Arm
  <2> HIDE DEF n
  <2>5. \A q \in Processes, k \in Nodes : Holds(q, k)' => q # p /\ k # n /\ Holds(q, k)
    BY <1>b, <1>c, <2>1, <2>3 DEF OneHolder, Holds, Waits
  <2>6. took[n] = {}
    BY <1>c, <2>1 DEF OneHolder
  <2> QED
    BY <1>b, <1>c, <2>2, <2>4, <2>5, <2>6 DEF OneHolder, Waits
<1>11. ASSUME NEW p \in Processes, EndWait(p) PROVE OneHolder'
  <2> DEFINE n == proc[p].node
  <2>1. n \in Nodes
    BY <1>11, <1>a DEF EndWait, TimesOut, Resolves, Sound, SoundTask, NodeTasks, Occupied
  <2>2. CASE Done(p) /\ UNCHANGED step
    BY <1>11, <1>a, <1>b, <1>c, <2>2, DoneAt, NoNewHolder DEF EndWait, Holds
  <2>3. CASE /\ step[n] = "waiting"
             /\ SetStep(n, "running")
             /\ \E b : proc' = [proc EXCEPT ![p].at = "chosen", ![p].to = b]
    <3>1. took[n] = {} /\ \A q \in Processes : ~Holds(q, n)
      BY <1>c, <2>1, <2>3 DEF OneHolder
    <3>2. \A k \in Nodes : step'[k] = IF k = n THEN "running" ELSE step[k]
      BY <2>3, <1>a DEF SetStep, Rows
    <3>3. /\ \A q \in Processes \ {p} : proc'[q] = proc[q]
          /\ proc'[p].at = "chosen" /\ proc'[p].node = n
      BY <2>3, <1>a DEF Process
    <3>4. took' = took
      BY <1>11 DEF EndWait
    <3> HIDE DEF n
    <3>5. \A q \in Processes \ {p}, k \in Nodes : Holds(q, k)' => k # n /\ Holds(q, k)
      BY <1>b, <3>1, <3>3 DEF Holds, Waits
    <3>6. \A k \in Nodes : Holds(p, k)' => k = n
      BY <3>3 DEF Holds
    <3>7. \A k \in Nodes :
              took'[k] # {} => Waits(k)' /\ step'[k] = "completed" /\ took'[k] # BOOLEAN
      BY <1>b, <1>c, <3>1, <3>2, <3>4 DEF OneHolder, Waits
    <3>8. \A q \in Processes, k \in Nodes : Holds(q, k)' => step'[k] = "running"
      BY <1>c, <3>2, <3>5, <3>6 DEF OneHolder
    <3>9. \A q, r \in Processes, k \in Nodes : Holds(q, k)' /\ Holds(r, k)' => q = r
      BY <1>c, <3>5, <3>6 DEF OneHolder
    <3> QED
      BY <3>7, <3>8, <3>9 DEF OneHolder
  <2> QED
    BY <1>11, <2>2, <2>3 DEF EndWait
<1>12. ASSUME NEW n \in Nodes, Event(n) PROVE OneHolder'
  BY <1>12, <1>b, <1>c DEF Event, OneHolder, Holds, Waits
<1>13. ASSUME Cancel PROVE OneHolder'
  <2>1. \A e \in Processes, n \in Nodes : Holds(e, n)' => Holds(e, n)
    BY <1>13, <1>a, <1>b, OvertakenAt DEF Cancel, Holds, Waits
  <2> QED
    BY <1>13, <1>b, <1>c, <2>1 DEF Cancel, OneHolder, Waits
<1>14. CASE Pause \/ UNCHANGED vars
  BY <1>14, <1>b, <1>c DEF Pause, vars, OneHolder, Holds, Waits
<1>15. ASSUME NEW p \in Processes, Retry(p) PROVE OneHolder'
  <2>1. PICK n : /\ step' = [m \in Nodes |-> IF m = n /\ step[m] = "failed" THEN "pending" ELSE step[m]]
                 /\ proc' = Sending(p, Restart(n))
    BY <1>15 DEF Retry, Resumed
  <2>2. proc'[p].at = "sending" /\ \A q \in Processes \ {p} : proc'[q] = proc[q]
    BY <2>1, <1>a, SendingAt
  <2>3. \A k \in Nodes : Waits(k) => step'[k] = step[k]
    BY <2>1 DEF Places
  <2>4. took' = took
    BY <1>15 DEF Retry
  <2> QED
    BY <1>b, <1>c, <2>2, <2>3, <2>4, NoNewHolder DEF Holds
<1>16. ASSUME NEW p \in Processes, NEW n \in Nodes, Answer(p, n) PROVE OneHolder'
  <2>1. PICK t : proc' = Sending(p, t)
    BY <1>16 DEF Answer
  <2>2. proc'[p].at = "sending" /\ \A q \in Processes \ {p} : proc'[q] = proc[q]
    BY <2>1, <1>a, SendingAt
  <2>3. \A k \in Nodes : Waits(k) => step'[k] = step[k]
    BY <1>16, <1>a, OtherStep DEF Answer
  <2>4. took' = took
    BY <1>16 DEF Answer
  <2> QED
    BY <1>b, <1>c, <2>2, <2>3, <2>4, NoNewHolder DEF Holds
<1>17. ASSUME NEW p \in Processes, NEW n \in Nodes, Approve(p, n) PROVE OneHolder'
  <2>1. /\ proc'[p].at = "executed" /\ \A q \in Processes \ {p} : proc'[q] = proc[q]
    BY <1>17, <1>a DEF Approve, Idle
  <2> QED
    BY <1>17, <1>b, <1>c, <2>1, NoNewHolder DEF Approve, Holds
<1>18. ASSUME NEW n \in Nodes, Review(n) PROVE OneHolder'
  <2>1. \A k \in Nodes : Waits(k) => step'[k] = step[k]
    BY <1>18, <1>a, OtherStep DEF Review
  <2> QED
    BY <1>18, <1>b, <1>c, <2>1 DEF Review, OneHolder, Holds, Waits
<1> QED
  BY <1>1, <1>2, <1>3, <1>4, <1>5, <1>6, <1>7, <1>8, <1>9, <1>10, <1>11, <1>12, <1>13, <1>14,
     <1>15, <1>16, <1>17, <1>18 DEF Next, Work

\* A wait takes one branch, however its timer, its event and second deliveries of
\* either race: who ends the wait holds its step, and nobody else is let in.
THEOREM BranchesOnce == Spec => []OneBranch
<1>1. Init => Typed
  BY TypedInit
<1>2. Init => Places /\ Alone
  BY DEF Init, Idle, Places, Alone, OneHolder, Holds, Kind
<1> DEFINE Inv == Typed /\ Places /\ Alone
<1>3. Inv /\ [Next]_vars => Inv'
  BY TypedStep, PlacesStep, AloneStep
<1>4. Inv => OneBranch
  BY DEF Alone, OneHolder, OneBranch
<1> QED
  BY <1>1, <1>2, <1>3, <1>4, PTL DEF Spec
-----------------------------------------------------------------------------

\* The nodes that act on the world, and who is at one.
Acts(n)     == graph.kind[n] \in {"action", "email"}
Doing(p, n) == proc[p].node = n /\ Acts(n) /\ proc[p].at \in Occupied

\* One at most is at such a node, whose step is not completed; a node that has acted has
\* done so once, and its step is completed or about to be.
OneDoer ==
    /\ \A p \in Processes, n \in Nodes : Doing(p, n) => step[n] # "completed"
    /\ \A p, q \in Processes, n \in Nodes : Doing(p, n) /\ Doing(q, n) => p = q
    /\ \A n \in Nodes : sent[n] # 0 =>
        /\ sent[n] = 1 /\ Acts(n)
        /\ step[n] = "completed" \/ \E p \in Processes : Doing(p, n) /\ proc[p].at = "executed"

Once == lapses \subseteq {"returned"} => OneDoer

\* The steps that are completed, of the nodes that act, stay the same.
SameDone == \A n \in Nodes : Acts(n) => (step'[n] = "completed" <=> step[n] = "completed")

\* When only one process moves, which enters no step and leaves none in which it has acted.
LEMMA NoNewDoer ==
    ASSUME OneDoer, graph' = graph, sent' = sent, NEW p \in Processes, proc[p].at # "executed",
           \A q \in Processes \ {p} : proc'[q] = proc[q],
           \A n \in Nodes : Doing(p, n)' => Doing(p, n),
           SameDone
    PROVE  OneDoer'
<1>1. \A q \in Processes, n \in Nodes : Doing(q, n)' => Doing(q, n)
  BY DEF Doing, Acts
<1>2. \A n \in Nodes : sent'[n] # 0 =>
        /\ sent'[n] = 1 /\ Acts(n)'
        /\ step'[n] = "completed" \/ \E q \in Processes : Doing(q, n)' /\ proc'[q].at = "executed"
  BY DEF OneDoer, Doing, Acts, SameDone
<1>3. \A q \in Processes, n \in Nodes : Doing(q, n)' => step'[n] # "completed"
  BY <1>1 DEF OneDoer, SameDone, Doing
<1> QED
  BY <1>1, <1>2, <1>3 DEF OneDoer

\* When the process was elsewhere and goes elsewhere.
LEMMA NoDoer ==
    ASSUME OneDoer, graph' = graph, sent' = sent, step' = step, NEW p \in Processes,
           \A q \in Processes \ {p} : proc'[q] = proc[q],
           proc[p].at # "executed", proc'[p].at \notin Occupied
    PROVE  OneDoer'
BY NoNewDoer DEF Doing, SameDone

\* Nobody is at a node when there is nobody inside.
LEMMA NobodyInside ==
    ASSUME NEW n \in Nodes, Inside(n) = {}
    PROVE  \A q \in Processes : ~Doing(q, n)
BY DEF Inside, Doing, Occupied

LEMMA OnceStep == Typed /\ Places /\ Once /\ [Next]_vars => Once'
<1> SUFFICES ASSUME Typed, Places, Once, [Next]_vars, lapses' \subseteq {"returned"} PROVE OneDoer'
  BY DEF Once
<1>a. Rows /\ proc \in [Processes -> Process] /\ \A p \in Processes : Sound(proc[p])
  BY TypedParts
<1>b. graph' = graph
  BY Remembers
<1>c. OneDoer
  BY Remembers DEF Once
<1>1. ASSUME NEW p \in Processes, NEW m \in tasks, Take(p, m) PROVE OneDoer'
  <2>1. CASE UNCHANGED proc
    BY <1>1, <1>c, <2>1 DEF Take, OneDoer, Doing, Acts
  <2>2. CASE proc' = [proc EXCEPT ![p] = [Idle EXCEPT !.at = "settled", !.task = m, !.to = m.node]]
    <3>1. proc'[p].at = "settled" /\ \A q \in Processes \ {p} : proc'[q] = proc[q]
      BY <2>2, <1>a DEF Idle
    <3> QED
      BY <1>1, <1>b, <1>c, <3>1, NoDoer DEF Take, Occupied
  <2>3. CASE proc' = [proc EXCEPT ![p] = [Idle EXCEPT !.at = "read", !.task = m, !.node = m.node]]
    <3>1. proc'[p].at = "read" /\ \A q \in Processes \ {p} : proc'[q] = proc[q]
      BY <2>3, <1>a DEF Idle
    <3> QED
      BY <1>1, <1>b, <1>c, <3>1, NoDoer DEF Take, Occupied
  <2> QED
    BY <1>1, <2>1, <2>2, <2>3 DEF Take
<1>2. ASSUME NEW p \in Processes, Start(p) \/ Advance(p) \/ Resume(p) PROVE OneDoer'
  <2>1. PICK t : proc' = Sending(p, t)
    BY <1>2 DEF Start, Advance, Resume, Resumed
  <2>2. proc'[p].at = "sending" /\ \A q \in Processes \ {p} : proc'[q] = proc[q]
    BY <2>1, <1>a, SendingAt
  <2> QED
    BY <1>2, <1>b, <1>c, <2>2, NoDoer DEF Start, Advance, Resume, Occupied
<1>3. ASSUME NEW p \in Processes, Complete(p) PROVE OneDoer'
  <2> DEFINE q == [proc EXCEPT ![p] = Idle]
  <2>1. /\ q \in [Processes -> Process] /\ proc' = Overtaken(q)
        /\ step' = step /\ sent' = sent /\ proc[p].at = "read"
    BY <1>3, <1>a, IdleIsTyped DEF Complete
  <2>2. \A e \in Processes \ {p} : q[e] = proc[e]
    OBVIOUS
  <2>3. q[p].at = "idle"
    BY <1>a DEF Idle
  <2> HIDE DEF q
  <2>4. \A e \in Processes, n \in Nodes : Doing(e, n)' <=> Doing(e, n)
    BY <1>b, <2>1, <2>2, <2>3, OvertakenAt DEF Doing, Acts, Occupied
  <2>5. \A e \in Processes, n \in Nodes :
            Doing(e, n) /\ proc[e].at = "executed" => proc'[e].at = "executed"
    BY <2>1, <2>2, <2>3, OvertakenAt
  <2> QED
    BY <1>b, <1>c, <2>1, <2>4, <2>5 DEF OneDoer, Acts
<1>4. ASSUME NEW p \in Processes, Claim(p) PROVE OneDoer'
  <2> DEFINE n == proc[p].node
             s == IF step[n] = "pending" THEN "running" ELSE step[n]
  <2>1. n \in Nodes
    BY <1>4, <1>a DEF Claim, Sound, SoundTask, NodeTasks
  <2>2. CASE Done(p) /\ UNCHANGED step
    BY <1>4, <1>a, <1>b, <1>c, <2>2, DoneAt, NoDoer DEF Claim, Occupied
  <2>3. CASE /\ step[n] # "completed"
             /\ SetStep(n, s)
             /\ proc' = [proc EXCEPT ![p].at = "claimed", ![p].found = s]
             /\ Lapse("shared", s # "waiting" /\ Inside(n) # {})
    <3>1. /\ \A q \in Processes \ {p} : proc'[q] = proc[q]
          /\ proc'[p].at = "claimed" /\ proc'[p].node = n
      BY <2>3, <1>a DEF Process
    <3>2. \A k \in Nodes : step'[k] = IF k = n THEN s ELSE step[k]
      BY <2>1, <2>3, <1>a DEF SetStep, Rows
    <3>3. sent' = sent /\ proc[p].at = "read"
      BY <1>4 DEF Claim
    <3>4. Acts(n) => s # "waiting"
      BY <2>1 DEF Places, Waits, Acts
    <3>5. Acts(n) => Inside(n) = {}
      BY <2>3, <3>4 DEF Lapse, Lapsed
    <3>6. Acts(n) => \A q \in Processes : ~Doing(q, n)
      BY <2>1, <3>5, NobodyInside
    <3>7. s # "completed"
      BY <2>3
    <3>8. step[n] # "completed"
      BY <2>3
    <3> HIDE DEF n, s
    <3>9. \A q \in Processes \ {p}, k \in Nodes : Doing(q, k)' <=> Doing(q, k)
      BY <1>b, <3>1 DEF Doing, Acts
    <3>10. \A k \in Nodes : Doing(p, k)' => k = n /\ Acts(n)
      BY <1>b, <3>1 DEF Doing, Acts
    <3>11. \A q \in Processes, k \in Nodes : Doing(q, k)' => step'[k] # "completed"
      BY <1>c, <3>2, <3>7, <3>9, <3>10 DEF OneDoer
    <3>12. \A q, r \in Processes, k \in Nodes : Doing(q, k)' /\ Doing(r, k)' => q = r
      BY <1>c, <2>1, <3>6, <3>9, <3>10 DEF OneDoer
    <3>13. \A k \in Nodes : step'[k] = "completed" <=> step[k] = "completed"
      BY <3>2, <3>7, <3>8
    <3>14. \A q \in Processes, k \in Nodes : Doing(q, k) /\ proc[q].at = "executed" =>
                Doing(q, k)' /\ proc'[q].at = "executed"
      BY <3>1, <3>3, <3>9
    <3>15. \A k \in Nodes : sent'[k] # 0 =>
            /\ sent'[k] = 1 /\ Acts(k)'
            /\ step'[k] = "completed" \/ \E q \in Processes : Doing(q, k)' /\ proc'[q].at = "executed"
      BY <1>b, <1>c, <3>3, <3>13, <3>14 DEF OneDoer, Acts
    <3> QED
      BY <3>11, <3>12, <3>15 DEF OneDoer
  <2> QED
    BY <1>4, <2>2, <2>3 DEF Claim
<1>5. ASSUME NEW p \in Processes, Settle(p) PROVE OneDoer'
  <2> DEFINE n == proc[p].node
  <2>1. PICK t : proc' = Settling(p, t)
    BY <1>5 DEF Settle
  <2>2. proc'[p].at = "settled" /\ \A q \in Processes \ {p} : proc'[q] = proc[q]
    BY <2>1, <1>a, SettlingAt
  <2>3. n \in Nodes /\ proc[p].at \in Occupied /\ sent' = sent
    BY <1>5, <1>a DEF Settle, Sound, Occupied
  <2>4. \A k \in Nodes : step'[k] = IF k = n THEN "completed" ELSE step[k]
    BY <1>5, <1>a DEF Settle, SetStep, Rows
  <2>5. Acts(n) => Doing(p, n)
    BY <2>3 DEF Doing
  <2> HIDE DEF n
  <2>6. \A q \in Processes, k \in Nodes : Doing(q, k)' => q # p /\ k # n /\ Doing(q, k)
    BY <1>b, <1>c, <2>2, <2>3, <2>5 DEF OneDoer, Doing, Acts, Occupied
  <2>7. \A q \in Processes, k \in Nodes :
            Doing(q, k) /\ k # n => Doing(q, k)' /\ proc'[q] = proc[q]
    BY <1>b, <2>2, <2>5, <1>5 DEF Doing, Acts, Settle, n
  <2>8. \A k \in Nodes : sent'[k] # 0 =>
            /\ sent'[k] = 1 /\ Acts(k)'
            /\ step'[k] = "completed" \/ \E q \in Processes : Doing(q, k)' /\ proc'[q].at = "executed"
    BY <1>b, <1>c, <2>3, <2>4, <2>7 DEF OneDoer, Acts
  <2> QED
    BY <1>c, <2>4, <2>6, <2>8 DEF OneDoer
<1>6. ASSUME NEW p \in Processes, Execute(p) PROVE OneDoer'
  <2> DEFINE n == proc[p].node
  <2>1. /\ \A q \in Processes \ {p} : proc'[q] = proc[q]
        /\ proc'[p].at = "executed" /\ proc'[p].node = n
    BY <1>6, <1>a DEF Execute, Process
  <2>2. n \in Nodes /\ Doing(p, n)
    BY <1>6, <1>a DEF Execute, Sound, Occupied, Doing, Acts, Kind
  <2>3. sent[n] = 0
    BY <1>6, <1>c, <2>2 DEF OneDoer, Execute
  <2>4. \A k \in Nodes : sent'[k] = IF k = n THEN 1 ELSE sent[k]
    BY <1>6, <1>a, <2>2, <2>3 DEF Execute, OneMore, Rows
  <2>5. step' = step /\ proc[p].at # "executed"
    BY <1>6 DEF Execute
  <2> HIDE DEF n
  <2>6. \A q \in Processes, k \in Nodes : Doing(q, k)' <=> Doing(q, k)
    BY <1>b, <2>1, <2>2 DEF Doing, Acts, Occupied
  <2>7. \A k \in Nodes : sent'[k] # 0 =>
            /\ sent'[k] = 1 /\ Acts(k)'
            /\ step'[k] = "completed" \/ \E q \in Processes : Doing(q, k)' /\ proc'[q].at = "executed"
    BY <1>b, <1>c, <2>1, <2>2, <2>4, <2>5, <2>6 DEF OneDoer, Doing, Acts
  <2> QED
    BY <1>c, <2>5, <2>6, <2>7 DEF OneDoer
<1>7. ASSUME NEW p \in Processes, Raises(p) PROVE OneDoer'
  <2> DEFINE n == proc[p].node
  <2>1. sent' = sent
    BY <1>7, <1>a DEF Raises, Lapse, Lapsed, Rows
  <2>2. /\ \A q \in Processes \ {p} : proc'[q] = proc[q]
        /\ proc'[p].at = "failing" /\ proc'[p].node = n
    BY <1>7, <1>a, AtAt DEF Raises
  <2>3. proc[p].at = "claimed"
    BY <1>7 DEF Raises
  <2>4. \A k \in Nodes : step'[k] = IF k = n THEN "failed" ELSE step[k]
    BY <1>7, <1>a DEF Raises, SetStep, Rows
  <2>5. \A k \in Nodes : Doing(p, k)' => Doing(p, k)
    BY <1>b, <2>2, <2>3 DEF Doing, Acts, Occupied
  <2>6. n \in Nodes /\ (Acts(n) => Doing(p, n))
    BY <2>3, <1>a DEF Sound, Occupied, Doing
  <2>7. SameDone
    BY <1>c, <2>4, <2>6 DEF SameDone, OneDoer
  <2> QED
    BY <1>b, <1>c, <2>1, <2>2, <2>3, <2>5, <2>7, NoNewDoer
<1>8. ASSUME NEW p \in Processes, FailRun(p) \/ PauseRun(p) \/ Send(p) PROVE OneDoer'
  <2>1. Done(p) /\ step' = step /\ sent' = sent /\ proc[p].at # "executed"
    BY <1>8 DEF FailRun, PauseRun, Send
  <2> QED
    BY <1>a, <1>b, <1>c, <2>1, DoneAt, NoDoer DEF Occupied
<1>9. ASSUME NEW p \in Processes, Dies(p) PROVE OneDoer'
  BY <1>9 DEF Dies
<1>10. ASSUME NEW p \in Processes, Park(p) PROVE OneDoer'
  <2>1. proc[p].at = "claimed" /\ sent' = sent
    BY <1>10 DEF Park
  <2>2. CASE Done(p) /\ UNCHANGED step
    BY <1>a, <1>b, <1>c, <2>1, <2>2, DoneAt, NoDoer DEF Occupied
  <2>3. CASE SetStep(proc[p].node, "waiting_input") /\ At(p, "parking")
    <3>1. \A k \in Nodes : step'[k] = IF k = proc[p].node THEN "waiting_input" ELSE step[k]
      BY <1>a, <2>3 DEF SetStep, Rows
    <3>2. /\ \A q \in Processes \ {p} : proc'[q] = proc[q]
          /\ proc'[p].at = "parking" /\ proc'[p].node = proc[p].node
      BY <1>a, <2>3, AtAt
    <3>3. \A k \in Nodes : Doing(p, k)' => Doing(p, k)
      BY <1>b, <2>1, <3>2 DEF Doing, Acts, Occupied
    <3>4. proc[p].node \in Nodes /\ (Acts(proc[p].node) => Doing(p, proc[p].node))
      BY <2>1, <1>a DEF Sound, Occupied, Doing
    <3>5. SameDone
      BY <1>c, <3>1, <3>4 DEF SameDone, OneDoer
    <3> QED
      BY <1>b, <1>c, <2>1, <3>2, <3>3, <3>5, NoNewDoer
  <2> QED
    BY <1>10, <2>2, <2>3 DEF Park
<1>11. ASSUME NEW p \in Processes, Arm(p) PROVE OneDoer'
  <2>1. /\ graph.kind[proc[p].node] = "wait_until" /\ sent' = sent /\ proc[p].at = "claimed"
    BY <1>11 DEF Arm, Kind
  <2>2. \A k \in Nodes : step'[k] = IF k = proc[p].node THEN "waiting" ELSE step[k]
    BY <1>11, <1>a DEF Arm, SetStep, Rows
  <2>3. proc'[p].at = "sending" /\ \A q \in Processes \ {p} : proc'[q] = proc[q]
    BY <1>11, <1>a, SendingAt DEF Arm
  <2>4. SameDone
    BY <2>1, <2>2 DEF SameDone, Acts
  <2>5. \A k \in Nodes : ~Doing(p, k)'
    BY <2>3 DEF Doing, Occupied
  <2> QED
    BY <1>b, <1>c, <2>1, <2>3, <2>4, <2>5, NoNewDoer
<1>12. ASSUME NEW p \in Processes, EndWait(p) PROVE OneDoer'
  <2>1. proc[p].at \in {"claimed", "read"} /\ sent' = sent /\ proc[p].node \in Nodes
    BY <1>12, <1>a DEF EndWait, TimesOut, Resolves, Sound, SoundTask, NodeTasks, Occupied
  <2>2. CASE Done(p) /\ UNCHANGED step
    BY <1>a, <1>b, <1>c, <2>1, <2>2, DoneAt, NoDoer DEF Occupied
  <2>3. CASE /\ step[proc[p].node] = "waiting"
             /\ SetStep(proc[p].node, "running")
             /\ \E b : proc' = [proc EXCEPT ![p].at = "chosen", ![p].to = b]
    <3>1. graph.kind[proc[p].node] = "wait_until"
      BY <2>1, <2>3 DEF Places, Waits
    <3>2. \A k \in Nodes : step'[k] = IF k = proc[p].node THEN "running" ELSE step[k]
      BY <1>a, <2>3 DEF SetStep, Rows
    <3>3. /\ \A q \in Processes \ {p} : proc'[q] = proc[q]
          /\ proc'[p].node = proc[p].node
      BY <1>a, <2>3 DEF Process
    <3>4. SameDone
      BY <3>1, <3>2 DEF SameDone, Acts
    <3>5. \A k \in Nodes : ~Doing(p, k)'
      BY <1>b, <3>1, <3>3 DEF Doing, Acts
    <3> QED
      BY <1>b, <1>c, <2>1, <3>3, <3>4, <3>5, NoNewDoer
  <2> QED
    BY <1>12, <2>2, <2>3 DEF EndWait
<1>13. ASSUME NEW n \in Nodes, Event(n) PROVE OneDoer'
  BY <1>13, <1>b, <1>c DEF Event, OneDoer, Doing, Acts
<1>14. ASSUME Cancel PROVE OneDoer'
  <2>1. \A e \in Processes, n \in Nodes : Doing(e, n)' <=> Doing(e, n)
    BY <1>14, <1>a, <1>b, OvertakenAt DEF Cancel, Doing, Acts
  <2>2. \A e \in Processes : proc'[e].at = proc[e].at
    BY <1>14, <1>a, OvertakenAt DEF Cancel
  <2> QED
    BY <1>14, <1>b, <1>c, <2>1, <2>2 DEF Cancel, OneDoer, Acts
<1>15. CASE Pause \/ UNCHANGED vars
  BY <1>15, <1>b, <1>c DEF Pause, vars, OneDoer, Doing, Acts
<1>16. ASSUME NEW p \in Processes, Retry(p) PROVE OneDoer'
  <2>1. PICK n : /\ step' = [m \in Nodes |-> IF m = n /\ step[m] = "failed" THEN "pending" ELSE step[m]]
                 /\ proc' = Sending(p, Restart(n))
    BY <1>16 DEF Retry, Resumed
  <2>2. proc'[p].at = "sending" /\ \A q \in Processes \ {p} : proc'[q] = proc[q]
    BY <2>1, <1>a, SendingAt
  <2>3. SameDone
    BY <2>1 DEF SameDone
  <2>4. sent' = sent /\ proc[p].at # "executed"
    BY <1>16 DEF Retry
  <2>5. \A k \in Nodes : ~Doing(p, k)'
    BY <2>2 DEF Doing, Occupied
  <2> QED
    BY <1>b, <1>c, <2>2, <2>3, <2>4, <2>5, NoNewDoer
<1>17. ASSUME NEW p \in Processes, NEW n \in Nodes, Answer(p, n) PROVE OneDoer'
  <2>1. PICK t : proc' = Sending(p, t)
    BY <1>17 DEF Answer
  <2>2. proc'[p].at = "sending" /\ \A q \in Processes \ {p} : proc'[q] = proc[q]
    BY <2>1, <1>a, SendingAt
  <2>3. \A k \in Nodes : step'[k] = IF k = n THEN "completed" ELSE step[k]
    BY <1>17, <1>a DEF Answer, SetStep, Rows
  <2>4. SameDone
    BY <1>17, <2>3 DEF Answer, SameDone, Acts
  <2>5. sent' = sent /\ proc[p].at # "executed"
    BY <1>17 DEF Answer
  <2>6. \A k \in Nodes : ~Doing(p, k)'
    BY <2>2 DEF Doing, Occupied
  <2> QED
    BY <1>b, <1>c, <2>2, <2>4, <2>5, <2>6, NoNewDoer
<1>18. ASSUME NEW p \in Processes, NEW n \in Nodes, Approve(p, n) PROVE OneDoer'
  <2>1. step[n] = "waiting_input" /\ Inside(n) = {}
    BY <1>18 DEF Approve, Lapse, Lapsed, Ready
  <2>2. \A q \in Processes : ~Doing(q, n)
    BY <2>1, NobodyInside
  <2>3. sent[n] = 0
    BY <1>c, <2>1, <2>2 DEF OneDoer
  <2>4. \A k \in Nodes : sent'[k] = IF k = n THEN 1 ELSE sent[k]
    BY <1>18, <1>a, <2>3 DEF Approve, OneMore, Rows
  <2>5. /\ proc'[p].at = "executed" /\ proc'[p].node = n
        /\ \A q \in Processes \ {p} : proc'[q] = proc[q]
    BY <1>18, <1>a DEF Approve, Idle
  <2>6. step' = step /\ proc[p].at = "idle" /\ Acts(n)
    BY <1>18 DEF Approve, Acts
  <2>7. Doing(p, n)' /\ \A k \in Nodes \ {n} : ~Doing(p, k)'
    BY <1>b, <2>5, <2>6 DEF Doing, Acts, Occupied
  <2>8. \A q \in Processes \ {p}, k \in Nodes : Doing(q, k)' <=> Doing(q, k)
    BY <1>b, <2>5 DEF Doing, Acts
  <2>9. \A k \in Nodes : sent'[k] # 0 =>
            /\ sent'[k] = 1 /\ Acts(k)'
            /\ step'[k] = "completed" \/ \E q \in Processes : Doing(q, k)' /\ proc'[q].at = "executed"
    <3> SUFFICES ASSUME NEW k \in Nodes \ {n}, sent[k] # 0
                 PROVE  /\ sent[k] = 1 /\ Acts(k)'
                        /\ \/ step[k] = "completed"
                           \/ \E q \in Processes : Doing(q, k)' /\ proc'[q].at = "executed"
      BY <1>b, <2>4, <2>5, <2>6, <2>7 DEF Acts
    <3> QED
      BY <1>b, <1>c, <2>5, <2>6, <2>8 DEF OneDoer, Acts
  <2>10. \A q \in Processes, k \in Nodes : Doing(q, k)' => step'[k] # "completed"
    BY <1>c, <2>1, <2>6, <2>7, <2>8 DEF OneDoer
  <2>11. \A q, r \in Processes, k \in Nodes : Doing(q, k)' /\ Doing(r, k)' => q = r
    BY <1>c, <2>2, <2>7, <2>8 DEF OneDoer
  <2> QED
    BY <2>9, <2>10, <2>11 DEF OneDoer
<1>19. ASSUME NEW n \in Nodes, Review(n) PROVE OneDoer'
  <2>1. step[n] = "waiting_input"
    BY <1>19 DEF Review, Lapse, Lapsed, Ready
  <2>2. PICK s \in {"failed", "waiting_input"} : SetStep(n, s)
    BY <1>19 DEF Review
  <2>3. \A k \in Nodes : step'[k] = IF k = n THEN s ELSE step[k]
    BY <2>2, <1>a DEF SetStep, Rows
  <2>4. \A k \in Nodes : step'[k] = "completed" <=> step[k] = "completed"
    BY <2>1, <2>3
  <2> QED
    BY <1>19, <1>b, <1>c, <2>4 DEF Review, OneDoer, Doing, Acts
<1> QED
  BY <1>1, <1>2, <1>3, <1>4, <1>5, <1>6, <1>7, <1>8, <1>9, <1>10, <1>11, <1>12, <1>13, <1>14,
     <1>15, <1>16, <1>17, <1>18, <1>19 DEF Next, Work

\* A node acts once, however often its task is delivered and its run is paused, failed
\* and retried, unless something went wrong: who is about to act is alone in a step that
\* is not completed, and who has acted completes it before another is let in.
THEOREM ActsOnce == Spec => []RunsOnce
<1>1. Init => Typed
  BY TypedInit
<1>2. Init => Places /\ Once
  <2> SUFFICES ASSUME Init PROVE Places /\ Once
    OBVIOUS
  <2>1. /\ \A p \in Processes : proc[p].at = "idle"
        /\ \A n \in Nodes : step[n] = "pending" /\ sent[n] = 0
    BY DEF Init, Idle
  <2>2. Places
    BY <2>1 DEF Places
  <2>3. OneDoer
    BY <2>1 DEF OneDoer, Doing, Occupied
  <2> QED
    BY <2>2, <2>3 DEF Once
<1> DEFINE Inv == Typed /\ Places /\ Once
<1>3. Inv /\ [Next]_vars => Inv'
  BY TypedStep, PlacesStep, OnceStep
<1>4. Inv => RunsOnce
  <2> SUFFICES ASSUME Inv, lapses \subseteq {"returned"}, NEW n \in Nodes PROVE sent[n] <= 1
    BY DEF RunsOnce
  <2>1. sent[n] \in 0..2 /\ (sent[n] # 0 => sent[n] = 1)
    BY DEF Typed, TypeOK, Once, OneDoer
  <2> QED
    BY <2>1
<1> QED
  BY <1>1, <1>2, <1>3, <1>4, PTL DEF Spec
=============================================================================
