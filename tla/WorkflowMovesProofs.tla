------------------------- MODULE WorkflowMovesProofs -------------------------
(***************************************************************************)
(* A running run has something to take it further: for every graph, any    *)
(* number of processes, requests and faults.  A step's message is dropped  *)
(* when the run is paused or failed, when the step is completed and when a *)
(* wait is no longer waiting; the proof says where the run's one live      *)
(* message, process or answer is in spite of that.                         *)
(***************************************************************************)
EXTENDS WorkflowRunProofs

\* What a process holds: a message it has taken or is about to send, the node it
\* leads the run to, a wait that it is to end, or the step that it is inside of.
Carries(r, t) == (r.at = "sending" /\ r.out = t) \/ (r.at = "read" /\ r.task = t)
Heads(r, t)   == (r.at = "settled" /\ r.to = t) \/ (r.at = "sending" /\ r.out = Task("branch", t))
Times(r)      == r.at = "claimed" /\ r.found = "waiting"
Enters(r)     == r.at \in Occupied /\ ~Times(r)

\* The steps that have a message on its way, the nodes the run is led to, whether it
\* is led to its end, and who is at its steps.
Out  == {n \in Nodes : \/ Task("step", n) \in tasks
                       \/ \E p \in Processes : Carries(proc[p], Task("step", n))}
Ways == {t \in Nodes \cup {NoNode} : \/ Task("branch", t) \in tasks
                                     \/ \E p \in Processes : Heads(proc[p], t)}
Ending == \/ Task("complete", NoNode) \in tasks
          \/ \E p \in Processes : Carries(proc[p], Task("complete", NoNode))
Entrants == {p \in Processes : Enters(proc[p])}
Timers   == {p \in Processes : Times(proc[p])}

\* The nodes other than the current one that the run is led to for the first time.
NewWays == {t \in Ways \cap Nodes : step[t] # "completed" /\ t # current}

\* What is under way is so at the current node.
OpenHere == \A n \in Nodes : step[n] \notin {"pending", "completed"} => n = current
SentHere == \A n \in Out : step[n] = "completed" \/ n = current
NotYet   == current = NoNode => /\ \A n \in Nodes : step[n] = "pending"
                                /\ Ways = {}
                                /\ run \notin {"running", "failed"}
OneWay   == /\ NewWays # {} => current # NoNode /\ step[current] = "completed"
            /\ \A t, u \in NewWays : t = u
Inmates  == /\ \A p \in Entrants : /\ proc[p].node = current
                                   /\ step[current] \notin {"completed", "waiting"}
                                   /\ proc[p].at = "claimed" =>
                                        \/ step[current] = proc[p].found
                                        \/ step[current] = "pending" /\ proc[p].found = "failed"
                                   /\ proc[p].at = "chosen" => step[current] = "running"
                                   /\ proc[p].at = "parking" => step[current] = "waiting_input"
            /\ \A p, q \in Entrants : p = q
            /\ \A p \in Timers : /\ Waits(proc[p].node)
                                 /\ step[proc[p].node] \in {"waiting", "running", "completed"}

\* A completed step is being left; an open one of a running run is being worked on.
Left   == step[current] = "completed" /\ run \notin Over => Ending \/ Ways # {}
Worked ==
    step[current] # "completed" /\ run = "running" =>
        \/ current \in Out
        \/ Entrants # {}
        \/ step[current] = "waiting" /\ \E p \in Timers : proc[p].node = current
        \/ step[current] = "waiting_input" /\ graph.kind[current] = "decision"

Located ==
    OpenHere /\ SentHere /\ NotYet /\ OneWay /\ Inmates /\ (current # NoNode => Left /\ Worked)

Calm == lapses \subseteq {"unsure"}
CalmLocated == Calm => Located

-----------------------------------------------------------------------------

LEMMA TaskEq ==
    ASSUME NEW a, NEW b, NEW n, NEW m
    PROVE  Task(a, n) = Task(b, m) <=> a = b /\ n = m
BY DEF Task

\* A task is made of its parts.
LEMMA TaskParts ==
    ASSUME NEW t \in Tasks
    PROVE  t = Task(t.task, t.node)
BY DEF Tasks, Task

\* What a process at a stage does not hold.
LEMMA Holding ==
    ASSUME NEW r
    PROVE  /\ r.at \notin {"sending", "read"} => \A t : ~Carries(r, t)
           /\ r.at \notin {"sending", "settled"} => \A t : ~Heads(r, t)
           /\ r.at \notin Occupied => ~Enters(r) /\ ~Times(r)
           /\ r.at = "sending" => \A t : /\ Carries(r, t) <=> r.out = t
                                         /\ Heads(r, t) <=> r.out = Task("branch", t)
           /\ r.at = "settled" => \A t : Heads(r, t) <=> r.to = t
           /\ r.at = "read" => \A t : Carries(r, t) <=> r.task = t
BY DEF Carries, Heads, Enters, Times, Occupied

\* When one process moves, the others hold what they held.
LEMMA Shift ==
    ASSUME NEW p \in Processes, \A q \in Processes \ {p} : proc'[q] = proc[q]
    PROVE  /\ \A n \in Nodes :
                /\ n \in Out' => n \in Out \/ Task("step", n) \in tasks'
                                           \/ Carries(proc'[p], Task("step", n))
                /\ n \in Out => n \in Out' \/ Task("step", n) \in tasks \ tasks'
                                           \/ Carries(proc[p], Task("step", n))
                /\ Task("step", n) \in tasks' \/ Carries(proc'[p], Task("step", n)) => n \in Out'
           /\ \A t \in Nodes \cup {NoNode} :
                /\ t \in Ways' => t \in Ways \/ Task("branch", t) \in tasks' \/ Heads(proc'[p], t)
                /\ t \in Ways => t \in Ways' \/ Task("branch", t) \in tasks \ tasks'
                                             \/ Heads(proc[p], t)
                /\ Task("branch", t) \in tasks' \/ Heads(proc'[p], t) => t \in Ways'
           /\ Ending => Ending' \/ Task("complete", NoNode) \in tasks \ tasks'
                                \/ Carries(proc[p], Task("complete", NoNode))
           /\ Task("complete", NoNode) \in tasks' \/ Carries(proc'[p], Task("complete", NoNode))
                => Ending'
           /\ \A q \in Processes \ {p} : (q \in Entrants' <=> q \in Entrants)
                                         /\ (q \in Timers' <=> q \in Timers)
           /\ p \in Entrants' <=> Enters(proc'[p])
           /\ p \in Timers' <=> Times(proc'[p])
           /\ Entrants' \subseteq Processes /\ Timers' \subseteq Processes
           /\ Out' \subseteq Nodes /\ Ways' \subseteq Nodes \cup {NoNode}
<1>1. /\ \A n \in Nodes :
                /\ n \in Out' => n \in Out \/ Task("step", n) \in tasks'
                                           \/ Carries(proc'[p], Task("step", n))
                /\ n \in Out => n \in Out' \/ Task("step", n) \in tasks \ tasks'
                                           \/ Carries(proc[p], Task("step", n))
                /\ Task("step", n) \in tasks' \/ Carries(proc'[p], Task("step", n)) => n \in Out'
      /\ Out' \subseteq Nodes
  BY DEF Out
<1>2. /\ \A t \in Nodes \cup {NoNode} :
                /\ t \in Ways' => t \in Ways \/ Task("branch", t) \in tasks' \/ Heads(proc'[p], t)
                /\ t \in Ways => t \in Ways' \/ Task("branch", t) \in tasks \ tasks'
                                             \/ Heads(proc[p], t)
                /\ Task("branch", t) \in tasks' \/ Heads(proc'[p], t) => t \in Ways'
      /\ Ways' \subseteq Nodes \cup {NoNode}
  BY DEF Ways
<1>3. /\ Ending => Ending' \/ Task("complete", NoNode) \in tasks \ tasks'
                                \/ Carries(proc[p], Task("complete", NoNode))
      /\ Task("complete", NoNode) \in tasks' \/ Carries(proc'[p], Task("complete", NoNode))
                => Ending'
  BY DEF Ending
<1> QED
  BY <1>1, <1>2, <1>3 DEF Entrants, Timers

\* When the rows stay and no message or lead comes up.
LEMMA Quietly ==
    ASSUME Located, step' = step, current' = current, graph' = graph,
           Out' \subseteq Out, Ways' \subseteq Ways,
           run' \in {"running", "failed"} => current # NoNode,
           Inmates', current # NoNode => Left' /\ Worked'
    PROVE  Located'
<1>1. OpenHere'
  BY DEF Located, OpenHere
<1>2. SentHere'
  BY DEF Located, SentHere
<1>3. NotYet'
  BY DEF Located, NotYet
<1>4. NewWays' \subseteq NewWays
  BY DEF NewWays
<1>5. OneWay'
  BY <1>4 DEF Located, OneWay
<1> QED
  BY <1>1, <1>2, <1>3, <1>5 DEF Located

\* Nobody is at a step any more, or the same are.
LEMMA SameInmates ==
    ASSUME Inmates, step' = step, current' = current, graph' = graph,
           Entrants' \subseteq Entrants, Timers' \subseteq Timers,
           \A p \in Entrants' \cup Timers' : /\ proc'[p].node = proc[p].node
                                             /\ proc'[p].at = proc[p].at
                                             /\ proc'[p].found = proc[p].found
    PROVE  Inmates'
BY DEF Inmates, Waits

\* Whoever is inside a step is at a node.
LEMMA InsideANode ==
    ASSUME Typed, NEW p \in Entrants \cup Timers
    PROVE  p \in Processes /\ proc[p].at \in Occupied /\ proc[p].node \in Nodes
BY DEF Typed, Sound, Entrants, Timers, Enters, Times, Occupied

LEMMA EntrantsHere ==
    ASSUME Typed, Inmates, Entrants # {}
    PROVE  current \in Nodes /\ current # NoNode /\ step[current] \notin {"completed", "waiting"}
<1>1. PICK p \in Entrants : TRUE
  OBVIOUS
<1> QED
  BY <1>1, InsideANode, ConstantsAssumption DEF Inmates, ConstantsAssumption

LEMMA TakeMoves ==
    ASSUME Typed, Located, NEW p \in Processes, NEW m \in tasks, Take(p, m)
    PROVE  Located'
<1>1. /\ proc \in [Processes -> Process]
      /\ m \in Tasks /\ m = Task(m.task, m.node)
      /\ m.task \in {"start", "step", "resolve", "branch", "complete"}
      /\ m.node \in Nodes \cup {NoNode}
      /\ run \in Statuses
  BY TaskParts DEF Typed, TypeOK, Tasks
<1>2. /\ proc[p].at = "idle"
      /\ tasks' \in {tasks, tasks \ {m}}
      /\ step' = step /\ current' = current /\ graph' = graph /\ run' = run
  BY DEF Take, Delivered
<1>3. /\ \A q \in Processes \ {p} : proc'[q] = proc[q]
      /\ run \notin Heeds(m.task) => proc' = proc
      /\ run \in Heeds(m.task) =>
            IF m.task = "branch" THEN proc'[p].at = "settled" /\ proc'[p].to = m.node
                                 ELSE proc'[p].at = "read" /\ proc'[p].task = m
  <2> DEFINE b == [Idle EXCEPT !.at = "settled", !.task = m, !.to = m.node]
             r == [Idle EXCEPT !.at = "read", !.task = m, !.node = m.node]
  <2>1. b.at = "settled" /\ b.to = m.node /\ r.at = "read" /\ r.task = m
    BY DEF Idle
  <2>2. IF run \notin Heeds(m.task) THEN proc' = proc
        ELSE proc' = [proc EXCEPT ![p] = IF m.task = "branch" THEN b ELSE r]
    BY DEF Take
  <2> HIDE DEF b, r
  <2> QED
    BY <1>1, <2>1, <2>2
<1>4. /\ \A t : ~Carries(proc[p], t) /\ ~Heads(proc[p], t)
      /\ ~Enters(proc[p]) /\ ~Times(proc[p])
      /\ ~Enters(proc'[p]) /\ ~Times(proc'[p])
  BY <1>2, <1>3, Holding DEF Occupied
<1>5. /\ \A t : Carries(proc'[p], t) => t = m
      /\ \A t \in Nodes \cup {NoNode} : Heads(proc'[p], t) => Task("branch", t) = m
      /\ run \in Heeds(m.task) /\ m.task # "branch" => Carries(proc'[p], m)
      /\ m.task = "branch" => Heads(proc'[p], m.node)
  <2>1. m.task = "branch" => run \in Heeds(m.task)
    BY <1>1 DEF Heeds
  <2>2. CASE run \notin Heeds(m.task)
    BY <1>3, <1>4, <2>1, <2>2
  <2>3. CASE run \in Heeds(m.task) /\ m.task = "branch"
    <3>1. proc'[p].at = "settled" /\ proc'[p].to = m.node
      BY <1>3, <2>3
    <3>2. /\ \A t : ~Carries(proc'[p], t)
          /\ \A t : Heads(proc'[p], t) <=> m.node = t
      BY <3>1, Holding
    <3> QED
      BY <1>1, <2>3, <3>2
  <2>4. CASE run \in Heeds(m.task) /\ m.task # "branch"
    <3>1. proc'[p].at = "read" /\ proc'[p].task = m
      BY <1>3, <2>4
    <3>2. /\ \A t : ~Heads(proc'[p], t)
          /\ \A t : Carries(proc'[p], t) <=> m = t
      BY <3>1, Holding
    <3> QED
      BY <1>1, <2>4, <3>2
  <2> QED
    BY <2>2, <2>3, <2>4
<1>6. /\ Entrants' = Entrants /\ Timers' = Timers
  BY <1>3, <1>4, Shift DEF Entrants, Timers
<1>7. Out' \subseteq Out /\ Ways' \subseteq Ways
  <2>1. ASSUME NEW n \in Out' PROVE n \in Out
    BY <1>2, <1>3, <1>5, <2>1, Shift DEF Out
  <2>2. ASSUME NEW t \in Ways' PROVE t \in Ways
    BY <1>2, <1>3, <1>5, <2>2, Shift DEF Ways
  <2> QED
    BY <2>1, <2>2
<1>8. ASSUME NEW n \in Out, n \notin Out' PROVE run \notin Heeds("step")
  <2>1. n \in Nodes
    BY DEF Out
  <2>2. m = Task("step", n)
    BY <1>2, <1>3, <1>4, <1>8, <2>1, Shift
  <2>3. m.task = "step"
    BY <2>2 DEF Task
  <2> QED
    BY <1>3, <1>5, <1>8, <2>1, <2>2, <2>3, Shift
<1>9. ASSUME NEW t \in Ways PROVE t \in Ways'
  <2>1. t \in Nodes \cup {NoNode}
    BY DEF Ways
  <2>2. CASE t \in Ways' \/ Task("branch", t) # m
    BY <1>2, <1>3, <1>4, <2>1, <2>2, Shift
  <2>3. CASE Task("branch", t) = m
    <3>1. m.task = "branch" /\ m.node = t
      BY <2>3 DEF Task
    <3> QED
      BY <1>3, <1>5, <2>1, <3>1, Shift
  <2> QED
    BY <2>2, <2>3
<1>10. Ending => Ending' \/ run \in Over
  <2>1. CASE Task("complete", NoNode) # m
    BY <1>2, <1>3, <1>4, <2>1, Shift
  <2>2. CASE Task("complete", NoNode) = m
    <3>1. m.task = "complete"
      BY <2>2 DEF Task
    <3>2. run \in Heeds(m.task) \/ run \in Over
      BY <1>1, <3>1 DEF Heeds
    <3> QED
      BY <1>3, <1>5, <2>2, <3>1, <3>2, Shift
  <2> QED
    BY <2>1, <2>2
<1>11. Inmates'
  <2>1. \A q \in Entrants' \cup Timers' : proc'[q] = proc[q]
    BY <1>3, <1>4, Shift DEF Entrants, Timers
  <2> QED
    BY <1>2, <1>6, <2>1, SameInmates DEF Located
<1>12. current # NoNode => Left' /\ Worked'
  <2> SUFFICES ASSUME current # NoNode PROVE Left' /\ Worked'
    OBVIOUS
  <2>1. Left'
    BY <1>2, <1>9, <1>10 DEF Located, Left
  <2>2. run = "running" => Out \subseteq Out'
    BY <1>8 DEF Heeds
  <2>3. \A q \in Timers : proc'[q] = proc[q]
    BY <1>3, <1>4 DEF Timers
  <2>4. Worked'
    BY <1>2, <1>6, <2>2, <2>3 DEF Located, Worked
  <2> QED
    BY <2>1, <2>4
<1>13. run' \in {"running", "failed"} => current # NoNode
  BY <1>2 DEF Located, NotYet
<1> QED
  BY <1>2, <1>7, <1>11, <1>12, <1>13, Quietly

\* What a process holds that is about to send, that has settled a step, or is idle.
LEMMA SendingOut ==
    ASSUME proc \in [Processes -> Process], NEW p \in Processes, NEW t, proc' = Sending(p, t)
    PROVE  /\ \A q \in Processes \ {p} : proc'[q] = proc[q]
           /\ \A u : Carries(proc'[p], u) <=> u = t
           /\ \A u : Heads(proc'[p], u) <=> Task("branch", u) = t
           /\ ~Enters(proc'[p]) /\ ~Times(proc'[p])
<1>1. /\ \A q \in Processes \ {p} : proc'[q] = proc[q]
      /\ proc'[p].at = "sending" /\ proc'[p].out = t
  BY DEF Sending, Idle, Process
<1> QED
  BY <1>1, Holding DEF Occupied

LEMMA SettlingTo ==
    ASSUME proc \in [Processes -> Process], NEW p \in Processes, NEW t, proc' = Settling(p, t)
    PROVE  /\ \A q \in Processes \ {p} : proc'[q] = proc[q]
           /\ \A u : ~Carries(proc'[p], u)
           /\ \A u : Heads(proc'[p], u) <=> u = t
           /\ ~Enters(proc'[p]) /\ ~Times(proc'[p])
<1>1. /\ \A q \in Processes \ {p} : proc'[q] = proc[q]
      /\ proc'[p].at = "settled" /\ proc'[p].to = t
  BY DEF Settling, Idle, Process
<1> QED
  BY <1>1, Holding DEF Occupied

LEMMA DoneHolds ==
    ASSUME proc \in [Processes -> Process], NEW p \in Processes, Done(p)
    PROVE  /\ \A q \in Processes \ {p} : proc'[q] = proc[q]
           /\ \A u : ~Carries(proc'[p], u) /\ ~Heads(proc'[p], u)
           /\ ~Enters(proc'[p]) /\ ~Times(proc'[p])
  BY DoneAt, Holding DEF Occupied

\* Someone inside a step who ends there: he is alone at the current node.
LEMMA Alone1 ==
    ASSUME Typed, Inmates, NEW p \in Entrants
    PROVE  /\ Entrants = {p} /\ p \in Processes
           /\ proc[p].node = current /\ current \in Nodes /\ current # NoNode
           /\ step[current] \notin {"completed", "waiting"}
           /\ \A t : ~Carries(proc[p], t) /\ ~Heads(proc[p], t)
           /\ p \notin Timers
<1>1. p \in Processes /\ proc[p].at \in Occupied
  BY InsideANode
<1>2. \A t : ~Carries(proc[p], t) /\ ~Heads(proc[p], t)
  BY <1>1, Holding DEF Occupied
<1> QED
  BY <1>1, <1>2, EntrantsHere DEF Inmates, Timers, Entrants, Enters

LEMMA StartMoves ==
    ASSUME Typed, Located, NEW p \in Processes, Start(p), "restarted" \notin lapses'
    PROVE  Located'
<1> DEFINE t == Task("step", graph.start)
<1>1. proc \in [Processes -> Process] /\ graph.start \in Nodes /\ graph.start # NoNode
  BY TypedParts, GraphIsTyped, ConstantsAssumption DEF ConstantsAssumption
<1>2. current = NoNode
  BY DEF Start, Lapse, Lapsed
<1>3. (\A n \in Nodes : step[n] = "pending") /\ Ways = {}
  BY <1>2 DEF Located, NotYet
<1>4. Entrants = {} /\ Out = {}
  <2>1. Entrants = {}
    BY <1>2, EntrantsHere DEF Located
  <2>2. Out = {}
    BY <1>2, <1>3, ConstantsAssumption DEF Located, SentHere, Out, ConstantsAssumption
  <2> QED
    BY <2>1, <2>2
<1>5. /\ tasks' = tasks /\ step' = step /\ graph' = graph
      /\ run' = "running" /\ current' = graph.start
  BY DEF Start
<1>6. /\ \A q \in Processes \ {p} : proc'[q] = proc[q]
      /\ \A u : Carries(proc'[p], u) <=> u = t
      /\ \A u : Heads(proc'[p], u) <=> Task("branch", u) = t
      /\ ~Enters(proc'[p]) /\ ~Times(proc'[p])
  BY <1>1, SendingOut DEF Start
<1>7. /\ \A u : ~Heads(proc'[p], u)
      /\ \A n \in Nodes : Carries(proc'[p], Task("step", n)) <=> n = graph.start
  BY <1>6, TaskEq
<1>8. Ways' = {}
  BY <1>3, <1>5, <1>6, <1>7, Shift DEF Ways
<1>9. Out' = {graph.start}
  BY <1>1, <1>4, <1>5, <1>6, <1>7, Shift DEF Out
<1>10. Entrants' = {} /\ Timers' \subseteq Timers /\ p \notin Timers'
  BY <1>4, <1>6, Shift DEF Timers, Entrants
<1>11. Inmates'
  BY <1>5, <1>6, <1>10 DEF Located, Inmates, Waits, Timers
<1> QED
  BY <1>1, <1>3, <1>5, <1>8, <1>9, <1>10, <1>11
     DEF Located, OpenHere, SentHere, NotYet, OneWay, NewWays, Left, Worked

LEMMA CompleteMoves ==
    ASSUME Typed, Located, NEW p \in Processes, Complete(p)
    PROVE  Located'
<1> DEFINE o == [proc EXCEPT ![p] = Idle]
<1>1. proc \in [Processes -> Process] /\ o \in [Processes -> Process]
  BY IdleIsTyped DEF Typed, TypeOK
<1>2. proc' = Overtaken(o) /\ tasks' = tasks /\ run' = "completed"
      /\ step' = step /\ current' = current /\ graph' = graph /\ proc[p].at = "read"
  BY DEF Complete
<1>3. o[p].at = "idle" /\ \A q \in Processes \ {p} : o[q] = proc[q]
  BY <1>1 DEF Idle
<1> HIDE DEF o
<1>4. \A q \in Processes : /\ proc'[q].at = o[q].at /\ proc'[q].node = o[q].node
                           /\ proc'[q].found = o[q].found /\ proc'[q].task = o[q].task
                           /\ proc'[q].to = o[q].to /\ proc'[q].out = o[q].out
  BY <1>1, <1>2 DEF Overtaken, Process
<1>5. \A q \in Processes \ {p} : /\ proc'[q].at = proc[q].at /\ proc'[q].node = proc[q].node
                                 /\ proc'[q].found = proc[q].found /\ proc'[q].task = proc[q].task
                                 /\ proc'[q].to = proc[q].to /\ proc'[q].out = proc[q].out
  BY <1>3, <1>4
<1>6. proc'[p].at = "idle"
  BY <1>3, <1>4
<1>7. Out' \subseteq Out /\ Ways' \subseteq Ways
  BY <1>2, <1>5, <1>6 DEF Out, Ways, Carries, Heads
<1>8. /\ Entrants' \subseteq Entrants /\ Timers' \subseteq Timers
      /\ p \notin Entrants' /\ p \notin Timers'
  BY <1>5, <1>6 DEF Entrants, Timers, Enters, Times, Occupied
<1>9. Inmates'
  <2>1. Entrants' \cup Timers' \subseteq Processes \ {p}
    BY <1>8 DEF Entrants, Timers
  <2> QED
    BY <1>2, <1>5, <1>8, <2>1, SameInmates DEF Located
<1>10. Left' /\ Worked'
  BY <1>2 DEF Left, Worked, Over
<1> QED
  BY <1>2, <1>7, <1>9, <1>10, Quietly

\* When a process that held nothing moves, and no message goes.
LEMMA Gains ==
    ASSUME NEW p \in Processes, \A q \in Processes \ {p} : proc'[q] = proc[q], tasks' = tasks,
           \A t : ~Carries(proc[p], t) /\ ~Heads(proc[p], t)
    PROVE  /\ Out' = Out \cup {n \in Nodes : Carries(proc'[p], Task("step", n))}
           /\ Ways' = Ways \cup {t \in Nodes \cup {NoNode} : Heads(proc'[p], t)}
           /\ Ending => Ending'
<1>1. ASSUME NEW n \in Nodes PROVE n \in Out' <=> n \in Out \/ Carries(proc'[p], Task("step", n))
  BY DEF Out
<1>2. ASSUME NEW t \in Nodes \cup {NoNode} PROVE t \in Ways' <=> t \in Ways \/ Heads(proc'[p], t)
  BY DEF Ways
<1>3. Out \subseteq Nodes /\ Out' \subseteq Nodes
      /\ Ways \subseteq Nodes \cup {NoNode} /\ Ways' \subseteq Nodes \cup {NoNode}
  BY DEF Out, Ways
<1>4. Ending => Ending'
  BY Shift
<1> QED
  BY <1>1, <1>2, <1>3, <1>4

LEMMA ClaimMoves ==
    ASSUME Typed, Places, Located, NEW p \in Processes, Claim(p), "shared" \notin lapses'
    PROVE  Located'
<1> DEFINE n == proc[p].node
           s == IF step[n] = "pending" THEN "running" ELSE step[n]
<1>1. /\ proc \in [Processes -> Process] /\ step \in [Nodes -> Steps]
      /\ n \in Nodes /\ n # NoNode /\ proc[p].at = "read" /\ proc[p].task = Task("step", n)
      /\ tasks' = tasks /\ run' = run /\ current' = current /\ graph' = graph
  <2>1. proc[p].task \in Tasks /\ proc[p].task.task = "step" /\ n = proc[p].task.node /\ n \in Nodes
    BY DEF Claim, Typed, Sound, SoundTask, NodeTasks
  <2>2. proc[p].task = Task("step", n)
    BY <2>1, TaskParts
  <2> QED
    BY <2>1, <2>2, ConstantsAssumption DEF Claim, Typed, TypeOK, ConstantsAssumption
<1>2. /\ \A t : ~Heads(proc[p], t)
      /\ \A t : Carries(proc[p], t) <=> t = Task("step", n)
      /\ ~Enters(proc[p]) /\ ~Times(proc[p])
  BY <1>1, Holding DEF Occupied
<1>3. n \in Out
  BY <1>1, <1>2 DEF Out
<1> HIDE DEF n
<1>4. ASSUME \A q \in Processes \ {p} : proc'[q] = proc[q],
             \A t : ~Carries(proc'[p], t) /\ ~Heads(proc'[p], t)
      PROVE  /\ Out' \subseteq Out /\ Out \subseteq Out' \cup {n}
             /\ Ways' = Ways /\ (Ending => Ending')
  <2>1. ASSUME NEW k \in Nodes
        PROVE  (k \in Out' => k \in Out) /\ (k \in Out => k \in Out' \/ k = n)
    <3>1. Task("step", k) = Task("step", n) <=> k = n
      BY TaskEq
    <3> QED
      BY <1>1, <1>2, <1>4, <3>1 DEF Out
  <2>2. ASSUME NEW t \in Nodes \cup {NoNode} PROVE t \in Ways' <=> t \in Ways
    BY <1>1, <1>2, <1>4 DEF Ways
  <2>3. Task("complete", NoNode) # Task("step", n)
    BY TaskEq
  <2>4. Ending => Ending'
    BY <1>1, <1>2, <1>4, <2>3, Shift
  <2> QED
    BY <2>1, <2>2, <2>4 DEF Out, Ways
<1>5. CASE step[n] = "completed"
  <2>1. Done(p) /\ step' = step
    BY <1>5 DEF Claim, n
  <2>2. /\ \A q \in Processes \ {p} : proc'[q] = proc[q]
        /\ \A u : ~Carries(proc'[p], u) /\ ~Heads(proc'[p], u)
        /\ ~Enters(proc'[p]) /\ ~Times(proc'[p])
    BY <1>1, <2>1, DoneHolds
  <2>3. /\ Out' \subseteq Out /\ Out \subseteq Out' \cup {n}
        /\ Ways' = Ways /\ (Ending => Ending')
    BY <1>4, <2>2
  <2>4. Entrants' = Entrants /\ Timers' = Timers
    BY <1>2, <2>2, Shift DEF Entrants, Timers
  <2>5. \A q \in Entrants' \cup Timers' : proc'[q] = proc[q]
    BY <2>2 DEF Entrants, Timers
  <2>6. Inmates'
    BY <1>1, <2>1, <2>4, <2>5, SameInmates DEF Located
  <2>7. current # NoNode => Left' /\ Worked'
    BY <1>1, <1>5, <2>1, <2>3, <2>4, <2>5 DEF Located, Left, Worked
  <2>8. run' \in {"running", "failed"} => current # NoNode
    BY <1>1 DEF Located, NotYet
  <2> QED
    BY <1>1, <2>1, <2>3, <2>6, <2>7, <2>8, Quietly
<1>6. CASE step[n] # "completed"
  <2>1. n = current
    BY <1>3, <1>6 DEF Located, SentHere
  <2>2. /\ step' = [step EXCEPT ![n] = s]
        /\ proc' = [proc EXCEPT ![p].at = "claimed", ![p].found = s]
        /\ s # "waiting" => Inside(n) = {}
    BY <1>6 DEF Claim, SetStep, Lapse, Lapsed, n
  <2> s \in Steps /\ s # "completed" /\ (step[n] = s \/ s # "waiting")
    BY <1>1, <1>6 DEF Steps
  <2> HIDE DEF s
  <2>3. /\ \A q \in Processes \ {p} : proc'[q] = proc[q]
        /\ proc'[p].at = "claimed" /\ proc'[p].found = s /\ proc'[p].node = n
    BY <1>1, <2>2 DEF Process, n
  <2>4. /\ \A u : ~Carries(proc'[p], u) /\ ~Heads(proc'[p], u)
        /\ Times(proc'[p]) <=> s = "waiting"
        /\ Enters(proc'[p]) <=> s # "waiting"
    BY <2>3, Holding DEF Times, Enters, Occupied
  <2>5. /\ Out' \subseteq Out /\ Out \subseteq Out' \cup {n}
        /\ Ways' = Ways /\ (Ending => Ending')
    BY <1>4, <2>3, <2>4
  <2>6. step'[n] = s /\ \A k \in Nodes \ {n} : step'[k] = step[k]
    BY <1>1, <2>2
  <2>7. CASE s = "waiting"
    <3>1. step[n] = "waiting" /\ step' = step
      BY <1>1, <2>2, <2>7
    <3>2. Entrants = {}
      BY <2>1, <3>1, EntrantsHere DEF Located
    <3>3. Entrants' = {} /\ Timers' = Timers \cup {p}
      BY <2>3, <2>4, <2>7, <3>2, Shift DEF Entrants, Timers
    <3>4. Waits(n)
      BY <1>1, <3>1 DEF Places
    <3>5. Inmates'
      <4>1. ASSUME NEW q \in Timers \cup {p}
            PROVE  /\ Waits(proc[q].node)'
                   /\ step'[proc'[q].node] \in {"waiting", "running", "completed"}
        <5>1. CASE q = p
          BY <1>1, <2>3, <3>1, <3>4, <5>1 DEF Waits
        <5>2. CASE q # p
          BY <1>1, <2>3, <3>1, <5>2 DEF Located, Inmates, Waits, Timers
        <5> QED
          BY <5>1, <5>2
      <4> QED
        BY <3>3, <4>1 DEF Inmates, Waits
    <3>6. Left' /\ Worked'
      BY <1>1, <2>1, <2>3, <3>1, <3>3 DEF Left, Worked
    <3>7. run' \in {"running", "failed"} => current # NoNode
      BY <1>1, <2>1
    <3> QED
      BY <1>1, <2>5, <3>1, <3>5, <3>6, <3>7, Quietly
  <2>8. CASE s # "waiting"
    <3>1. Inside(n) = {}
      BY <2>2, <2>8
    <3>2. \A q \in Entrants \cup Timers : proc[q].node # n
      BY <3>1, InsideANode DEF Inside, Occupied
    <3>3. Entrants = {}
      BY <2>1, <3>2 DEF Located, Inmates
    <3>4. Entrants' = {p} /\ Timers' = Timers
      BY <1>2, <2>3, <2>4, <2>8, <3>3, Shift DEF Entrants, Timers
    <3>5. Inmates'
      <4>1. ASSUME NEW q \in Timers
            PROVE  /\ Waits(proc[q].node)'
                   /\ step'[proc'[q].node] \in {"waiting", "running", "completed"}
        <5>1. q \in Processes \ {p} /\ proc[q].node \in Nodes \ {n}
          BY <1>2, <3>2, InsideANode DEF Timers
        <5>2. Waits(proc[q].node) /\ step[proc[q].node] \in {"waiting", "running", "completed"}
          BY DEF Located, Inmates
        <5> QED
          BY <1>1, <2>3, <2>6, <5>1, <5>2 DEF Waits
      <4> QED
        BY <1>1, <2>1, <2>3, <2>6, <2>8, <3>4, <4>1 DEF Inmates, Waits
    <3>6. NewWays' = {}
      <4>1. NewWays = {}
        BY <1>6, <2>1 DEF Located, OneWay
      <4> QED
        BY <1>1, <2>1, <2>5, <2>6, <4>1 DEF NewWays
    <3>7. OpenHere' /\ SentHere' /\ NotYet'
      BY <1>1, <2>1, <2>5, <2>6 DEF Located, OpenHere, SentHere, NotYet, Out
    <3>8. Left' /\ Worked'
      BY <1>1, <2>1, <2>6, <3>4 DEF Left, Worked
    <3> QED
      BY <3>5, <3>6, <3>7, <3>8 DEF Located, OneWay
  <2> QED
    BY <2>7, <2>8
<1> QED
  BY <1>5, <1>6

\* When whoever is at the current step goes on, or leaves it.
LEMMA AtTheStep ==
    ASSUME Typed, Located, NEW p \in Entrants, \A q \in Processes \ {p} : proc'[q] = proc[q],
           tasks' = tasks, current' = current, graph' = graph,
           \A n \in Nodes \ {current} : step'[n] = step[n],
           Waits(current) => \/ step'[current] \in {"running", "waiting", "completed"}
                             \/ step'[current] = step[current],
           ~Times(proc'[p]),
           Enters(proc'[p]) => /\ proc'[p].node = current /\ proc'[p].at # "claimed"
                               /\ step'[current] \notin {"completed", "waiting"}
                               /\ proc'[p].at = "chosen" => step'[current] = "running"
                               /\ proc'[p].at = "parking" => step'[current] = "waiting_input",
           \A n \in Nodes : Carries(proc'[p], Task("step", n)) => n = current,
           \A t : Heads(proc'[p], t) => step'[current] = "completed",
           \A t, u : Heads(proc'[p], t) /\ Heads(proc'[p], u) => t = u
    PROVE  /\ OpenHere' /\ SentHere' /\ NotYet' /\ OneWay' /\ Inmates'
           /\ Entrants' = (IF Enters(proc'[p]) THEN {p} ELSE {})
           /\ \A n \in Nodes : Carries(proc'[p], Task("step", n)) => n \in Out'
           /\ \A t \in Nodes \cup {NoNode} : Heads(proc'[p], t) => t \in Ways'
<1>1. /\ Entrants = {p} /\ p \in Processes /\ current \in Nodes /\ current # NoNode
      /\ step[current] # "completed"
      /\ \A t : ~Carries(proc[p], t) /\ ~Heads(proc[p], t)
      /\ p \notin Timers
  BY Alone1 DEF Located
<1>2. /\ Out' = Out \cup {n \in Nodes : Carries(proc'[p], Task("step", n))}
      /\ Ways' = Ways \cup {t \in Nodes \cup {NoNode} : Heads(proc'[p], t)}
  BY <1>1, Gains
<1>3. Timers' = Timers /\ Entrants' = (IF Enters(proc'[p]) THEN {p} ELSE {})
  BY <1>1 DEF Timers, Entrants
<1>4. OpenHere' /\ NotYet'
  BY <1>1 DEF Located, OpenHere, NotYet
<1>5. SentHere'
  BY <1>1, <1>2 DEF Located, SentHere, Out
<1>6. OneWay'
  <2>1. NewWays = {}
    BY <1>1 DEF Located, OneWay
  <2>2. ASSUME NEW t \in NewWays' PROVE Heads(proc'[p], t)
    BY <1>2, <2>1, <2>2 DEF NewWays
  <2> QED
    BY <1>1, <2>2 DEF OneWay
<1>7. Inmates'
  <2>1. ASSUME NEW q \in Timers
        PROVE  /\ Waits(proc[q].node)'
               /\ step'[proc'[q].node] \in {"waiting", "running", "completed"}
    <3>1. q \in Processes \ {p} /\ proc[q].node \in Nodes
      BY <1>1, InsideANode
    <3>2. Waits(proc[q].node) /\ step[proc[q].node] \in {"waiting", "running", "completed"}
      BY DEF Located, Inmates
    <3> QED
      BY <3>1, <3>2 DEF Waits
  <2> QED
    BY <1>3, <2>1 DEF Inmates, Waits
<1> QED
  BY <1>2, <1>3, <1>4, <1>5, <1>6, <1>7

\* Whoever is inside a step without being there to end its wait is at the current one.
LEMMA IsEntrant ==
    ASSUME Typed, Located, NEW p \in Processes, proc[p].at \in Occupied,
           proc[p].at = "claimed" => ~Waits(proc[p].node) \/ proc[p].found # "waiting"
    PROVE  p \in Entrants
BY DEF Located, Inmates, Entrants, Timers, Enters, Times

LEMMA SettleMoves ==
    ASSUME Typed, Located, NEW p \in Processes, Settle(p)
    PROVE  Located'
<1>1. proc \in [Processes -> Process] /\ Rows
  BY TypedParts
<1>2. p \in Entrants
  BY IsEntrant DEF Settle, Kind, Waits, Occupied
<1>3. proc[p].node = current /\ current \in Nodes /\ current # NoNode
  BY <1>2, Alone1 DEF Located
<1>4. PICK t \in Nodes \cup {NoNode} : proc' = Settling(p, t)
  BY <1>1, <1>3, GraphIsTyped DEF Settle, Process
<1>5. /\ \A q \in Processes \ {p} : proc'[q] = proc[q]
      /\ \A u : ~Carries(proc'[p], u)
      /\ \A u : Heads(proc'[p], u) <=> u = t
      /\ ~Enters(proc'[p]) /\ ~Times(proc'[p])
  BY <1>1, <1>4, SettlingTo
<1>6. /\ tasks' = tasks /\ current' = current /\ graph' = graph
      /\ step'[current] = "completed" /\ \A n \in Nodes \ {current} : step'[n] = step[n]
  BY <1>1, <1>3 DEF Settle, SetStep, Rows
<1>7. /\ OpenHere' /\ SentHere' /\ NotYet' /\ OneWay' /\ Inmates'
      /\ t \in Ways'
  BY <1>2, <1>5, <1>6, AtTheStep
<1>8. Left' /\ Worked'
  BY <1>6, <1>7 DEF Left, Worked
<1> QED
  BY <1>7, <1>8 DEF Located

LEMMA ExecuteMoves ==
    ASSUME Typed, Located, NEW p \in Processes, Execute(p)
    PROVE  Located'
<1>1. proc \in [Processes -> Process]
  BY TypedParts
<1>2. p \in Entrants
  BY IsEntrant DEF Execute, Kind, Waits, Occupied
<1>3. /\ proc[p].node = current /\ current \in Nodes /\ current # NoNode
      /\ step[current] \notin {"completed", "waiting"}
  BY <1>2, Alone1 DEF Located
<1>4. /\ \A q \in Processes \ {p} : proc'[q] = proc[q]
      /\ proc'[p].at = "executed" /\ proc'[p].node = current
  BY <1>1, <1>3 DEF Execute, Process
<1>5. /\ \A u : ~Carries(proc'[p], u) /\ ~Heads(proc'[p], u)
      /\ Enters(proc'[p]) /\ ~Times(proc'[p])
  BY <1>4, Holding DEF Enters, Times, Occupied
<1>6. tasks' = tasks /\ current' = current /\ graph' = graph /\ step' = step
  BY DEF Execute
<1>7. /\ OpenHere' /\ SentHere' /\ NotYet' /\ OneWay' /\ Inmates'
      /\ Entrants' = {p}
  BY <1>2, <1>3, <1>4, <1>5, <1>6, AtTheStep
<1>8. Left' /\ Worked'
  BY <1>3, <1>6, <1>7 DEF Left, Worked
<1> QED
  BY <1>7, <1>8 DEF Located

LEMMA RaisesMoves ==
    ASSUME Typed, Located, NEW p \in Processes, Raises(p)
    PROVE  Located'
<1>1. proc \in [Processes -> Process] /\ Rows
  BY TypedParts
<1>2. p \in Entrants
  BY IsEntrant DEF Raises, Kind, Waits, Occupied
<1>3. /\ proc[p].node = current /\ current \in Nodes /\ current # NoNode
  BY <1>2, Alone1 DEF Located
<1>4. /\ \A q \in Processes \ {p} : proc'[q] = proc[q]
      /\ proc'[p].at = "failing" /\ proc'[p].node = current
  BY <1>1, <1>3, AtAt DEF Raises
<1>5. /\ \A u : ~Carries(proc'[p], u) /\ ~Heads(proc'[p], u)
      /\ Enters(proc'[p]) /\ ~Times(proc'[p])
  BY <1>4, Holding DEF Enters, Times, Occupied
<1>6. /\ tasks' = tasks /\ current' = current /\ graph' = graph
      /\ step'[current] = "failed" /\ \A n \in Nodes \ {current} : step'[n] = step[n]
      /\ ~Waits(current)
  BY <1>1, <1>3 DEF Raises, SetStep, Rows, Kind, Waits
<1>7. /\ OpenHere' /\ SentHere' /\ NotYet' /\ OneWay' /\ Inmates'
      /\ Entrants' = {p}
  BY <1>2, <1>3, <1>4, <1>5, <1>6, AtTheStep
<1>8. Left' /\ Worked'
  BY <1>3, <1>6, <1>7 DEF Left, Worked
<1> QED
  BY <1>7, <1>8 DEF Located

LEMMA StopMoves ==
    ASSUME Typed, Located, NEW p \in Processes, FailRun(p) \/ PauseRun(p)
    PROVE  Located'
<1>1. proc \in [Processes -> Process]
  BY TypedParts
<1>2. p \in Entrants
  BY IsEntrant DEF FailRun, PauseRun, Occupied
<1>3. /\ proc[p].node = current /\ current \in Nodes /\ current # NoNode
      /\ step[current] \notin {"completed", "waiting"}
  BY <1>2, Alone1 DEF Located
<1>4. /\ tasks' = tasks /\ current' = current /\ graph' = graph /\ step' = step
      /\ run' # "running" /\ Done(p)
  BY DEF FailRun, PauseRun
<1>5. /\ \A q \in Processes \ {p} : proc'[q] = proc[q]
      /\ \A u : ~Carries(proc'[p], u) /\ ~Heads(proc'[p], u)
      /\ ~Enters(proc'[p]) /\ ~Times(proc'[p])
  BY <1>1, <1>4, DoneHolds
<1>6. OpenHere' /\ SentHere' /\ NotYet' /\ OneWay' /\ Inmates'
  BY <1>2, <1>3, <1>4, <1>5, AtTheStep
<1>7. Left' /\ Worked'
  BY <1>3, <1>4 DEF Left, Worked
<1> QED
  BY <1>6, <1>7 DEF Located

LEMMA ParkMoves ==
    ASSUME Typed, Located, NEW p \in Processes, Park(p)
    PROVE  Located'
<1>1. proc \in [Processes -> Process] /\ Rows
  BY TypedParts
<1>2. p \in Entrants
  BY IsEntrant DEF Park, Kind, Waits, Occupied
<1>3. /\ proc[p].node = current /\ current \in Nodes /\ current # NoNode
      /\ step[current] \notin {"completed", "waiting"}
  BY <1>2, Alone1 DEF Located
<1>4. /\ tasks' = tasks /\ current' = current /\ graph' = graph /\ proc[p].at = "claimed"
      /\ ~Waits(current) /\ graph.kind[current] \in {"decision", "email"}
  BY <1>3 DEF Park, Kind, Waits
<1>5. CASE Parks(p)
  <2>1. /\ step'[current] = "waiting_input" /\ \A n \in Nodes \ {current} : step'[n] = step[n]
        /\ At(p, "parking")
    BY <1>1, <1>3, <1>5 DEF Park, SetStep, Rows
  <2>2. /\ \A q \in Processes \ {p} : proc'[q] = proc[q]
        /\ proc'[p].at = "parking" /\ proc'[p].node = current
    BY <1>1, <1>3, <2>1, AtAt
  <2>3. /\ \A u : ~Carries(proc'[p], u) /\ ~Heads(proc'[p], u)
        /\ Enters(proc'[p]) /\ ~Times(proc'[p])
    BY <2>2, Holding DEF Enters, Times, Occupied
  <2>4. /\ OpenHere' /\ SentHere' /\ NotYet' /\ OneWay' /\ Inmates'
        /\ Entrants' = {p}
    BY <1>2, <1>3, <1>4, <2>1, <2>2, <2>3, AtTheStep
  <2>5. Left' /\ Worked'
    BY <1>4, <2>1, <2>4 DEF Left, Worked
  <2> QED
    BY <2>4, <2>5 DEF Located
<1>6. CASE ~Parks(p)
  <2>1. Done(p) /\ step' = step
    BY <1>6 DEF Park
  <2>2. graph.kind[current] = "decision" /\ step[current] = "waiting_input"
    BY <1>2, <1>3, <1>4, <1>6 DEF Parks, Kind, Located, Inmates
  <2>3. /\ \A q \in Processes \ {p} : proc'[q] = proc[q]
        /\ \A u : ~Carries(proc'[p], u) /\ ~Heads(proc'[p], u)
        /\ ~Enters(proc'[p]) /\ ~Times(proc'[p])
    BY <1>1, <2>1, DoneHolds
  <2>4. OpenHere' /\ SentHere' /\ NotYet' /\ OneWay' /\ Inmates'
    BY <1>2, <1>3, <1>4, <2>1, <2>3, AtTheStep
  <2>5. Left' /\ Worked'
    BY <1>4, <2>1, <2>2 DEF Left, Worked
  <2> QED
    BY <2>4, <2>5 DEF Located
<1> QED
  BY <1>5, <1>6

LEMMA ArmMoves ==
    ASSUME Typed, Located, NEW p \in Processes, Arm(p)
    PROVE  Located'
<1>1. proc \in [Processes -> Process] /\ Rows
  BY TypedParts
<1>2. p \in Entrants
  BY IsEntrant DEF Arm, Occupied
<1>3. /\ proc[p].node = current /\ current \in Nodes /\ current # NoNode
  BY <1>2, Alone1 DEF Located
<1>4. proc' = Sending(p, Task("step", current))
  BY <1>3 DEF Arm
<1>5. /\ \A q \in Processes \ {p} : proc'[q] = proc[q]
      /\ \A u : Carries(proc'[p], u) <=> u = Task("step", current)
      /\ \A u : Heads(proc'[p], u) <=> Task("branch", u) = Task("step", current)
      /\ ~Enters(proc'[p]) /\ ~Times(proc'[p])
  BY <1>1, <1>4, SendingOut
<1>6. /\ \A n \in Nodes : Carries(proc'[p], Task("step", n)) <=> n = current
      /\ \A u : ~Heads(proc'[p], u)
  BY <1>5, TaskEq
<1>7. /\ tasks' = tasks /\ current' = current /\ graph' = graph
      /\ step'[current] = "waiting" /\ \A n \in Nodes \ {current} : step'[n] = step[n]
  BY <1>1, <1>3 DEF Arm, SetStep, Rows
<1>8. OpenHere' /\ SentHere' /\ NotYet' /\ OneWay' /\ Inmates' /\ current \in Out'
  BY <1>2, <1>3, <1>5, <1>6, <1>7, AtTheStep
<1>9. Left' /\ Worked'
  BY <1>7, <1>8 DEF Left, Worked
<1> QED
  BY <1>8, <1>9 DEF Located

LEMMA EndWaitMoves ==
    ASSUME Typed, Located, NEW p \in Processes, EndWait(p)
    PROVE  Located'
<1> DEFINE n == proc[p].node
<1>1. /\ proc \in [Processes -> Process] /\ Rows
      /\ tasks' = tasks /\ run' = run /\ current' = current /\ graph' = graph
  BY TypedParts DEF EndWait
<1>2. /\ n \in Nodes /\ n # NoNode
      /\ \A k \in Nodes : ~Carries(proc[p], Task("step", k))
      /\ \A t : ~Heads(proc[p], t)
      /\ ~Carries(proc[p], Task("complete", NoNode))
      /\ p \notin Entrants
  <2>1. CASE TimesOut(p)
    <3>1. proc[p].at = "claimed" /\ p \notin Entrants
      BY <2>1 DEF TimesOut, Entrants, Enters, Times
    <3>2. n \in Nodes
      BY <3>1 DEF Typed, Sound, Occupied
    <3> QED
      BY <3>1, <3>2, Holding, ConstantsAssumption DEF Occupied, ConstantsAssumption
  <2>2. CASE Resolves(p)
    <3>1. /\ proc[p].at = "read" /\ proc[p].task \in Tasks /\ proc[p].task.task = "resolve"
          /\ n = proc[p].task.node /\ n \in Nodes
      BY <2>2 DEF Resolves, Typed, Sound, SoundTask, NodeTasks
    <3>2. proc[p].task = Task("resolve", n)
      BY <3>1, TaskParts
    <3>3. \A t : Carries(proc[p], t) <=> proc[p].task = t
      BY <3>1, Holding
    <3>4. /\ \A k \in Nodes : ~Carries(proc[p], Task("step", k))
          /\ ~Carries(proc[p], Task("complete", NoNode))
      BY <3>2, <3>3, TaskEq
    <3> QED
      BY <3>1, <3>4, Holding, ConstantsAssumption DEF Entrants, Enters, Occupied, ConstantsAssumption
  <2> QED
    BY <2>1, <2>2 DEF EndWait
<1> HIDE DEF n
<1>3. ASSUME \A q \in Processes \ {p} : proc'[q] = proc[q],
             \A t : ~Carries(proc'[p], t) /\ ~Heads(proc'[p], t)
      PROVE  Out' = Out /\ Ways' = Ways /\ (Ending => Ending')
  <2>1. Out' = Out
    BY <1>1, <1>2, <1>3 DEF Out
  <2>2. Ways' = Ways
    BY <1>1, <1>2, <1>3 DEF Ways
  <2>3. Ending => Ending'
    BY <1>1, <1>2, <1>3 DEF Ending
  <2> QED
    BY <2>1, <2>2, <2>3
<1>4. CASE step[n] = "waiting"
  <2>1. n = current
    BY <1>2, <1>4 DEF Located, OpenHere
  <2>2. /\ step' = [step EXCEPT ![n] = "running"]
        /\ \E b : proc' = [proc EXCEPT ![p].at = "chosen", ![p].to = b]
    BY <1>4 DEF EndWait, SetStep, n
  <2>3. /\ \A q \in Processes \ {p} : proc'[q] = proc[q]
        /\ proc'[p].at = "chosen" /\ proc'[p].node = n
    BY <1>1, <2>2 DEF Process, n
  <2>4. /\ \A u : ~Carries(proc'[p], u) /\ ~Heads(proc'[p], u)
        /\ Enters(proc'[p]) /\ ~Times(proc'[p])
    BY <2>3, Holding DEF Times, Enters, Occupied
  <2>5. Out' = Out /\ Ways' = Ways /\ (Ending => Ending')
    BY <1>3, <2>3, <2>4
  <2>6. step'[n] = "running" /\ \A k \in Nodes \ {n} : step'[k] = step[k]
    BY <1>1, <1>2, <2>2 DEF Rows
  <2>7. Entrants = {}
    BY <1>4, <2>1, EntrantsHere DEF Located
  <2>8. Entrants' = {p} /\ Timers' = Timers \ {p}
    BY <2>3, <2>4, <2>7 DEF Entrants, Timers
  <2>9. Inmates'
    <3>1. ASSUME NEW q \in Timers \ {p}
          PROVE  /\ Waits(proc[q].node)'
                 /\ step'[proc'[q].node] \in {"waiting", "running", "completed"}
      <4>1. q \in Processes \ {p} /\ proc[q].node \in Nodes
        BY InsideANode
      <4>2. Waits(proc[q].node) /\ step[proc[q].node] \in {"waiting", "running", "completed"}
        BY DEF Located, Inmates
      <4> QED
        BY <1>1, <2>3, <2>6, <4>1, <4>2 DEF Waits
    <3> QED
      BY <1>1, <2>1, <2>3, <2>6, <2>8, <3>1 DEF Inmates, Waits
  <2>10. NewWays' = {}
    <3>1. NewWays = {}
      BY <1>4, <2>1 DEF Located, OneWay
    <3> QED
      BY <1>1, <2>1, <2>5, <2>6, <3>1 DEF NewWays
  <2>11. OpenHere' /\ SentHere' /\ NotYet'
    BY <1>1, <1>2, <2>1, <2>5, <2>6 DEF Located, OpenHere, SentHere, NotYet, Out
  <2>12. Left' /\ Worked'
    BY <1>1, <2>1, <2>6, <2>8 DEF Left, Worked
  <2> QED
    BY <2>9, <2>10, <2>11, <2>12 DEF Located, OneWay
<1>5. CASE step[n] # "waiting"
  <2>1. Done(p) /\ step' = step
    BY <1>5 DEF EndWait, n
  <2>2. /\ \A q \in Processes \ {p} : proc'[q] = proc[q]
        /\ \A u : ~Carries(proc'[p], u) /\ ~Heads(proc'[p], u)
        /\ ~Enters(proc'[p]) /\ ~Times(proc'[p])
    BY <1>1, <2>1, DoneHolds
  <2>3. Out' = Out /\ Ways' = Ways /\ (Ending => Ending')
    BY <1>3, <2>2
  <2>4. Entrants' = Entrants /\ Timers' = Timers \ {p}
    BY <1>2, <2>2 DEF Entrants, Timers
  <2>5. \A q \in Entrants' \cup Timers' : proc'[q] = proc[q]
    BY <2>2 DEF Entrants, Timers
  <2>6. Inmates'
    BY <1>1, <2>1, <2>4, <2>5, SameInmates DEF Located
  <2>7. current # NoNode => Left' /\ Worked'
    <3> SUFFICES ASSUME current # NoNode PROVE Left' /\ Worked'
      OBVIOUS
    <3>1. step[current] = "waiting" /\ (\E q \in Timers : proc[q].node = current)
            => \E q \in Timers' : proc'[q].node = current
      BY <1>5, <2>4, <2>5 DEF n
    <3>2. Worked'
      BY <1>1, <2>1, <2>3, <2>4, <3>1 DEF Located, Worked
    <3>3. Left'
      BY <1>1, <2>1, <2>3 DEF Located, Left
    <3> QED
      BY <3>2, <3>3
  <2>8. run' \in {"running", "failed"} => current # NoNode
    BY <1>1 DEF Located, NotYet
  <2> QED
    BY <1>1, <2>1, <2>3, <2>6, <2>7, <2>8, Quietly
<1> QED
  BY <1>4, <1>5

\* Those who are at the steps stay when a process that is at none goes to none.
LEMMA OthersStay ==
    ASSUME NEW p \in Processes, \A q \in Processes \ {p} : proc'[q] = proc[q],
           ~Enters(proc[p]), ~Times(proc[p]), ~Enters(proc'[p]), ~Times(proc'[p])
    PROVE  /\ Entrants' = Entrants /\ Timers' = Timers
           /\ \A q \in Entrants \cup Timers : proc'[q] = proc[q]
BY DEF Entrants, Timers

LEMMA AdvanceMoves ==
    ASSUME Typed, Located, NEW p \in Processes, Advance(p),
           "revived" \notin lapses', "returned" \notin lapses'
    PROVE  Located'
<1> DEFINE t == proc[p].to
           m == IF t = NoNode THEN Task("complete", NoNode) ELSE Task("step", t)
<1>1. /\ proc \in [Processes -> Process] /\ Rows
      /\ t \in Nodes \cup {NoNode} /\ proc[p].at = "settled"
      /\ tasks' = tasks /\ step' = step /\ graph' = graph
  BY TypedParts DEF Advance, Process
<1>2. /\ t = NoNode => run' = run /\ current' = current
      /\ t # NoNode => /\ run' = "running" /\ current' = t
                       /\ run \notin Over /\ step[t] # "completed"
      /\ proc' = Sending(p, m)
  BY DEF Advance, Lapsed
<1>3. /\ \A u : ~Carries(proc[p], u)
      /\ \A u : Heads(proc[p], u) <=> u = t
      /\ ~Enters(proc[p]) /\ ~Times(proc[p])
  BY <1>1, Holding DEF Occupied
<1>4. t \in Ways
  BY <1>1, <1>3 DEF Ways
<1> HIDE DEF t
<1>5. /\ \A q \in Processes \ {p} : proc'[q] = proc[q]
      /\ \A u : Carries(proc'[p], u) <=> u = m
      /\ \A u : Heads(proc'[p], u) <=> Task("branch", u) = m
      /\ ~Enters(proc'[p]) /\ ~Times(proc'[p])
  BY <1>1, <1>2, SendingOut
<1>6. /\ \A u : ~Heads(proc'[p], u)
      /\ t = NoNode => \A n \in Nodes : ~Carries(proc'[p], Task("step", n))
      /\ t = NoNode => Carries(proc'[p], Task("complete", NoNode))
      /\ t # NoNode => \A n \in Nodes : Carries(proc'[p], Task("step", n)) <=> n = t
  BY <1>5, TaskEq
<1> HIDE DEF m
<1>7. Ways' \subseteq Ways
  BY <1>1, <1>5, <1>6 DEF Ways
<1>8. /\ Entrants' = Entrants /\ Timers' = Timers
      /\ \A q \in Entrants \cup Timers : proc'[q] = proc[q]
  BY <1>3, <1>5, OthersStay
<1>9. CASE t = NoNode
  <2>1. Out' = Out
    BY <1>1, <1>3, <1>5, <1>6, <1>9 DEF Out
  <2>2. Ending'
    BY <1>6, <1>9 DEF Ending
  <2>3. Inmates'
    BY <1>1, <1>2, <1>8, <1>9, SameInmates DEF Located
  <2>4. current # NoNode => Left' /\ Worked'
    BY <1>1, <1>2, <1>8, <1>9, <2>1, <2>2 DEF Located, Left, Worked
  <2>5. run' \in {"running", "failed"} => current # NoNode
    BY <1>2, <1>9 DEF Located, NotYet
  <2> QED
    BY <1>1, <1>2, <1>7, <1>9, <2>1, <2>3, <2>4, <2>5, Quietly
<1>10. CASE t # NoNode
  <2>1. t \in Nodes /\ Out' = Out \cup {t}
    BY <1>1, <1>3, <1>5, <1>6, <1>10 DEF Out
  <2>2. current # NoNode
    BY <1>4 DEF Located, NotYet
  <2>3. t = current \/ (step[current] = "completed" /\ NewWays = {t})
    <3>1. t # current => t \in NewWays
      BY <1>2, <1>4, <1>10, <2>1 DEF NewWays
    <3> QED
      BY <3>1 DEF Located, OneWay
  <2>4. NewWays' = {}
    <3>1. NewWays' \subseteq (NewWays \cup {current}) \ {t}
      BY <1>1, <1>2, <1>7, <1>10 DEF NewWays
    <3>2. CASE t = current
      BY <1>2, <1>10, <3>1, <3>2 DEF Located, OneWay
    <3>3. CASE step[current] = "completed" /\ NewWays = {t}
      BY <1>1, <3>1, <3>3 DEF NewWays
    <3> QED
      BY <2>3, <3>2, <3>3
  <2>5. Inmates'
    <3>1. CASE t = current
      BY <1>1, <1>2, <1>8, <1>10, <3>1, SameInmates DEF Located
    <3>2. CASE step[current] = "completed"
      <4>1. Entrants' = {}
        BY <1>8, <3>2, EntrantsHere DEF Located
      <4> QED
        BY <1>1, <1>8, <4>1 DEF Located, Inmates, Waits
    <3> QED
      BY <2>3, <3>1, <3>2
  <2>6. OpenHere' /\ SentHere'
    BY <1>1, <1>2, <1>10, <2>1, <2>3 DEF Located, OpenHere, SentHere
  <2>7. Left' /\ Worked'
    BY <1>1, <1>2, <1>10, <2>1 DEF Left, Worked
  <2> QED
    BY <1>2, <1>10, <2>4, <2>5, <2>6, <2>7 DEF Located, OneWay, NotYet
<1> QED
  BY <1>9, <1>10

\* When the rows and what is on its way stay.
LEMMA AllStays ==
    ASSUME Located, step' = step, current' = current, graph' = graph,
           Out' = Out, Ways' = Ways, Ending => Ending',
           Entrants' = Entrants, Timers' = Timers,
           \A q \in Entrants \cup Timers :
                /\ proc'[q].node = proc[q].node /\ proc'[q].at = proc[q].at
                /\ proc'[q].found = proc[q].found,
           run' \in {run, "paused"}, run' = "paused" => run \notin Over
    PROVE  Located'
<1>1. Inmates'
  BY SameInmates DEF Located
<1>2. run' \in {"running", "failed"} => current # NoNode
  BY DEF Located, NotYet
<1>3. current # NoNode => Left'
  BY DEF Located, Left
<1>4. current # NoNode => Worked'
  BY DEF Located, Worked
<1> QED
  BY <1>1, <1>2, <1>3, <1>4, Quietly

LEMMA SendMoves ==
    ASSUME Typed, Located, NEW p \in Processes, Send(p)
    PROVE  Located'
<1> DEFINE m == proc[p].out
<1>1. /\ proc \in [Processes -> Process] /\ proc[p].at = "sending" /\ Done(p)
      /\ tasks' = tasks \cup {m} /\ step' = step /\ graph' = graph
      /\ run' = run /\ current' = current
  BY TypedParts DEF Send
<1>2. /\ \A u : Carries(proc[p], u) <=> m = u
      /\ \A u : Heads(proc[p], u) <=> m = Task("branch", u)
      /\ ~Enters(proc[p]) /\ ~Times(proc[p])
  BY <1>1, Holding DEF Occupied
<1> HIDE DEF m
<1>3. /\ \A q \in Processes \ {p} : proc'[q] = proc[q]
      /\ \A u : ~Carries(proc'[p], u) /\ ~Heads(proc'[p], u)
      /\ ~Enters(proc'[p]) /\ ~Times(proc'[p])
  BY <1>1, DoneHolds
<1>4. Out' = Out
  BY <1>1, <1>2, <1>3 DEF Out
<1>5. Ways' = Ways
  BY <1>1, <1>2, <1>3 DEF Ways
<1>6. Ending => Ending'
  BY <1>1, <1>2, <1>3 DEF Ending
<1>7. /\ Entrants' = Entrants /\ Timers' = Timers
      /\ \A q \in Entrants \cup Timers : proc'[q] = proc[q]
  BY <1>2, <1>3, OthersStay
<1> QED
  BY <1>1, <1>4, <1>5, <1>6, <1>7, AllStays DEF Over

LEMMA EventMoves ==
    ASSUME Located, NEW n \in Nodes, Event(n)
    PROVE  Located'
<1>1. /\ proc' = proc /\ tasks' = tasks \cup {Task("resolve", n)}
      /\ step' = step /\ graph' = graph /\ run' = run /\ current' = current
  BY DEF Event
<1>2. Out' = Out /\ Ways' = Ways
  <2>1. /\ \A k : Task("step", k) # Task("resolve", n)
        /\ \A k : Task("branch", k) # Task("resolve", n)
    BY TaskEq
  <2> QED
    BY <1>1, <2>1 DEF Out, Ways
<1>3. Ending => Ending'
  BY <1>1 DEF Ending
<1>4. Entrants' = Entrants /\ Timers' = Timers
  BY <1>1 DEF Entrants, Timers
<1> QED
  BY <1>1, <1>2, <1>3, <1>4, AllStays DEF Over

LEMMA PauseMoves ==
    ASSUME Located, Pause, "astray" \notin lapses'
    PROVE  Located'
<1>1. /\ proc' = proc /\ tasks' = tasks
      /\ step' = step /\ graph' = graph /\ run' = "paused" /\ current' = current
      /\ run \notin Over
  BY DEF Pause, Lapse, Lapsed
<1>2. /\ Out' = Out /\ Ways' = Ways /\ Ending' = Ending
      /\ Entrants' = Entrants /\ Timers' = Timers
  BY <1>1 DEF Out, Ways, Ending, Entrants, Timers
<1> QED
  BY <1>1, <1>2, AllStays

LEMMA CancelMoves ==
    ASSUME Typed, Located, Cancel
    PROVE  Located'
<1>1. /\ proc \in [Processes -> Process] /\ proc' = Overtaken(proc) /\ tasks' = tasks
      /\ run' = "canceled" /\ step' = step /\ current' = current /\ graph' = graph
  BY TypedParts DEF Cancel
<1>2. \A q \in Processes : /\ proc'[q].at = proc[q].at /\ proc'[q].node = proc[q].node
                           /\ proc'[q].found = proc[q].found /\ proc'[q].task = proc[q].task
                           /\ proc'[q].to = proc[q].to /\ proc'[q].out = proc[q].out
  BY <1>1 DEF Overtaken, Process
<1>3. Out' = Out /\ Ways' = Ways
  BY <1>1, <1>2 DEF Out, Ways, Carries, Heads
<1>4. Entrants' = Entrants /\ Timers' = Timers
  BY <1>2 DEF Entrants, Timers, Enters, Times
<1>5. Inmates'
  <2>1. Entrants \cup Timers \subseteq Processes
    BY DEF Entrants, Timers
  <2> QED
    BY <1>1, <1>2, <1>4, <2>1, SameInmates DEF Located
<1>6. Left' /\ Worked'
  BY <1>1 DEF Left, Worked, Over
<1> QED
  BY <1>1, <1>3, <1>5, <1>6, Quietly

LEMMA ResumeMoves ==
    ASSUME Typed, Located, NEW p \in Processes, Resume(p), "astray" \notin lapses'
    PROVE  Located'
<1>1. /\ proc \in [Processes -> Process] /\ proc[p].at = "idle"
      /\ tasks' = tasks /\ step' = step /\ graph' = graph /\ current' = current
      /\ current \in Nodes /\ current # NoNode
      /\ run = "paused" /\ run' = "running"
      /\ proc' = Sending(p, Task("step", current))
  BY TypedParts DEF Resume, Resumed, Restart, Lapse, Lapsed, Rows
<1>2. /\ \A u : ~Carries(proc[p], u) /\ ~Heads(proc[p], u)
      /\ ~Enters(proc[p]) /\ ~Times(proc[p])
  BY <1>1, Holding DEF Occupied
<1>3. /\ \A q \in Processes \ {p} : proc'[q] = proc[q]
      /\ \A u : Carries(proc'[p], u) <=> u = Task("step", current)
      /\ \A u : Heads(proc'[p], u) <=> Task("branch", u) = Task("step", current)
      /\ ~Enters(proc'[p]) /\ ~Times(proc'[p])
  BY <1>1, SendingOut
<1>4. /\ \A n \in Nodes : Carries(proc'[p], Task("step", n)) <=> n = current
      /\ \A u : ~Heads(proc'[p], u)
  BY <1>3, TaskEq
<1>5. Out' = Out \cup {current} /\ Ways' = Ways /\ (Ending => Ending')
  BY <1>1, <1>2, <1>3, <1>4, Gains DEF Ways
<1>6. /\ Entrants' = Entrants /\ Timers' = Timers
      /\ \A q \in Entrants \cup Timers : proc'[q] = proc[q]
  BY <1>2, <1>3, OthersStay
<1>7. Inmates'
  BY <1>1, <1>6, SameInmates DEF Located
<1>8. OpenHere' /\ SentHere' /\ NotYet'
  BY <1>1, <1>5 DEF Located, OpenHere, SentHere, NotYet
<1>9. OneWay'
  BY <1>1, <1>5 DEF Located, OneWay, NewWays
<1>10. Left' /\ Worked'
  BY <1>1, <1>5 DEF Located, Left, Worked, Over
<1> QED
  BY <1>7, <1>8, <1>9, <1>10 DEF Located

LEMMA RetryMoves ==
    ASSUME Typed, Located, NEW p \in Processes, Retry(p), "astray" \notin lapses'
    PROVE  Located'
<1>1. /\ proc \in [Processes -> Process] /\ proc[p].at = "idle"
      /\ tasks' = tasks /\ graph' = graph /\ run = "failed" /\ run' = "running"
      /\ current \in Nodes /\ current # NoNode /\ step \in [Nodes -> Steps]
  BY TypedParts DEF Retry, Lapse, Lapsed, Rows, Located, NotYet
<1>2. /\ current' = current
      /\ proc' = Sending(p, Task("step", current))
      /\ step' = [m \in Nodes |-> IF m = current /\ step[m] = "failed" THEN "pending" ELSE step[m]]
  <2>1. PICK n \in RetryAt :
            /\ current' = n /\ Resumed(p, n)
            /\ step' = [m \in Nodes |-> IF m = n /\ step[m] = "failed" THEN "pending" ELSE step[m]]
    BY DEF Retry
  <2>2. n = current
    BY DEF RetryAt, FailedSteps, Located, OpenHere
  <2> QED
    BY <1>1, <2>1, <2>2 DEF Resumed, Restart
<1>3. /\ \A u : ~Carries(proc[p], u) /\ ~Heads(proc[p], u)
      /\ ~Enters(proc[p]) /\ ~Times(proc[p])
  BY <1>1, Holding DEF Occupied
<1>4. /\ \A q \in Processes \ {p} : proc'[q] = proc[q]
      /\ \A u : Carries(proc'[p], u) <=> u = Task("step", current)
      /\ \A u : Heads(proc'[p], u) <=> Task("branch", u) = Task("step", current)
      /\ ~Enters(proc'[p]) /\ ~Times(proc'[p])
  BY <1>1, <1>2, SendingOut
<1>5. /\ \A n \in Nodes : Carries(proc'[p], Task("step", n)) <=> n = current
      /\ \A u : ~Heads(proc'[p], u)
  BY <1>4, TaskEq
<1>6. Out' = Out \cup {current} /\ Ways' = Ways /\ (Ending => Ending')
  BY <1>1, <1>3, <1>4, <1>5, Gains DEF Ways
<1>7. /\ Entrants' = Entrants /\ Timers' = Timers
      /\ \A q \in Entrants \cup Timers : proc'[q] = proc[q]
  BY <1>3, <1>4, OthersStay
<1>8. /\ \A n \in Nodes \ {current} : step'[n] = step[n]
      /\ step[current] # "failed" => step'[current] = step[current]
      /\ step[current] = "failed" => step'[current] = "pending"
      /\ \A n \in Nodes : step'[n] = "completed" <=> step[n] = "completed"
  BY <1>1, <1>2
<1>9. Inmates'
  <2>1. ASSUME NEW q \in Timers
        PROVE  /\ Waits(proc[q].node)'
               /\ step'[proc'[q].node] \in {"waiting", "running", "completed"}
    <3>1. proc[q].node \in Nodes
      BY InsideANode
    <3>2. Waits(proc[q].node) /\ step[proc[q].node] \in {"waiting", "running", "completed"}
      BY DEF Located, Inmates
    <3> QED
      BY <1>1, <1>7, <1>8, <3>1, <3>2 DEF Waits
  <2>2. ASSUME NEW q \in Entrants
        PROVE  /\ proc'[q].node = current'
               /\ step'[current'] \notin {"completed", "waiting"}
               /\ proc'[q].at = "claimed" => \/ step'[current'] = proc'[q].found
                                             \/ step'[current'] = "pending" /\ proc'[q].found = "failed"
               /\ proc'[q].at = "chosen" => step'[current'] = "running"
               /\ proc'[q].at = "parking" => step'[current'] = "waiting_input"
    <3>1. /\ proc[q].node = current /\ step[current] \notin {"completed", "waiting"}
          /\ proc[q].at = "claimed" => \/ step[current] = proc[q].found
                                       \/ step[current] = "pending" /\ proc[q].found = "failed"
          /\ proc[q].at = "chosen" => step[current] = "running"
          /\ proc[q].at = "parking" => step[current] = "waiting_input"
      BY DEF Located, Inmates
    <3> QED
      BY <1>2, <1>7, <1>8, <3>1
  <2>3. \A q, r \in Entrants : q = r
    BY DEF Located, Inmates
  <2> QED
    BY <1>7, <2>1, <2>2, <2>3 DEF Inmates, Waits
<1>10. OpenHere' /\ SentHere' /\ NotYet'
  BY <1>1, <1>2, <1>6, <1>8 DEF Located, OpenHere, SentHere, NotYet, Out
<1>11. OneWay'
  <2>1. NewWays' = NewWays
    BY <1>2, <1>6, <1>8 DEF NewWays
  <2> QED
    BY <1>1, <1>2, <1>8, <2>1 DEF Located, OneWay
<1>12. Left' /\ Worked'
  <2>1. Left'
    BY <1>1, <1>2, <1>6, <1>8 DEF Located, Left, Over
  <2>2. current' \in Out'
    BY <1>2, <1>6
  <2> QED
    BY <2>1, <2>2 DEF Worked
<1> QED
  BY <1>9, <1>10, <1>11, <1>12 DEF Located

\* A step that awaits a person is the current one, and nobody is at it.
LEMMA ReadyHere ==
    ASSUME Typed, Located, NEW n \in Nodes, Ready(n)
    PROVE  /\ n = current /\ n # NoNode /\ step[n] = "waiting_input"
           /\ Entrants = {} /\ \A q \in Timers : proc[q].node # n
<1>1. n = current /\ n # NoNode /\ step[n] = "waiting_input"
  BY ConstantsAssumption DEF Ready, Located, OpenHere, ConstantsAssumption
<1>2. \A q \in Entrants \cup Timers : proc[q].node # n
  BY InsideANode DEF Ready, Inside, Occupied
<1>3. \A q \in Entrants : proc[q].node = current
  BY DEF Located, Inmates
<1> QED
  BY <1>1, <1>2, <1>3

LEMMA AnswerMoves ==
    ASSUME Typed, Located, NEW p \in Processes, NEW n \in Nodes, Answer(p, n),
           "astray" \notin lapses'
    PROVE  Located'
<1>1. /\ proc \in [Processes -> Process] /\ Rows /\ proc[p].at = "idle"
      /\ tasks' = tasks /\ graph' = graph /\ run' = run /\ current' = current
      /\ Ready(n)
  BY TypedParts DEF Answer, Lapse, Lapsed
<1>2. /\ n = current /\ n # NoNode /\ step[n] = "waiting_input"
      /\ Entrants = {} /\ \A q \in Timers : proc[q].node # n
  BY <1>1, ReadyHere
<1>3. PICK t \in Nodes \cup {NoNode} : proc' = Sending(p, Task("branch", t))
  BY <1>1, GraphIsTyped DEF Answer
<1>4. step'[n] = "completed" /\ \A k \in Nodes \ {n} : step'[k] = step[k]
  BY <1>1 DEF Answer, SetStep, Rows
<1>5. /\ \A u : ~Carries(proc[p], u) /\ ~Heads(proc[p], u)
      /\ ~Enters(proc[p]) /\ ~Times(proc[p])
  BY <1>1, Holding DEF Occupied
<1>6. /\ \A q \in Processes \ {p} : proc'[q] = proc[q]
      /\ \A u : Carries(proc'[p], u) <=> u = Task("branch", t)
      /\ \A u : Heads(proc'[p], u) <=> Task("branch", u) = Task("branch", t)
      /\ ~Enters(proc'[p]) /\ ~Times(proc'[p])
  BY <1>1, <1>3, SendingOut
<1>7. /\ \A k \in Nodes : ~Carries(proc'[p], Task("step", k))
      /\ \A u : Heads(proc'[p], u) <=> u = t
  BY <1>6, TaskEq
<1>8. Out' = Out /\ Ways' = Ways \cup {t}
  BY <1>1, <1>5, <1>6, <1>7, Gains DEF Out
<1>9. /\ Entrants' = {} /\ Timers' = Timers
      /\ \A q \in Timers : proc'[q] = proc[q]
  BY <1>2, <1>5, <1>6, OthersStay
<1>10. Inmates'
  <2>1. ASSUME NEW q \in Timers
        PROVE  /\ Waits(proc[q].node)'
               /\ step'[proc'[q].node] \in {"waiting", "running", "completed"}
    <3>1. proc[q].node \in Nodes \ {n}
      BY <1>2, InsideANode
    <3>2. Waits(proc[q].node) /\ step[proc[q].node] \in {"waiting", "running", "completed"}
      BY DEF Located, Inmates
    <3> QED
      BY <1>1, <1>4, <1>9, <3>1, <3>2 DEF Waits
  <2> QED
    BY <1>9, <2>1 DEF Inmates, Waits
<1>11. OpenHere' /\ SentHere' /\ NotYet'
  BY <1>1, <1>2, <1>4, <1>8 DEF Located, OpenHere, SentHere, NotYet, Out
<1>12. OneWay'
  <2>1. NewWays = {}
    BY <1>2 DEF Located, OneWay
  <2>2. NewWays' \subseteq {t}
    BY <1>1, <1>2, <1>4, <1>8, <2>1 DEF NewWays
  <2> QED
    BY <1>1, <1>2, <1>4, <2>2 DEF OneWay
<1>13. Left' /\ Worked'
  BY <1>1, <1>2, <1>4, <1>8 DEF Left, Worked
<1> QED
  BY <1>10, <1>11, <1>12, <1>13 DEF Located

LEMMA ApproveMoves ==
    ASSUME Typed, Located, NEW p \in Processes, NEW n \in Nodes, Approve(p, n),
           "astray" \notin lapses'
    PROVE  Located'
<1>1. /\ proc \in [Processes -> Process] /\ proc[p].at = "idle"
      /\ tasks' = tasks /\ graph' = graph /\ run' = run /\ current' = current /\ step' = step
      /\ Ready(n)
  BY TypedParts DEF Approve, Lapse, Lapsed
<1>2. /\ n = current /\ n # NoNode /\ step[n] = "waiting_input"
      /\ Entrants = {} /\ \A q \in Timers : proc[q].node # n
  BY <1>1, ReadyHere
<1>3. /\ \A q \in Processes \ {p} : proc'[q] = proc[q]
      /\ proc'[p].at = "executed" /\ proc'[p].node = n
  BY <1>1 DEF Approve, Idle
<1>4. /\ \A u : ~Carries(proc[p], u) /\ ~Heads(proc[p], u)
      /\ ~Enters(proc[p]) /\ ~Times(proc[p])
  BY <1>1, Holding DEF Occupied
<1>5. /\ \A u : ~Carries(proc'[p], u) /\ ~Heads(proc'[p], u)
      /\ Enters(proc'[p]) /\ ~Times(proc'[p])
  BY <1>3, Holding DEF Enters, Times, Occupied
<1>6. Out' = Out /\ Ways' = Ways
  BY <1>1, <1>3, <1>4, <1>5, Gains DEF Out
<1>7. /\ Entrants' = {p} /\ Timers' = Timers
      /\ \A q \in Timers : proc'[q] = proc[q]
  BY <1>2, <1>3, <1>4, <1>5 DEF Entrants, Timers
<1>8. Inmates'
  BY <1>1, <1>2, <1>3, <1>7 DEF Located, Inmates, Waits
<1>9. OpenHere' /\ SentHere' /\ NotYet'
  BY <1>1, <1>2, <1>6 DEF Located, OpenHere, SentHere, NotYet
<1>10. OneWay'
  BY <1>1, <1>6 DEF Located, OneWay, NewWays
<1>11. Left' /\ Worked'
  BY <1>1, <1>2, <1>7 DEF Left, Worked
<1> QED
  BY <1>8, <1>9, <1>10, <1>11 DEF Located

LEMMA ReviewMoves ==
    ASSUME Typed, Located, NEW n \in Nodes, Review(n), "astray" \notin lapses'
    PROVE  Located'
<1>1. /\ Rows /\ proc' = proc /\ graph.kind[n] = "email"
      /\ tasks' = tasks /\ graph' = graph /\ run' = run /\ current' = current
      /\ Ready(n)
  BY TypedParts DEF Review, Lapse, Lapsed
<1>2. /\ n = current /\ n # NoNode /\ step[n] = "waiting_input"
      /\ Entrants = {} /\ \A q \in Timers : proc[q].node # n
  BY <1>1, ReadyHere
<1>3. /\ step'[n] \in {"failed", "waiting_input"} /\ \A k \in Nodes \ {n} : step'[k] = step[k]
  BY <1>1 DEF Review, SetStep, Rows
<1>4. /\ Out' = Out /\ Ways' = Ways /\ Ending' = Ending
      /\ Entrants' = {} /\ Timers' = Timers
  BY <1>1, <1>2 DEF Out, Ways, Ending, Entrants, Timers
<1>5. Inmates'
  <2>1. ASSUME NEW q \in Timers
        PROVE  /\ Waits(proc[q].node)'
               /\ step'[proc'[q].node] \in {"waiting", "running", "completed"}
    <3>1. proc[q].node \in Nodes \ {n}
      BY <1>2, InsideANode
    <3>2. Waits(proc[q].node) /\ step[proc[q].node] \in {"waiting", "running", "completed"}
      BY DEF Located, Inmates
    <3> QED
      BY <1>1, <1>3, <3>1, <3>2 DEF Waits
  <2> QED
    BY <1>4, <2>1 DEF Inmates, Waits
<1>6. OpenHere' /\ SentHere' /\ NotYet'
  BY <1>1, <1>2, <1>3, <1>4 DEF Located, OpenHere, SentHere, NotYet, Out
<1>7. OneWay'
  <2>1. NewWays = {}
    BY <1>2 DEF Located, OneWay
  <2>2. NewWays' = {}
    BY <1>1, <1>2, <1>3, <1>4, <2>1 DEF NewWays
  <2> QED
    BY <2>2 DEF OneWay
<1>8. Left' /\ Worked'
  BY <1>1, <1>2, <1>3, <1>4 DEF Located, Left, Worked
<1> QED
  BY <1>5, <1>6, <1>7, <1>8 DEF Located

-----------------------------------------------------------------------------

\* As long as nothing goes wrong, whatever is under way stays located.
LEMMA CalmStep == Typed /\ Places /\ CalmLocated /\ [Next]_vars => CalmLocated'
<1> SUFFICES ASSUME Typed, Places, CalmLocated, [Next]_vars, lapses' \subseteq {"unsure"}
             PROVE  Located'
  BY DEF CalmLocated, Calm
<1>a. Located
  BY Remembers DEF CalmLocated, Calm
<1>1. ASSUME NEW p \in Processes, Work(p) PROVE Located'
  <2>1. ASSUME NEW m \in tasks, Take(p, m) PROVE Located'
    BY <1>a, <2>1, TakeMoves
  <2>2. CASE Start(p) \/ Complete(p) \/ Claim(p)
    BY <1>a, <2>2, StartMoves, CompleteMoves, ClaimMoves
  <2>3. CASE Settle(p) \/ Execute(p) \/ Raises(p) \/ FailRun(p)
    BY <1>a, <2>3, SettleMoves, ExecuteMoves, RaisesMoves, StopMoves
  <2>4. CASE Park(p) \/ PauseRun(p) \/ Arm(p) \/ EndWait(p)
    BY <1>a, <2>4, ParkMoves, StopMoves, ArmMoves, EndWaitMoves
  <2>5. CASE Advance(p) \/ Send(p)
    BY <1>a, <2>5, AdvanceMoves, SendMoves
  <2> QED
    BY <1>1, <2>1, <2>2, <2>3, <2>4, <2>5 DEF Work
<1>2. ASSUME NEW p \in Processes, Resume(p) \/ Retry(p) PROVE Located'
  BY <1>a, <1>2, ResumeMoves, RetryMoves
<1>3. ASSUME NEW p \in Processes, Dies(p) PROVE Located'
  BY <1>3 DEF Dies
<1>4. ASSUME NEW p \in Processes, NEW n \in Nodes, Answer(p, n) \/ Approve(p, n) PROVE Located'
  BY <1>a, <1>4, AnswerMoves, ApproveMoves
<1>5. ASSUME NEW n \in Nodes, Event(n) \/ Review(n) PROVE Located'
  BY <1>a, <1>5, EventMoves, ReviewMoves
<1>6. CASE Cancel \/ Pause
  BY <1>a, <1>6, CancelMoves, PauseMoves
<1>7. CASE UNCHANGED vars
  BY <1>a, <1>7 DEF vars, Located, OpenHere, SentHere, NotYet, OneWay, Inmates, Left, Worked,
                    Out, Ways, Ending, NewWays, Entrants, Timers, Waits
<1> QED
  BY <1>1, <1>2, <1>3, <1>4, <1>5, <1>6, <1>7 DEF Next

LEMMA LocatedInit == Init => Located
<1> SUFFICES ASSUME Init PROVE Located
  OBVIOUS
<1>1. /\ \A p \in Processes : proc[p].at = "idle"
      /\ \A n \in Nodes : step[n] = "pending"
      /\ tasks = {Task("start", NoNode)} /\ run = "queued" /\ current = NoNode
  BY DEF Init, Idle
<1>2. Entrants = {} /\ Timers = {}
  BY <1>1 DEF Entrants, Timers, Enters, Times, Occupied
<1>3. Out = {} /\ Ways = {}
  <2>1. \A t : Task("step", t) \notin tasks /\ Task("branch", t) \notin tasks
    BY <1>1, TaskEq
  <2> QED
    BY <1>1, <2>1 DEF Out, Ways, Carries, Heads
<1> QED
  BY <1>1, <1>2, <1>3 DEF Located, OpenHere, SentHere, NotYet, OneWay, NewWays, Inmates

\* A running run has somebody or something to take it further, or waits for an answer,
\* as long as no process dies, nobody asks for what is out of place and the run comes to
\* no node again: its current step is being worked on, has its message on its way or
\* awaits a person, or it is completed and the run is being led on from it.
THEOREM RunsMove == Spec => []RunMoves
<1>1. Init => Typed
  BY TypedInit
<1>2. Init => Places /\ CalmLocated
  <2> SUFFICES ASSUME Init PROVE Places /\ CalmLocated
    OBVIOUS
  <2>1. /\ \A p \in Processes : proc[p].at = "idle"
        /\ \A n \in Nodes : step[n] = "pending"
    BY DEF Init, Idle
  <2>2. Places
    BY <2>1 DEF Places
  <2> QED
    BY <2>2, LocatedInit DEF CalmLocated
<1> DEFINE Inv == Typed /\ Places /\ CalmLocated
<1>3. Inv /\ [Next]_vars => Inv'
  BY TypedStep, PlacesStep, CalmStep
<1>4. Inv => RunMoves
  <2> SUFFICES ASSUME Inv, run = "running", lapses \subseteq {"unsure"},
                      tasks = {}, \A p \in Processes : proc[p].at = "idle"
               PROVE  \E n \in Nodes : step[n] = "waiting_input"
    BY DEF RunMoves
  <2>1. Located /\ current # NoNode /\ current \in Nodes
    BY DEF CalmLocated, Calm, Located, NotYet, Typed, TypeOK
  <2>2. Out = {} /\ Ways = {} /\ ~Ending
    BY DEF Out, Ways, Ending, Carries, Heads
  <2>3. Entrants = {} /\ Timers = {}
    BY DEF Entrants, Timers, Enters, Times, Occupied
  <2>4. step[current] # "completed"
    BY <2>1, <2>2 DEF Located, Left, Over
  <2> QED
    BY <2>1, <2>2, <2>3, <2>4 DEF Located, Worked
<1> QED
  BY <1>1, <1>2, <1>3, <1>4, PTL DEF Spec

=============================================================================
