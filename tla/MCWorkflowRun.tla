---------------------------- MODULE MCWorkflowRun ----------------------------
(* Three small workflows for TLC: a wait with a decision on its timeout branch, *)
(* a condition that sends an AI's e-mail or ends, and a decision, an action and *)
(* a condition that form a loop.                                                *)
EXTENDS WorkflowRun, TLC

CONSTANTS n1, n2, n3

MCNodes == {n1, n2, n3}

Waits ==
    [start |-> n1,
     kind |-> n1 :> "wait_until" @@ n2 :> "decision" @@ n3 :> "end",
     yes |-> n1 :> n3 @@ n2 :> n3 @@ n3 :> NoNode,
     no |-> n1 :> n2 @@ n2 :> n3 @@ n3 :> NoNode]

Mails ==
    [start |-> n1,
     kind |-> n1 :> "condition" @@ n2 :> "email" @@ n3 :> "end",
     yes |-> n1 :> n2 @@ n2 :> n3 @@ n3 :> NoNode,
     no |-> n1 :> n3 @@ n2 :> n3 @@ n3 :> NoNode]

Loops ==
    [start |-> n1,
     kind |-> n1 :> "decision" @@ n2 :> "action" @@ n3 :> "condition",
     yes |-> n1 :> n2 @@ n2 :> n3 @@ n3 :> n1,
     no |-> n1 :> NoNode @@ n2 :> n3 @@ n3 :> NoNode]

MCGraphs == {Waits, Mails, Loops}
Symmetric == Permutations(Processes)
=============================================================================
