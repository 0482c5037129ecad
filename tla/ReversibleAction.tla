-------------------------- MODULE ReversibleAction --------------------------
(***************************************************************************)
(* What the response context promises about one containment action, as if  *)
(* every operator decision happened in a single indivisible step: the      *)
(* lifecycle of execution_status.py, and beside it the last thing the      *)
(* product really did to the customer's cloud on the action's behalf.      *)
(***************************************************************************)

CONSTANT Actions

VARIABLES
    state,      \* where the action stands in the lifecycle
    effect      \* the last real change made to the cloud for the action

vars == <<state, effect>>

States  == {"none", "proposed", "executed", "failed", "rejected", "rolled_back"}
Effects == {"none", "revoked", "restored"}

Init ==
    /\ state = [a \in Actions |-> "none"]
    /\ effect = [a \in Actions |-> "none"]

Propose(a) ==
    /\ state[a] = "none"
    /\ state' = [state EXCEPT ![a] = "proposed"]
    /\ UNCHANGED effect

\* An approval that succeeds either really revoked the rule or, on a dry run,
\* changed nothing at all.
Execute(a) ==
    /\ state[a] = "proposed"
    /\ state' = [state EXCEPT ![a] = "executed"]
    /\ effect' \in {effect, [effect EXCEPT ![a] = "revoked"]}

Fail(a) ==
    /\ state[a] = "proposed"
    /\ state' = [state EXCEPT ![a] = "failed"]
    /\ UNCHANGED effect

Reject(a) ==
    /\ state[a] = "proposed"
    /\ state' = [state EXCEPT ![a] = "rejected"]
    /\ UNCHANGED effect

\* Undoing restores what was revoked; undoing a dry run is a dry run.
Rollback(a) ==
    /\ state[a] = "executed"
    /\ state' = [state EXCEPT ![a] = "rolled_back"]
    /\ effect' = IF effect[a] = "revoked"
                 THEN [effect EXCEPT ![a] = "restored"]
                 ELSE effect

Next == \E a \in Actions :
            Propose(a) \/ Execute(a) \/ Fail(a) \/ Reject(a) \/ Rollback(a)

Spec == Init /\ [][Next]_vars

=============================================================================
