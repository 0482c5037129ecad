----------------------------- MODULE MCScanGate -----------------------------
(* Model checking of ScanGate: every interleaving of a few gate calls, their *)
(* scans, the deaths of their processes and the expiry of lock, row and      *)
(* cooldown.                                                                 *)
EXTENDS ScanGate
=============================================================================
