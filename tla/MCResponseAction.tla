-------------------------- MODULE MCResponseAction --------------------------
EXTENDS ResponseAction, TLC

Symmetry == Permutations(Actions) \cup Permutations(Requests)

=============================================================================
