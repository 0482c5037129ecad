--------------------------- MODULE MCFindingTriage ---------------------------
EXTENDS FindingTriage, TLC

Symmetry == Permutations(Procs)

=============================================================================
