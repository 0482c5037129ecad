------------------------- MODULE MCFindingLifecycle -------------------------
\* FindingLifecycle for TLC: handlers of one kind are interchangeable.
EXTENDS FindingLifecycle, TLC

Symmetric == Permutations(Observations) \cup Permutations(Operators) \cup Permutations(Filers)
=============================================================================
