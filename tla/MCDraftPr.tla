------------------------------ MODULE MCDraftPr ------------------------------
EXTENDS DraftPr, TLC

Symmetry == Permutations(Workers)

\* The least severe finding has the newest card.
NewestLast == [f \in Findings |-> Cardinality({g \in Findings : g > f})]

=============================================================================
