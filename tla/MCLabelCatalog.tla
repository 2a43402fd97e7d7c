--------------------------- MODULE MCLabelCatalog ---------------------------
(* Small instances of LabelCatalog for TLC.                                *)
EXTENDS LabelCatalog, TLC

\* One value for each key: label k + 1 has key k.
OneValueEach == [l \in Labels |-> l - 1]

\* The keys are stored in the reverse of the alphabetical order ("b" < "aa").
Reversed == [k \in Keys |-> MaxKey - k]

\* Every call names the metric and one or both of the other labels.
NamedRequests == {{1, 2}, {1, 3}, {1, 2, 3}}

Symmetry == Permutations(Sessions) \cup Permutations(Metrics)
=============================================================================
