------------------------------ MODULE MCHALease ------------------------------
(* Small instances of HALease for TLC.                                     *)
EXTENDS HALease, TLC

\* Sessions are interchangeable, and so are replicas.
Symmetry == Permutations(Sessions) \cup Permutations(Replicas)
=============================================================================
