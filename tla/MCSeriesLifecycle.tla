------------------------- MODULE MCSeriesLifecycle -------------------------
(* Small instances of SeriesLifecycle for TLC.                             *)
EXTENDS SeriesLifecycle, TLC

\* Connectors that do the same are interchangeable.
ConnectorSymmetry == Permutations(Connectors)
=============================================================================
