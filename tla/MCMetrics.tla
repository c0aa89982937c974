------------------------------ MODULE MCMetrics ------------------------------
(* Instances of Metrics for TLC.                                           *)
EXTENDS Metrics, TLC

Symmetry == Permutations(Observers) \cup Permutations(Scrapers)
=============================================================================
