-------------------------- MODULE MCMetricBarrier ---------------------------
(* Symmetry for the runs of MetricBarrier that check no liveness property. *)
EXTENDS MetricBarrier, TLC

Symmetry == Permutations(Clients)
=============================================================================
