-------------------------- MODULE MCFederatedRound --------------------------
(* Symmetry for the runs of FederatedRound that check no liveness property. *)
EXTENDS FederatedRoundLoop

Symmetry == Permutations(Clients)
=============================================================================
