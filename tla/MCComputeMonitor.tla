-------------------------- MODULE MCComputeMonitor --------------------------
(* ComputeMonitor on small sets of Attempts and workers. *)
EXTENDS ComputeMonitor, TLC

Identities == Permutations(Attempts) \cup Permutations(Workers)
=============================================================================
