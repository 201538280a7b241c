--------------------------- MODULE MCSessionFence ---------------------------
(* SessionFence on small sets of rows and clients. *)
EXTENDS SessionFence, TLC

Identities ==
  Permutations(Executions) \cup Permutations(Attempts) \cup
  Permutations(Refs) \cup Permutations(Clients)
=============================================================================
