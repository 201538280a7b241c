------------------------ MODULE MCSessionDurability ------------------------
(* The instance of SessionDurability that TLC checks. *)
EXTENDS SessionDurability
=============================================================================
