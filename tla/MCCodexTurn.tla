----------------------------- MODULE MCCodexTurn -----------------------------
(* CodexTurn with a message, a tool call and a few frames. *)
EXTENDS CodexTurn
=============================================================================
