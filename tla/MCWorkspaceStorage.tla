------------------------ MODULE MCWorkspaceStorage ------------------------
(* The instance of WorkspaceStorage that TLC checks. *)
EXTENDS WorkspaceStorage
=============================================================================
