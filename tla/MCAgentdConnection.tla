------------------------- MODULE MCAgentdConnection -------------------------
(* Plans for the instances of AgentdConnection that TLC checks. *)
EXTENDS AgentdConnection

OneStart == <<"START">>
CheckedTurn == <<"START", "EXECUTE", "STOP">>
OneTurn == <<"START", "EXECUTE">>
=============================================================================
