---------------------------- MODULE MCAgentLoop -----------------------------
(* The instance of AgentLoop that TLC checks. *)
EXTENDS AgentLoop

CONSTANTS k1, k2

OneOrTwo == {<<>>, <<k1>>, <<k2, k1>>}
=============================================================================
