--------------------------- MODULE MCAgentTasks ---------------------------
(***************************************************************************)
(* Instance of AgentTasks for TLC.                                         *)
(***************************************************************************)
EXTENDS AgentTasks

CONSTANTS r1, r2, d1
=============================================================================
