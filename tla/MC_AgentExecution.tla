------------------------- MODULE MC_AgentExecution -------------------------
(***************************************************************************)
(* Instances of AgentExecution for TLC.                                    *)
(***************************************************************************)
EXTENDS AgentExecution
=============================================================================
