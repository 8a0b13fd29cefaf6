-------------------------- MODULE MC_StageAgentRun --------------------------
(* Small instances of StageAgentRun for TLC. *)
EXTENDS StageAgentRun
=============================================================================
