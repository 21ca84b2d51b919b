------------------------- MODULE MCAgentSupervisor -------------------------
(* AgentSupervisor for TLC.  The slots are interchangeable, but liveness   *)
(* is checked in the same run, so no symmetry is declared.                 *)
EXTENDS AgentSupervisor
=============================================================================
