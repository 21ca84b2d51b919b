---------------------------- MODULE MCAgentFleet ----------------------------
(* AgentFleet for TLC: the jobs, and the agents, are interchangeable. *)
EXTENDS AgentFleet, TLC

Symmetry == Permutations(Job) \cup Permutations(Agent)
=============================================================================
