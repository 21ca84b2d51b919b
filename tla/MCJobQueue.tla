----------------------------- MODULE MCJobQueue -----------------------------
(* JobQueue for TLC: the jobs, and the agents, are interchangeable. *)
EXTENDS JobQueue, TLC

Symmetry == Permutations(Job) \cup Permutations(Agent)
=============================================================================
