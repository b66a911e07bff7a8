---------------------------- MODULE MCAgentRuns ----------------------------
(* Small instances of AgentRuns, whose actions are interchangeable.         *)
EXTENDS AgentRuns, TLC

CONSTANTS r1, r2, a1, a2

Symmetry == Permutations(Actions)
=============================================================================
