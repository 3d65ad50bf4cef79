----------------------------- MODULE MCAgentLoop -----------------------------
(* Bounds for checking AgentLoop.                                            *)
EXTENDS AgentLoop, TLC

Symmetry == Permutations(CallIds)
=============================================================================
