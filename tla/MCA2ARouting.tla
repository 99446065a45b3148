----------------------------- MODULE MCA2ARouting -----------------------------
(* No agent differs from another.                                          *)
EXTENDS A2ARouting, TLC

SameAgents == Permutations(Agents)
===============================================================================
