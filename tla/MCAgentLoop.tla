---------------------------- MODULE MCAgentLoop -----------------------------
(* The control addresses of AgentLoop are interchangeable: only tests for  *)
(* equality tell them apart.                                               *)
EXTENDS AgentLoop, TLC

Symmetry == Permutations(Addr)

=============================================================================
