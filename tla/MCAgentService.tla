--------------------------- MODULE MCAgentService ---------------------------
(* TLC instances of AgentService.                                           *)
EXTENDS AgentService, TLC

\* Calls of run() are interchangeable in the safety runs.
Symmetry == Permutations(Runs)

=============================================================================
