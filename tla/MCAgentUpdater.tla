--------------------------- MODULE MCAgentUpdater ---------------------------
(* Small instances of AgentUpdater for TLC. *)
EXTENDS AgentUpdater, TLC

Symmetric == Permutations(Procs)
=============================================================================
