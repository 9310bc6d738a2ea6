----------------------------- MODULE MCMcpTasks -----------------------------
(* Values of the constants of McpTasks for TLC. *)
EXTENDS McpTasks, TLC

\* Callers are alike, and so are connections.
CallsAlike == Permutations(Callers) \cup Permutations(Assistants)
=============================================================================
