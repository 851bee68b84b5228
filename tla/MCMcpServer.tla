----------------------------- MODULE MCMcpServer -----------------------------
(* McpServer on small instances. *)
EXTENDS McpServer, TLC

(* Callers and cursors are only compared for equality. *)
Symmetry == Permutations(Callers) \cup Permutations(Cursors)
=============================================================================
