-------------------------- MODULE MCPausedProvider --------------------------
(* One root, one cold key, one pause signal; nothing else happens.           *)
EXTENDS PausedProvider

QuietBudget == [e \in Events |-> 0]
=============================================================================
