------------------------------ MODULE MCPause ------------------------------
(* Two cold keys, three sequence numbers and a clock of three ticks.         *)
EXTENDS Pause, TLC

Symmetry == Permutations(Keys)
=============================================================================
