------------------------------- MODULE MCNode -------------------------------
(* Two processes: enough to race each other, and for a setup that is followed *)
(* by a start, in one data directory or in two, while the coordinator changes *)
(* its key once.                                                              *)
EXTENDS Node
=============================================================================
