----------------------------- MODULE MCServing -----------------------------
(* An object of three chunks, the last one partial, and one that ends at a   *)
(* chunk boundary.  What is sent is the one or the other, for either root, or *)
(* nothing.                                                                  *)
EXTENDS Serving

Whole == <<1, 2, 1, 2, 1>>
Even == SubSeq(Whole, 1, 4)

MCRoots == {"r", "s"}
MCOriginal == [r \in MCRoots |-> IF r = "r" THEN Whole ELSE Even]
MCBodies == {Whole, Even, <<>>}
=============================================================================
