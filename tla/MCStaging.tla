----------------------------- MODULE MCStaging -----------------------------
(* Two requests at a time, three in all, of clients that cut the object in   *)
(* two; one crash.                                                           *)
EXTENDS Staging
=============================================================================
