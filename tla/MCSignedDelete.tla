--------------------------- MODULE MCSignedDelete ---------------------------
(* Two commands of one owner that share no nonce, and one of another owner.  *)
EXTENDS SignedDelete

CONSTANTS o1, o2, n1, n2

MCOwners == {o1, o2}
MCNonces == {n1, n2}
MCCommands == {[signer |-> o1, nonce |-> n1, issued |-> 1],
               [signer |-> o1, nonce |-> n2, issued |-> 4],
               [signer |-> o2, nonce |-> n1, issued |-> 3]}
=============================================================================
