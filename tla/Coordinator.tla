---------------------------- MODULE Coordinator ----------------------------
(***************************************************************************)
(* The coordinator as coverage/client.go sees it.  It is not part of the   *)
(* repository: `mayReclaim' is its retention verdict for each root and     *)
(* `sends' says whether its version puts the verdict in a reply.  A        *)
(* version that does not still sends the billing answer `contracted', of   *)
(* which nothing is assumed.                                               *)
(***************************************************************************)
EXTENDS Store

VARIABLES mayReclaim, sends

coordVars == <<mayReclaim, sends>>

CoordInit ==
    /\ mayReclaim \in [Roots -> BOOLEAN]
    /\ sends \in BOOLEAN

CoordTypeOK ==
    /\ mayReclaim \in [Roots -> BOOLEAN]
    /\ sends \in BOOLEAN

\* An account starts or stops paying, or its promotion ends.
Flip(r) ==
    /\ Spend("flip")
    /\ mayReclaim' = [mayReclaim EXCEPT ![r] = ~ @]
    /\ UNCHANGED <<sends, clock, obj, quar, records>>

\* The coordinator is upgraded or rolled back.
Switch ==
    /\ Spend("switch")
    /\ sends' = ~ sends
    /\ UNCHANGED <<mayReclaim, clock, obj, quar, records>>

\* Whether QueryRoots comes back with an answer, after its retries.
Reachable == IF "coord" \in Faults THEN BOOLEAN ELSE {TRUE}

CoordSentReclaimable == sends

MayReclaim(r, contracted) ==
    IF CoordSentReclaimable THEN mayReclaim[r] ELSE ~ contracted
=============================================================================
