----------------------------- MODULE ObjectLife -----------------------------
(***************************************************************************)
(* What the retention subsystem promises about the bytes of a root         *)
(* (docs/GC_DESIGN.md), without caches, windows, files or failures: they   *)
(* are served, or in quarantine, or both, and leave only in two ways.  The *)
(* owner deletes them; or the coordinator passes sentence on the root with *)
(* a verdict of its own, which takes them out of service, and again with a *)
(* later one, which discards them.  A sentence is carried out at once or   *)
(* lapses.  Retention is shown to implement this.                          *)
(***************************************************************************)
CONSTANT Roots

VARIABLES
    served,        \* roots that downloads and challenges find
    quarantined,   \* roots whose bytes are set aside
    wanted,        \* roots their owner has stored and not deleted since
    reclaimable,   \* roots of which the coordinator now says so
    sentence       \* what is about to be done to which root, or NoSentence

vars == <<served, quarantined, wanted, reclaimable, sentence>>

NoSentence == <<>>
Withdraw(r) == <<"withdraw", r>>
Discard(r) == <<"discard", r>>

-----------------------------------------------------------------------------
Init ==
    /\ served \subseteq Roots
    /\ quarantined = {}
    /\ wanted = served
    /\ reclaimable \subseteq Roots
    /\ sentence = NoSentence

\* An upload that overlaps with a delete of its root may not be wanted.
Store(r) ==
    /\ served' = served \cup {r}
    /\ wanted' \in {wanted, wanted \cup {r}}
    /\ UNCHANGED <<quarantined, reclaimable, sentence>>

\* The owner's command, and the removal, which need not come.
Command(r) ==
    /\ wanted' = wanted \ {r}
    /\ UNCHANGED <<served, quarantined, reclaimable, sentence>>

Remove(r) ==
    /\ r \notin wanted
    /\ served' = served \ {r}
    /\ UNCHANGED <<quarantined, wanted, reclaimable, sentence>>

\* The coordinator changes its mind.
Decide ==
    /\ reclaimable' \subseteq Roots
    /\ UNCHANGED <<served, quarantined, wanted, sentence>>

Condemn(r) ==
    /\ sentence = NoSentence
    /\ r \in reclaimable
    /\ sentence' \in {Withdraw(r), Discard(r)}
    /\ UNCHANGED <<served, quarantined, wanted, reclaimable>>

Lapse ==
    /\ sentence' = NoSentence
    /\ UNCHANGED <<served, quarantined, wanted, reclaimable>>

CarryOut(r) ==
    /\ \/ /\ sentence = Withdraw(r)
          /\ r \in served
          /\ served' = served \ {r}
          /\ quarantined' = quarantined \cup {r}
       \/ /\ sentence = Discard(r)
          /\ quarantined' = quarantined \ {r}
          /\ UNCHANGED served
    /\ sentence' = NoSentence
    /\ UNCHANGED <<wanted, reclaimable>>

Restore(r) ==
    /\ r \in quarantined
    /\ quarantined' = quarantined \ {r}
    /\ served' = served \cup {r}
    /\ UNCHANGED <<wanted, reclaimable, sentence>>

Next ==
    \/ \E r \in Roots :
         \/ Store(r) \/ Command(r) \/ Remove(r)
         \/ Condemn(r) \/ CarryOut(r) \/ Restore(r)
    \/ Decide
    \/ Lapse

Spec == Init /\ [][Next]_vars
=============================================================================
