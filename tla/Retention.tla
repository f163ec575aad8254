----------------------------- MODULE Retention -----------------------------
(***************************************************************************)
(* The retention subsystem of a running provider (cmd/start.go): the       *)
(* coverage refresher, the sweeper and the request handlers as concurrent  *)
(* goroutines over the files of Store, a coordinator whose verdicts change *)
(* under them, and crashes of the whole process.                           *)
(***************************************************************************)
EXTENDS Refresher, Sweeper, Handlers

vars == <<storeVars, coordVars, refresherVars, sweeperVars, handlerVars>>

Init ==
    /\ StoreInit
    /\ CoordInit
    /\ RefresherInit
    /\ SweeperInit
    /\ HandlersInit

\* The process dies and is started again: the files stay, every goroutine
\* starts over.
Crash ==
    /\ Spend("crash")
    /\ RefresherRestart
    /\ SweeperRestart
    /\ HandlersRestart
    /\ UNCHANGED <<clock, obj, quar, records, coordVars>>

Refresh == RefresherNext /\ UNCHANGED <<sweeperVars, handlerVars>>
Sweep == SweeperNext /\ UNCHANGED <<refresherVars, handlerVars>>
Serve == HandlersNext /\ UNCHANGED <<coordVars, refresherVars, sweeperVars>>
Coordinate == (Switch \/ \E r \in Roots : Flip(r))
                 /\ UNCHANGED <<refresherVars, sweeperVars, handlerVars>>
Pass == Tick /\ UNCHANGED <<coordVars, refresherVars, sweeperVars, handlerVars>>

Next == Refresh \/ Sweep \/ Serve \/ Coordinate \/ Pass \/ Crash

Spec == Init /\ [][Next]_vars

\* The recheck of entry r is answered, with "keep" ...
AnsweredKeep(r) ==
    /\ RecheckEntry(r)
    /\ swPc' = "restore"
    /\ UNCHANGED <<refresherVars, handlerVars>>

\* ... and the rename that brings it back works.
Restored(r) ==
    /\ swRoot = r
    /\ RestoreFromQuarantine
    /\ swPc' = "restored"
    /\ UNCHANGED <<refresherVars, handlerVars>>

\* The ticker of Sweeper.Start never stops starting cycles; a coordinator that is
\* asked about a root again and again, and a rename that is tried again and again,
\* do not fail every time.
Fairness ==
    /\ WF_vars(Sweep)
    /\ \A r \in Roots : SF_vars(AnsweredKeep(r)) /\ SF_vars(Restored(r))

FairSpec == Spec /\ Fairness

-----------------------------------------------------------------------------
\* The type invariant: in particular every goroutine that is past its listing
\* has the root it works on in hand.
TypeOK ==
    /\ StoreTypeOK
    /\ CoordTypeOK
    /\ RefresherTypeOK
    /\ SweeperTypeOK
    /\ HandlersTypeOK

\* The bytes of a root whose owner has not deleted it stay where downloads and
\* challenges find them, unless the coordinator itself has answered a live
\* recheck with "reclaimable": neither a stale cache, an old coordinator's
\* billing answer, a lost reply nor a crash takes them away.
HeldUnlessCondemned == \A r \in held \ condemned : obj[r] # Absent

\* The step that takes the object out of service, and the one that removes it
\* for good.
Moves(r) == swPc = "move" /\ swPc' = "moved" /\ swRoot = r
Unlinks(r) == swPc = "unlink" /\ swPc' = "unlinked" /\ swRoot = r

\* An object goes to quarantine only when the refresher's first "reclaimable"
\* answer for it is a whole retention window old.
RetentionWindowKept ==
    [][\A r \in Roots : Moves(r) =>
         /\ firstAnswer[r] # Absent
         /\ swNow - firstAnswer[r] >= RetentionWindow]_vars

\* Unlinking a quarantined object whose timer was started takes a whole
\* quarantine window from the cycle that moved it.
QuarantineWindowKept ==
    [][\A r \in anchored : Unlinks(r) =>
         swNow - movedAt[r] >= QuarantineWindow]_vars

\* A quarantined root that the coordinator says to keep does not stay in
\* quarantine (design: mid-window pay).
KeptIsRestored ==
    \A r \in Roots :
        (quar[r] # Absent /\ sends /\ ~ mayReclaim[r])
            ~> (quar[r] = Absent \/ mayReclaim[r] \/ ~ sends)

\* The object life that the files, the sweeper and the coordinator amount to.
Life == INSTANCE ObjectLife WITH
    served      <- {r \in Roots : obj[r] # Absent},
    quarantined <- {r \in Roots : quar[r] # Absent},
    wanted      <- held,
    reclaimable <- {r \in Roots : sends /\ mayReclaim[r]},
    sentence    <- IF swPc = "move" THEN <<"withdraw", swRoot>>
                   ELSE IF swPc = "unlink" THEN <<"discard", swRoot>> ELSE <<>>

\* The subsystem implements ObjectLife: bytes that the owner has not deleted go out
\* of service, and bytes in quarantine are discarded, only in a step that follows
\* the coordinator's own verdict on that root in the same cycle; they go nowhere
\* else, whatever uploads, deletes and restores come between.
ImplementsObjectLife == Life!Spec

-----------------------------------------------------------------------------
\* gc/quarantine.go:131-137: a move whose Chtimes never happens makes the
\* object eligible only "slightly sooner".
WindowFromMove ==
    [][\A r \in Roots : Unlinks(r) =>
         swNow - movedAt[r] >= QuarantineWindow]_vars

\* store/store.go:309-310: recording a "keep" answer restarts the countdown, so
\* no marker is older than the last one recorded.
CountdownReset ==
    \A r \in Roots : cov[r] # NoCoverage =>
        (cov[r].reclaimable => cov[r].firstSeen >= kept[r])

\* store/stream.go:98-103: there is never an object without an index.
ObjectIndexed == \A r \in Roots : obj[r] # Absent => r \in idx

\* api/delete.go:76-80: a signed delete removes the object physically.
DeletedStaysDeleted == \A r \in erased : obj[r] = Absent
=============================================================================
