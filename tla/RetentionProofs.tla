-------------------------- MODULE RetentionProofs --------------------------
(***************************************************************************)
(* Proofs about Retention, for any set of roots, any windows, any budget   *)
(* and any subset of the faults: its types; its safety properties, each    *)
(* from an inductive invariant that carries what the sweeper learnt at one *)
(* step to the step that acts on it; and its refinement of ObjectLife:     *)
(* every step of the provider is a step of an object's life, or none.      *)
(***************************************************************************)
EXTENDS Retention, TLAPS

\* A root's record written by UpdateCoverage has its fields in range.
LEMMA NextCoverageType ==
    ASSUME NEW prior \in Stamp, NEW reclaimable \in BOOLEAN, NEW now \in Time
    PROVE  /\ NextCoverage(prior, reclaimable, now) \in Coverage
           /\ NextCoverage(prior, reclaimable, now).reclaimable = reclaimable
  BY DEF NextCoverage, Coverage, Stamp

\* The marker of a record is a time or absent.
LEMMA PriorFirstSeenType ==
    ASSUME StoreTypeOK, NEW r \in Roots
    PROVE  PriorFirstSeen(r) \in Stamp
  BY DEF StoreTypeOK, PriorFirstSeen, Coverage, Stamp

\* Spending an event leaves a budget.
LEMMA SpendType ==
    ASSUME left \in [Events -> Nat], NEW e \in Events, Spend(e)
    PROVE  left' \in [Events -> Nat]
<1>1. left[e] \in Nat /\ left[e] > 0
  BY DEF Spend
<1>2. left[e] - 1 \in Nat
  BY <1>1
<1>3. QED
  BY <1>2 DEF Spend

\* The initial states are well typed.
LEMMA InitTypeOK == Init => TypeOK
<1> SUFFICES ASSUME Init PROVE TypeOK
  OBVIOUS
<1> USE StoreAssumption DEF Init, Time, Stamp
<1>1. StoreTypeOK
  BY DEF StoreInit, StoreTypeOK
<1>2. CoordTypeOK
  BY DEF CoordInit, CoordTypeOK
<1>3. RefresherTypeOK
  BY DEF RefresherInit, RefresherTypeOK, NoAnswers, Answers
<1>4. SweeperTypeOK
  BY DEF SweeperInit, SweeperTypeOK, NoEntries, InHand
<1>5. HandlersTypeOK
  BY DEF HandlersInit, HandlersTypeOK, List
<1>6. QED
  BY <1>1, <1>2, <1>3, <1>4, <1>5 DEF TypeOK

-----------------------------------------------------------------------------
\* A step of the refresher (UpdateCoverage included) keeps the types.
LEMMA RefreshTypeOK == TypeOK /\ Refresh => TypeOK'
<1> SUFFICES ASSUME TypeOK, Refresh PROVE TypeOK'
  OBVIOUS
<1> USE StoreAssumption
    DEF TypeOK, StoreTypeOK, CoordTypeOK, RefresherTypeOK, storeVars, records,
        coordVars
<1>0. SweeperTypeOK' /\ HandlersTypeOK'
  BY DEF Refresh, sweeperVars, sweepHistory, handlerVars, uploadVars, deleteVars,
         SweeperTypeOK, HandlersTypeOK
<1>1. CASE RefreshBegin
  BY <1>0, <1>1 DEF RefreshBegin, List
<1>2. CASE RefreshQuery
  <2>1. StoreTypeOK' /\ CoordTypeOK'
    BY <1>2 DEF RefreshQuery
  <2>2. rfRoots' \subseteq Roots
    BY <1>2 DEF RefreshQuery
  <2>3. /\ rfAnswers' \in [Roots -> Answers]
        /\ firstAnswer' \in [Roots -> Stamp]
    BY <1>2 DEF RefreshQuery, Stamp
  <2>4. rfPc' = "apply" /\ rfNow' \in Time /\ UNCHANGED <<rfRoot, rfNext>>
    BY <1>2 DEF RefreshQuery
  <2>5. QED
    BY <1>0, <2>1, <2>2, <2>3, <2>4
<1>3. CASE RefreshQueryFails
  BY <1>0, <1>3 DEF RefreshQueryFails
<1>4. ASSUME NEW r \in Roots, RefreshRead(r) PROVE TypeOK'
  <2>1. rfNext' \in Coverage
    BY <1>4, NextCoverageType, PriorFirstSeenType DEF RefreshRead
  <2>2. QED
    BY <1>0, <1>4, <2>1 DEF RefreshRead, Answers
<1>5. CASE RefreshWrite
  <2>1. cov' \in [Roots -> Coverage \cup {NoCoverage}] /\ kept' \in [Roots -> Stamp]
    BY <1>5 DEF RefreshWrite, WriteCoverage, Stamp
  <2>2. QED
    BY <1>0, <1>5, <2>1 DEF RefreshWrite
<1>6. CASE RefreshWriteFails
  BY <1>0, <1>6 DEF RefreshWriteFails
<1>7. CASE RefreshNextBatch
  BY <1>0, <1>7 DEF RefreshNextBatch, Time
<1>8. QED
  BY <1>1, <1>2, <1>3, <1>4, <1>5, <1>6, <1>7 DEF Refresh, RefresherNext

\* A step of the sweeper keeps the types.
LEMMA SweepTypeOK == TypeOK /\ Sweep => TypeOK'
<1> SUFFICES ASSUME TypeOK, Sweep PROVE TypeOK'
  OBVIOUS
<1> USE StoreAssumption
    DEF TypeOK, StoreTypeOK, CoordTypeOK, SweeperTypeOK, storeVars, records,
        coordVars, sweepHistory, InHand
<1>0. RefresherTypeOK' /\ HandlersTypeOK'
  BY DEF Sweep, refresherVars, handlerVars, uploadVars, deleteVars,
         RefresherTypeOK, HandlersTypeOK
<1>1. CASE SweepBegin
  BY <1>0, <1>1 DEF SweepBegin
<1>2. ASSUME NEW r \in Roots, RecheckEntry(r) PROVE TypeOK'
  BY <1>0, <1>2 DEF RecheckEntry, RecordVerdict, Stamp
<1>3. CASE RestoreFromQuarantine
  BY <1>0, <1>3 DEF RestoreFromQuarantine, EndEntry, Stamp
<1>4. CASE RestoreCoverage
  <2>1. NextCoverage(Absent, FALSE, swNow) \in Coverage
    BY NextCoverageType DEF Stamp
  <2>2. cov' \in [Roots -> Coverage \cup {NoCoverage}] /\ kept' \in [Roots -> Stamp]
    <3>1. CASE WriteCoverage(swRoot, NextCoverage(Absent, FALSE, swNow), swNow)
      BY <2>1, <3>1, <1>4 DEF RestoreCoverage, WriteCoverage, Stamp
    <3>2. CASE UNCHANGED <<cov, kept>>
      BY <3>2
    <3>3. QED
      BY <1>4, <3>1, <3>2 DEF RestoreCoverage
  <2>3. QED
    BY <1>0, <1>4, <2>2 DEF RestoreCoverage, EndEntry
<1>5. CASE UnlinkFromQuarantine
  BY <1>0, <1>5 DEF UnlinkFromQuarantine, EndEntry, Stamp
<1>6. CASE DeleteIndex
  BY <1>0, <1>6 DEF DeleteIndex, Remaining
<1>7. CASE DeleteOwnership
  BY <1>0, <1>7 DEF DeleteOwnership, Remaining
<1>8. CASE DeleteCoverage
  BY <1>0, <1>8 DEF DeleteCoverage, EndEntry
<1>9. CASE ListObjects
  BY <1>0, <1>9 DEF ListObjects, List
<1>10. ASSUME NEW r \in Roots, ReadCoverage(r) PROVE TypeOK'
  <2>1. swFirst' \in Stamp
    BY <1>10 DEF ReadCoverage, Coverage, Stamp
  <2>2. QED
    BY <1>0, <1>10, <2>1 DEF ReadCoverage
<1>11. CASE CheckRetention
  BY <1>0, <1>11 DEF CheckRetention, EndEntry, Stamp
<1>12. CASE RecheckObject
  BY <1>0, <1>12 DEF RecheckObject, RecordVerdict, EndEntry
<1>13. CASE MoveToQuarantine
  BY <1>0, <1>13 DEF MoveToQuarantine, EndEntry, Stamp
<1>14. CASE AnchorQuarantine
  BY <1>0, <1>14 DEF AnchorQuarantine, EndEntry, Stamp
<1>15. CASE SweepEnd
  BY <1>0, <1>15 DEF SweepEnd, Time
<1>16. QED
  BY <1>1, <1>2, <1>3, <1>4, <1>5, <1>6, <1>7, <1>8, <1>9, <1>10, <1>11,
     <1>12, <1>13, <1>14, <1>15 DEF Sweep, SweeperNext

\* A step of a request handler keeps the types.
LEMMA ServeTypeOK == TypeOK /\ Serve => TypeOK'
<1> SUFFICES ASSUME TypeOK, Serve PROVE TypeOK'
  OBVIOUS
<1> USE StoreAssumption
    DEF TypeOK, StoreTypeOK, HandlersTypeOK, storeVars, records, uploadVars,
        deleteVars, handlerVars
<1>0. CoordTypeOK' /\ RefresherTypeOK' /\ SweeperTypeOK'
  BY DEF Serve, coordVars, refresherVars, sweeperVars, sweepHistory,
         CoordTypeOK, RefresherTypeOK, SweeperTypeOK
<1>1. ASSUME NEW r \in Roots, PutStream(r) PROVE TypeOK'
  <2>1. left' \in [Events -> Nat]
    BY <1>1, SpendType DEF PutStream, Events
  <2>2. QED
    BY <1>0, <1>1, <2>1 DEF PutStream
<1>2. CASE PutIndex
  BY <1>0, <1>2 DEF PutIndex
<1>3. CASE CommitObject
  BY <1>0, <1>3 DEF CommitObject, Stamp
<1>4. CASE PutOwnership
  BY <1>0, <1>4 DEF PutOwnership, Time
<1>5. CASE UploadFails
  BY <1>0, <1>5 DEF UploadFails, Time
<1>6. ASSUME NEW r \in Roots, DeleteSigned(r) PROVE TypeOK'
  <2>1. left' \in [Events -> Nat]
    BY <1>6, SpendType DEF DeleteSigned, Events
  <2>2. QED
    BY <1>0, <1>6, <2>1 DEF DeleteSigned
<1>7. CASE DeleteObjectFile
  BY <1>0, <1>7 DEF DeleteObjectFile, Stamp
<1>8. CASE DeleteIndexFile
  BY <1>0, <1>8 DEF DeleteIndexFile, Remaining
<1>9. CASE DeleteOwnershipFile
  BY <1>0, <1>9 DEF DeleteOwnershipFile, Remaining
<1>10. CASE DeleteCoverageFile
  BY <1>0, <1>10 DEF DeleteCoverageFile
<1>11. ASSUME NEW r \in Roots, OperatorRestore(r) PROVE TypeOK'
  <2>1. left' \in [Events -> Nat]
    BY <1>11, SpendType DEF OperatorRestore, Events
  <2>2. QED
    BY <1>0, <1>11, <2>1 DEF OperatorRestore, Stamp
<1>12. QED
  BY <1>1, <1>2, <1>3, <1>4, <1>5, <1>6, <1>7, <1>8, <1>9, <1>10, <1>11
     DEF Serve, HandlersNext

\* A verdict that changes, a tick and a crash keep the types.
LEMMA EnvironmentTypeOK ==
    TypeOK /\ (Coordinate \/ Pass \/ Crash \/ UNCHANGED vars) => TypeOK'
<1> SUFFICES ASSUME TypeOK, Coordinate \/ Pass \/ Crash \/ UNCHANGED vars
             PROVE TypeOK'
  OBVIOUS
<1> USE StoreAssumption
    DEF TypeOK, StoreTypeOK, CoordTypeOK, storeVars, records, coordVars
<1>1. CASE Coordinate
  <2>1. RefresherTypeOK' /\ SweeperTypeOK' /\ HandlersTypeOK'
    BY <1>1 DEF Coordinate, RefresherTypeOK, SweeperTypeOK, HandlersTypeOK,
                refresherVars, sweeperVars, sweepHistory, handlerVars, uploadVars,
                deleteVars
  <2>2. StoreTypeOK' /\ CoordTypeOK'
    <3>1. left' \in [Events -> Nat]
      BY <1>1, SpendType DEF Coordinate, Switch, Flip, Events
    <3>2. QED
      BY <1>1, <3>1 DEF Coordinate, Switch, Flip
  <2>3. QED
    BY <2>1, <2>2
<1>2. CASE Pass
  <2>1. CoordTypeOK' /\ RefresherTypeOK' /\ SweeperTypeOK' /\ HandlersTypeOK'
    BY <1>2 DEF Pass, RefresherTypeOK, SweeperTypeOK, HandlersTypeOK,
                refresherVars, sweeperVars, sweepHistory, handlerVars, uploadVars,
                deleteVars
  <2>2. StoreTypeOK'
    BY <1>2 DEF Pass, Tick, Time
  <2>3. QED
    BY <2>1, <2>2
<1>3. CASE Crash
  <2>1. StoreTypeOK' /\ CoordTypeOK'
    <3>1. left' \in [Events -> Nat]
      BY <1>3, SpendType DEF Crash, Events
    <3>2. QED
      BY <1>3, <3>1 DEF Crash
  <2>2. RefresherTypeOK'
    BY <1>3 DEF Crash, RefresherRestart, RefresherTypeOK, NoAnswers, Answers, Time
  <2>3. SweeperTypeOK'
    BY <1>3 DEF Crash, SweeperRestart, SweeperTypeOK, NoEntries, InHand,
                sweepHistory, Time, Stamp
  <2>4. HandlersTypeOK'
    BY <1>3 DEF Crash, HandlersRestart, HandlersTypeOK, Time
  <2>5. QED
    BY <2>1, <2>2, <2>3, <2>4
<1>4. CASE UNCHANGED vars
  BY <1>4 DEF vars, RefresherTypeOK, SweeperTypeOK, HandlersTypeOK,
              refresherVars, sweeperVars, sweepHistory, handlerVars, uploadVars,
              deleteVars
<1>5. QED
  BY <1>1, <1>2, <1>3, <1>4

\* Every file, program counter and history variable of the retention subsystem
\* (store.go, refresher.go, sweeper.go and the handlers) keeps its type, for
\* any number of roots and any budget of faults.
THEOREM RetentionTypeCorrect == Spec => []TypeOK
<1>1. TypeOK /\ [Next]_vars => TypeOK'
  BY RefreshTypeOK, SweepTypeOK, ServeTypeOK, EnvironmentTypeOK DEF Next
<1>2. QED
  BY InitTypeOK, <1>1, PTL DEF Spec

-----------------------------------------------------------------------------
\* What keeps a root's bytes in objects/: the sweeper is about to move only a
\* condemned root, and the delete in flight is of a root no longer held.
HeldInv ==
    /\ HeldUnlessCondemned
    /\ swPc = "move" => swRoot \in condemned
    /\ delRoot \notin held

\* A recheck answers "reclaim" only when the coordinator gave its own verdict.
LEMMA RecheckAuthoritative ==
    ASSUME NEW r \in Roots, "reclaim" \in Rechecks(r)
    PROVE  sends /\ mayReclaim[r]
  BY DEF Rechecks, Recheck, MayReclaim, CoordSentReclaimable

\* A step of the sweeper keeps HeldInv: it moves only what it has condemned.
LEMMA HeldSweep == TypeOK /\ HeldInv /\ Sweep => HeldInv'
<1> SUFFICES ASSUME TypeOK, HeldInv, Sweep PROVE HeldInv'
  OBVIOUS
<1> USE DEF HeldInv, HeldUnlessCondemned, storeVars, records, coordVars, sweepHistory
<1>0. UNCHANGED <<held, delRoot>>
  BY DEF Sweep, handlerVars, deleteVars
<1>1. CASE SweepBegin
  BY <1>0, <1>1 DEF SweepBegin
<1>2. ASSUME NEW r \in Roots, RecheckEntry(r) PROVE HeldInv'
  BY <1>0, <1>2 DEF RecheckEntry, RecordVerdict
<1>3. CASE RestoreFromQuarantine
  BY <1>0, <1>3 DEF RestoreFromQuarantine, EndEntry, TypeOK, StoreTypeOK, HandlersTypeOK
<1>4. CASE RestoreCoverage
  BY <1>0, <1>4 DEF RestoreCoverage, EndEntry
<1>5. CASE UnlinkFromQuarantine
  BY <1>0, <1>5 DEF UnlinkFromQuarantine, EndEntry
<1>6. CASE DeleteIndex
  BY <1>0, <1>6 DEF DeleteIndex
<1>7. CASE DeleteOwnership
  BY <1>0, <1>7 DEF DeleteOwnership
<1>8. CASE DeleteCoverage
  BY <1>0, <1>8 DEF DeleteCoverage, EndEntry
<1>9. CASE ListObjects
  BY <1>0, <1>9 DEF ListObjects
<1>10. ASSUME NEW r \in Roots, ReadCoverage(r) PROVE HeldInv'
  BY <1>0, <1>10 DEF ReadCoverage
<1>11. CASE CheckRetention
  BY <1>0, <1>11 DEF CheckRetention, EndEntry
<1>12. CASE RecheckObject
  <2>1. swRoot \in Roots
    BY <1>12 DEF RecheckObject, TypeOK, SweeperTypeOK, InHand
  <2>2. swPc' = "move" => swRoot' \in condemned'
    BY <1>12, <2>1, RecheckAuthoritative DEF RecheckObject, RecordVerdict, EndEntry
  <2>3. condemned \subseteq condemned' /\ UNCHANGED obj
    BY <1>12 DEF RecheckObject, RecordVerdict
  <2>4. QED
    BY <1>0, <2>2, <2>3
<1>13. CASE MoveToQuarantine
  BY <1>0, <1>13 DEF MoveToQuarantine, EndEntry, TypeOK, StoreTypeOK, HandlersTypeOK
<1>14. CASE AnchorQuarantine
  BY <1>0, <1>14 DEF AnchorQuarantine, EndEntry
<1>15. CASE SweepEnd
  BY <1>0, <1>15 DEF SweepEnd
<1>16. QED
  BY <1>1, <1>2, <1>3, <1>4, <1>5, <1>6, <1>7, <1>8, <1>9, <1>10, <1>11,
     <1>12, <1>13, <1>14, <1>15 DEF Sweep, SweeperNext

\* A request keeps HeldInv: a root leaves `held' before its file goes.
LEMMA HeldServe == TypeOK /\ HeldInv /\ Serve => HeldInv'
<1> SUFFICES ASSUME TypeOK, HeldInv, Serve PROVE HeldInv'
  OBVIOUS
<1> USE StoreAssumption
    DEF HeldInv, HeldUnlessCondemned, storeVars, records, uploadVars, deleteVars,
        handlerVars, TypeOK, StoreTypeOK, HandlersTypeOK
<1>0. UNCHANGED <<swPc, swRoot, condemned>>
  BY DEF Serve, sweeperVars, sweepHistory
<1>1. ASSUME NEW r \in Roots, PutStream(r) PROVE HeldInv'
  BY <1>0, <1>1 DEF PutStream
<1>2. CASE PutIndex
  BY <1>0, <1>2 DEF PutIndex
<1>3. CASE CommitObject
  <2>1. upRoot \in Roots /\ upMtime # Absent
    BY <1>3 DEF CommitObject, Time, Absent
  <2>2. QED
    BY <1>0, <1>3, <2>1 DEF CommitObject
<1>4. CASE PutOwnership
  BY <1>0, <1>4 DEF PutOwnership
<1>5. CASE UploadFails
  BY <1>0, <1>5 DEF UploadFails
<1>6. ASSUME NEW r \in Roots, DeleteSigned(r) PROVE HeldInv'
  BY <1>0, <1>6 DEF DeleteSigned
<1>7. CASE DeleteObjectFile
  BY <1>0, <1>7 DEF DeleteObjectFile
<1>8. CASE DeleteIndexFile
  BY <1>0, <1>8 DEF DeleteIndexFile
<1>9. CASE DeleteOwnershipFile
  BY <1>0, <1>9 DEF DeleteOwnershipFile
<1>10. CASE DeleteCoverageFile
  BY <1>0, <1>10 DEF DeleteCoverageFile
<1>11. ASSUME NEW r \in Roots, OperatorRestore(r) PROVE HeldInv'
  BY <1>0, <1>11 DEF OperatorRestore
<1>12. QED
  BY <1>1, <1>2, <1>3, <1>4, <1>5, <1>6, <1>7, <1>8, <1>9, <1>10, <1>11
     DEF Serve, HandlersNext

\* So does every step of the provider.
LEMMA HeldStep == TypeOK /\ HeldInv /\ [Next]_vars => HeldInv'
<1> SUFFICES ASSUME TypeOK, HeldInv, [Next]_vars PROVE HeldInv'
  OBVIOUS
<1> USE DEF HeldInv, HeldUnlessCondemned, sweeperVars, sweepHistory, handlerVars,
            deleteVars, storeVars
<1>1. CASE Refresh
  <2>1. UNCHANGED obj
    BY <1>1 DEF Refresh, RefresherNext, RefreshBegin, RefreshQuery, RefreshQueryFails,
                RefreshRead, RefreshWrite, RefreshWriteFails, RefreshNextBatch
  <2>2. QED
    BY <1>1, <2>1 DEF Refresh
<1>2. CASE Coordinate
  BY <1>2 DEF Coordinate, Switch, Flip
<1>3. CASE Pass
  BY <1>3 DEF Pass, Tick
<1>4. CASE Crash
  BY <1>4, StoreAssumption
     DEF Crash, SweeperRestart, HandlersRestart, TypeOK, HandlersTypeOK
<1>5. CASE UNCHANGED vars
  BY <1>5 DEF vars
<1>6. QED
  BY <1>1, <1>2, <1>3, <1>4, <1>5, HeldSweep, HeldServe DEF Next

\* The bytes of a root that its owner has not deleted leave objects/ only after
\* the coordinator itself has answered one of the sweeper's rechecks with
\* "reclaimable", for every interleaving of the refresher, the sweeper, the
\* handlers, the operator and crashes.
THEOREM HeldObjectsStay == Spec => []HeldUnlessCondemned
<1>1. Init => HeldInv
  BY StoreAssumption
     DEF Init, HeldInv, HeldUnlessCondemned, SweeperInit, HandlersInit, List
<1>2. HeldInv => HeldUnlessCondemned
  BY DEF HeldInv
<1>3. QED
  BY <1>1, <1>2, HeldStep, RetentionTypeCorrect, PTL DEF Spec

-----------------------------------------------------------------------------
\* What keeps the quarantine window: an anchored entry's mtime is the time of
\* the cycle that moved it, the listing of phase 1 agrees with the files that
\* are still there, and what the sweeper is about to unlink is old enough.
InPhase1 == {"phase1", "restore", "restored", "unlink", "unlinked", "unindexed",
             "disowned"}

WindowInv ==
    /\ \A r \in anchored : quar[r] # Absent => quar[r] = movedAt[r]
    /\ \A r \in Roots : swEntries[r] # Absent /\ quar[r] # Absent
                          => swEntries[r] = quar[r]
    /\ swPc \notin InPhase1 => swEntries = NoEntries
    /\ swPc = "unlink" /\ quar[swRoot] # Absent
          => swNow - quar[swRoot] >= QuarantineWindow
    /\ swPc = "moved" => movedAt[swRoot] = swNow

\* A step of the sweeper keeps the quarantine timer where Chtimes set it.
LEMMA WindowSweep == TypeOK /\ WindowInv /\ Sweep => WindowInv'
<1> SUFFICES ASSUME TypeOK, WindowInv, Sweep PROVE WindowInv'
  OBVIOUS
<1> USE DEF WindowInv, storeVars, records, sweepHistory, InPhase1, TypeOK,
            StoreTypeOK, SweeperTypeOK, InHand, NoEntries
<1>1. CASE SweepBegin
  BY <1>1 DEF SweepBegin
<1>2. ASSUME NEW r \in Roots, RecheckEntry(r) PROVE WindowInv'
  BY <1>2 DEF RecheckEntry, RecordVerdict, WindowElapsed
<1>3. CASE RestoreFromQuarantine
  BY <1>3 DEF RestoreFromQuarantine, EndEntry
<1>4. CASE RestoreCoverage
  BY <1>4 DEF RestoreCoverage, EndEntry
<1>5. CASE UnlinkFromQuarantine
  BY <1>5 DEF UnlinkFromQuarantine, EndEntry
<1>6. CASE DeleteIndex
  BY <1>6 DEF DeleteIndex
<1>7. CASE DeleteOwnership
  BY <1>7 DEF DeleteOwnership
<1>8. CASE DeleteCoverage
  BY <1>8 DEF DeleteCoverage, EndEntry
<1>9. CASE ListObjects
  BY <1>9 DEF ListObjects
<1>10. ASSUME NEW r \in Roots, ReadCoverage(r) PROVE WindowInv'
  BY <1>10 DEF ReadCoverage
<1>11. CASE CheckRetention
  BY <1>11 DEF CheckRetention, EndEntry
<1>12. CASE RecheckObject
  BY <1>12 DEF RecheckObject, RecordVerdict, EndEntry
<1>13. CASE MoveToQuarantine
  BY <1>13 DEF MoveToQuarantine, EndEntry
<1>14. CASE AnchorQuarantine
  BY <1>14 DEF AnchorQuarantine, EndEntry
<1>15. CASE SweepEnd
  BY <1>15 DEF SweepEnd
<1>16. QED
  BY <1>1, <1>2, <1>3, <1>4, <1>5, <1>6, <1>7, <1>8, <1>9, <1>10, <1>11,
     <1>12, <1>13, <1>14, <1>15 DEF Sweep, SweeperNext

\* So does every step of the provider.
LEMMA WindowStep == TypeOK /\ WindowInv /\ [Next]_vars => WindowInv'
<1> SUFFICES ASSUME TypeOK, WindowInv, [Next]_vars PROVE WindowInv'
  OBVIOUS
<1> USE DEF WindowInv, storeVars, sweeperVars, sweepHistory, InPhase1
<1>1. CASE Refresh
  <2>1. UNCHANGED quar
    BY <1>1 DEF Refresh, RefresherNext, RefreshBegin, RefreshQuery, RefreshQueryFails,
                RefreshRead, RefreshWrite, RefreshWriteFails, RefreshNextBatch
  <2>2. QED
    BY <1>1, <2>1 DEF Refresh
<1>2. CASE Serve
  <2>1. CASE UNCHANGED quar
    BY <1>2, <2>1 DEF Serve
  <2>2. ASSUME NEW r \in Roots, OperatorRestore(r) PROVE WindowInv'
    BY <1>2, <2>2 DEF Serve, OperatorRestore, TypeOK, StoreTypeOK, SweeperTypeOK, InHand
  <2>3. QED
    BY <1>2, <2>1, <2>2
       DEF Serve, HandlersNext, PutStream, PutIndex, CommitObject, PutOwnership,
           UploadFails, DeleteSigned, DeleteObjectFile, DeleteIndexFile,
           DeleteOwnershipFile, DeleteCoverageFile
<1>3. CASE Coordinate
  BY <1>3 DEF Coordinate, Switch, Flip
<1>4. CASE Pass
  BY <1>4 DEF Pass, Tick
<1>5. CASE Crash
  BY <1>5 DEF Crash, SweeperRestart, NoEntries
<1>6. CASE UNCHANGED vars
  BY <1>6 DEF vars
<1>7. QED
  BY <1>1, <1>2, <1>3, <1>4, <1>5, <1>6, WindowSweep DEF Next

\* UnlinkFromQuarantine never removes an object whose quarantine timer was
\* started by MoveToQuarantine before a whole window has passed between the
\* cycle that moved it and the cycle that unlinks it.
THEOREM QuarantineWindowHolds == Spec => QuarantineWindowKept
<1> DEFINE Unlinking == \A r \in anchored : Unlinks(r) =>
                          swNow - movedAt[r] >= QuarantineWindow
<1>1. Init => WindowInv
  BY DEF Init, WindowInv, SweeperInit, StoreInit, NoEntries
<1>2. TypeOK /\ WindowInv /\ [Next]_vars => [Unlinking]_vars
  <2> SUFFICES ASSUME TypeOK, WindowInv, Next, NEW r \in anchored, Unlinks(r)
               PROVE swNow - movedAt[r] >= QuarantineWindow
    OBVIOUS
  <2>1. swPc = "unlink" /\ swPc' = "unlinked" /\ swRoot = r
    BY DEF Unlinks
  <2>2. UnlinkFromQuarantine
    <3>1. Sweep
      BY <2>1 DEF Next, Refresh, Serve, Coordinate, Pass, Crash, SweeperRestart,
                  sweeperVars
    <3>2. QED
      BY <2>1, <3>1
         DEF Sweep, SweeperNext, SweepBegin, RecheckEntry, RestoreFromQuarantine,
             RestoreCoverage, DeleteIndex, DeleteOwnership, DeleteCoverage,
             ListObjects, ReadCoverage, CheckRetention, RecheckObject,
             MoveToQuarantine, AnchorQuarantine, SweepEnd
  <2>3. quar[r] # Absent
    BY <2>1, <2>2 DEF UnlinkFromQuarantine, EndEntry
  <2>4. QED
    BY <2>1, <2>3 DEF WindowInv
<1>3. QED
  BY <1>1, <1>2, WindowStep, RetentionTypeCorrect, PTL DEF Spec, QuarantineWindowKept

-----------------------------------------------------------------------------
\* What keeps the retention window: every "reclaimable" answer on its way into
\* a coverage record, every marker and what the sweeper has read of one are no
\* older than the first such answer.
Since(r, t) == firstAnswer[r] # Absent /\ firstAnswer[r] <= t

AnswerInv ==
    /\ \A r \in Roots : firstAnswer[r] <= clock
    /\ \A r \in Roots : rfAnswers[r] = "reclaim" => Since(r, rfNow)
    /\ rfPc = "write" /\ rfNext.reclaimable => Since(rfRoot, rfNext.firstSeen)
    /\ rfPc = "write" /\ rfNext.firstSeen # Absent => rfNext.reclaimable
    /\ \A r \in Roots : cov[r] # NoCoverage =>
         /\ cov[r].reclaimable => Since(r, cov[r].firstSeen)
         /\ cov[r].firstSeen # Absent => cov[r].reclaimable

DecisionInv ==
    /\ swPc = "marked" => Since(swRoot, swFirst)
    /\ swPc \in {"eligible", "move"} => Since(swRoot, swNow - RetentionWindow)

MarkerInv == AnswerInv /\ DecisionInv

\* A step of the refresher keeps every marker at or after the first answer.
LEMMA MarkerRefresh == TypeOK /\ MarkerInv /\ Refresh => MarkerInv'
<1> SUFFICES ASSUME TypeOK, MarkerInv, Refresh PROVE MarkerInv'
  OBVIOUS
<1> USE StoreAssumption, WindowAssumption
    DEF MarkerInv, AnswerInv, DecisionInv, Since, storeVars, records, TypeOK,
        StoreTypeOK, RefresherTypeOK, SweeperTypeOK, InHand, Stamp, Time, Absent
<1>0. UNCHANGED <<swPc, swRoot, swFirst, swNow>>
  BY DEF Refresh, sweeperVars
<1>1. CASE RefreshBegin
  BY <1>0, <1>1 DEF RefreshBegin
<1>2. CASE RefreshQuery
  <2>1. /\ UNCHANGED <<clock, cov>>
        /\ rfNow' = clock /\ rfPc' = "apply"
    BY <1>2 DEF RefreshQuery
  <2>2. \A r \in Roots :
          /\ firstAnswer[r] # Absent => firstAnswer'[r] = firstAnswer[r]
          /\ firstAnswer'[r] \in {firstAnswer[r], clock}
          /\ rfAnswers'[r] = "reclaim" => firstAnswer'[r] # Absent
    BY <1>2 DEF RefreshQuery
  <2>3. \A r \in Roots, t \in Int : Since(r, t) => Since(r, t)'
    BY <2>2
  <2>4. AnswerInv'
    BY <2>1, <2>2 DEF Coverage
  <2>5. DecisionInv'
    BY <1>0, <2>2
  <2>6. QED
    BY <2>4, <2>5
<1>3. CASE RefreshQueryFails
  BY <1>0, <1>3 DEF RefreshQueryFails
<1>4. ASSUME NEW r \in Roots, RefreshRead(r) PROVE MarkerInv'
  <2>1. /\ rfNext'.reclaimable => Since(r, rfNext'.firstSeen)
        /\ rfNext'.firstSeen # Absent => rfNext'.reclaimable
    <3> DEFINE prior == PriorFirstSeen(r)
               reclaim == rfAnswers[r] = "reclaim"
    <3>1. rfNext' = NextCoverage(prior, reclaim, rfNow)
      BY <1>4 DEF RefreshRead
    <3>2. prior # Absent => Since(r, prior)
      BY DEF PriorFirstSeen, Coverage
    <3>3. reclaim => Since(r, rfNow)
      OBVIOUS
    <3>4. CASE reclaim
      <4>1. /\ rfNext'.reclaimable
            /\ rfNext'.firstSeen = IF prior # Absent THEN prior ELSE rfNow
        BY <3>1, <3>4 DEF NextCoverage
      <4>2. QED
        BY <3>2, <3>3, <3>4, <4>1
    <3>5. CASE ~ reclaim
      BY <3>1, <3>5 DEF NextCoverage
    <3>6. QED
      BY <3>4, <3>5
  <2>2. QED
    BY <1>0, <1>4, <2>1 DEF RefreshRead
<1>5. CASE RefreshWrite
  BY <1>0, <1>5 DEF RefreshWrite, WriteCoverage
<1>6. CASE RefreshWriteFails
  BY <1>0, <1>6 DEF RefreshWriteFails
<1>7. CASE RefreshNextBatch
  BY <1>0, <1>7 DEF RefreshNextBatch, NoAnswers
<1>8. QED
  BY <1>1, <1>2, <1>3, <1>4, <1>5, <1>6, <1>7 DEF Refresh, RefresherNext

\* So does a step of the sweeper, whose decision rests on a marker it read.
LEMMA MarkerSweep == TypeOK /\ MarkerInv /\ Sweep => MarkerInv'
<1> SUFFICES ASSUME TypeOK, MarkerInv, Sweep PROVE MarkerInv'
  OBVIOUS
<1> USE StoreAssumption, WindowAssumption
    DEF MarkerInv, AnswerInv, DecisionInv, Since, storeVars, records, TypeOK,
        StoreTypeOK, RefresherTypeOK, SweeperTypeOK, InHand, Stamp, Time, Absent
<1>0. UNCHANGED <<rfPc, rfAnswers, rfNow, rfRoot, rfNext, firstAnswer>>
  BY DEF Sweep, refresherVars
<1>1. CASE SweepBegin
  BY <1>0, <1>1 DEF SweepBegin
<1>2. ASSUME NEW r \in Roots, RecheckEntry(r) PROVE MarkerInv'
  BY <1>0, <1>2 DEF RecheckEntry
<1>3. CASE RestoreFromQuarantine
  BY <1>0, <1>3 DEF RestoreFromQuarantine, EndEntry
<1>4. CASE RestoreCoverage
  <2>1. /\ ~ NextCoverage(Absent, FALSE, swNow).reclaimable
        /\ NextCoverage(Absent, FALSE, swNow).firstSeen = Absent
    BY DEF NextCoverage
  <2>2. QED
    BY <1>0, <1>4, <2>1 DEF RestoreCoverage, WriteCoverage, EndEntry
<1>5. CASE UnlinkFromQuarantine
  BY <1>0, <1>5 DEF UnlinkFromQuarantine, EndEntry
<1>6. CASE DeleteIndex
  BY <1>0, <1>6 DEF DeleteIndex
<1>7. CASE DeleteOwnership
  BY <1>0, <1>7 DEF DeleteOwnership
<1>8. CASE DeleteCoverage
  BY <1>0, <1>8 DEF DeleteCoverage, EndEntry
<1>9. CASE ListObjects
  BY <1>0, <1>9 DEF ListObjects
<1>10. ASSUME NEW r \in Roots, ReadCoverage(r) PROVE MarkerInv'
  BY <1>0, <1>10 DEF ReadCoverage, Coverage
<1>11. CASE CheckRetention
  <2>1. /\ swRoot \in Roots
        /\ obj[swRoot] \in Int
        /\ \A statted \in BOOLEAN : Anchor(statted) \in Int /\ Anchor(statted) >= swFirst
    BY <1>11 DEF CheckRetention, Anchor
  <2>2. PICK statted \in BOOLEAN :
             \/ EndEntry("phase2")
             \/ /\ swNow - Anchor(statted) >= RetentionWindow
                /\ swPc' = "eligible"
                /\ UNCHANGED swRoot
    BY <1>11 DEF CheckRetention
  <2>3. swPc = "marked" /\ UNCHANGED <<storeVars, swNow>>
    BY <1>11 DEF CheckRetention
  <2>4. QED
    BY <1>0, <2>1, <2>2, <2>3 DEF EndEntry
<1>12. CASE RecheckObject
  BY <1>0, <1>12 DEF RecheckObject, EndEntry
<1>13. CASE MoveToQuarantine
  BY <1>0, <1>13 DEF MoveToQuarantine, EndEntry
<1>14. CASE AnchorQuarantine
  BY <1>0, <1>14 DEF AnchorQuarantine, EndEntry
<1>15. CASE SweepEnd
  BY <1>0, <1>15 DEF SweepEnd
<1>16. QED
  BY <1>1, <1>2, <1>3, <1>4, <1>5, <1>6, <1>7, <1>8, <1>9, <1>10, <1>11,
     <1>12, <1>13, <1>14, <1>15 DEF Sweep, SweeperNext

\* So does every step of the provider.
LEMMA MarkerStep == TypeOK /\ MarkerInv /\ [Next]_vars => MarkerInv'
<1> SUFFICES ASSUME TypeOK, MarkerInv, [Next]_vars PROVE MarkerInv'
  OBVIOUS
<1> USE DEF MarkerInv, AnswerInv, DecisionInv, Since, storeVars, records,
            refresherVars, sweeperVars
<1>1. CASE Serve
  <2>1. CASE UNCHANGED <<clock, cov>>
    BY <1>1, <2>1 DEF Serve
  <2>2. CASE DeleteCoverageFile
    BY <1>1, <2>2 DEF Serve, DeleteCoverageFile, TypeOK, StoreTypeOK
  <2>3. QED
    BY <1>1, <2>1, <2>2
       DEF Serve, HandlersNext, PutStream, PutIndex, CommitObject, PutOwnership,
           UploadFails, DeleteSigned, DeleteObjectFile, DeleteIndexFile,
           DeleteOwnershipFile, OperatorRestore
<1>2. CASE Coordinate
  BY <1>2 DEF Coordinate, Switch, Flip
<1>3. CASE Pass
  BY <1>3 DEF Pass, Tick, TypeOK, StoreTypeOK, RefresherTypeOK, Stamp, Time, Absent
<1>4. CASE Crash
  BY <1>4 DEF Crash, RefresherRestart, SweeperRestart, NoAnswers
<1>5. CASE UNCHANGED vars
  BY <1>5 DEF vars
<1>6. QED
  BY <1>1, <1>2, <1>3, <1>4, <1>5, MarkerRefresh, MarkerSweep DEF Next

\* MoveToQuarantine never takes an object out of service before a whole
\* retention window has passed since the refresher's first "reclaimable"
\* answer for its root, whatever happened to the coverage record since.
THEOREM RetentionWindowHolds == Spec => RetentionWindowKept
<1> DEFINE Moving == \A r \in Roots : Moves(r) =>
                       /\ firstAnswer[r] # Absent
                       /\ swNow - firstAnswer[r] >= RetentionWindow
<1>1. Init => MarkerInv
  BY StoreAssumption
     DEF Init, MarkerInv, AnswerInv, DecisionInv, SweeperInit, StoreInit,
         RefresherInit, NoAnswers, Absent
<1>2. TypeOK /\ MarkerInv /\ [Next]_vars => [Moving]_vars
  BY StoreAssumption, WindowAssumption
     DEF MarkerInv, DecisionInv, Since, Moves, TypeOK, SweeperTypeOK,
         RefresherTypeOK, Stamp, Time, Absent
<1>3. QED
  BY <1>1, <1>2, MarkerStep, RetentionTypeCorrect, PTL DEF Spec, RetentionWindowKept

-----------------------------------------------------------------------------
\* What the refinement mapping makes of the variables.
Served == {r \in Roots : obj[r] # Absent}
Quarantined == {r \in Roots : quar[r] # Absent}
Reclaimable == {r \in Roots : sends /\ mayReclaim[r]}
Sentence == IF swPc = "move" THEN <<"withdraw", swRoot>>
            ELSE IF swPc = "unlink" THEN <<"discard", swRoot>> ELSE <<>>

\* A step that leaves both file trees, the owner's wishes, the verdicts and the
\* sentence alone is no step of an object's life.
LEMMA LifeStutters ==
    ASSUME UNCHANGED <<obj, quar, held, coordVars, Sentence>>
    PROVE  UNCHANGED Life!vars
  BY DEF Life!vars, Sentence, coordVars

\* A step that only drops the sentence lets it lapse.
LEMMA LifeLapses ==
    ASSUME UNCHANGED <<obj, quar, held, coordVars>>, Sentence' = <<>>
    PROVE  Life!Next
  BY DEF Life!Next, Life!Lapse, Life!NoSentence, Sentence, coordVars

\* A recheck that ends in a sentence has had the coordinator's own verdict.
LEMMA LifeCondemns ==
    ASSUME NEW r \in Roots, sends /\ mayReclaim[r], Sentence = <<>>,
           Sentence' \in {<<"withdraw", r>>, <<"discard", r>>},
           UNCHANGED <<obj, quar, held, coordVars>>
    PROVE  Life!Next
<1>1. Life!Condemn(r)
  BY DEF Life!Condemn, Life!NoSentence, Life!Withdraw, Life!Discard, Sentence, coordVars
<1>2. QED
  BY <1>1 DEF Life!Next

-----------------------------------------------------------------------------
\* A step of the sweeper: it passes sentence, carries it out, restores, or does
\* nothing to an object.
LEMMA LifeSweep == TypeOK /\ Sweep => [Life!Next]_(Life!vars)
<1> SUFFICES ASSUME TypeOK, Sweep PROVE Life!Next \/ UNCHANGED Life!vars
  OBVIOUS
<1>0. UNCHANGED held
  BY DEF Sweep, handlerVars
<1> USE DEF storeVars, records, sweepHistory
<1>1. CASE SweepBegin
  BY <1>0, <1>1, LifeStutters DEF SweepBegin, Sentence
<1>2. ASSUME NEW r \in Roots, RecheckEntry(r) PROVE Life!Next \/ UNCHANGED Life!vars
  <2>1. Sentence = <<>> /\ UNCHANGED <<obj, quar, coordVars>>
    BY <1>2 DEF RecheckEntry, Sentence
  <2>2. CASE swPc' = "unlink"
    <3>1. "reclaim" \in Rechecks(r) /\ swRoot' = r
      BY <1>2, <2>2 DEF RecheckEntry
    <3>2. Sentence' = <<"discard", r>>
      BY <2>2, <3>1 DEF Sentence
    <3>3. QED
      BY <1>0, <2>1, <3>1, <3>2, RecheckAuthoritative, LifeCondemns
  <2>3. CASE swPc' # "unlink"
    <3>1. Sentence' = <<>>
      BY <1>2, <2>3 DEF RecheckEntry, Sentence
    <3>2. QED
      BY <1>0, <2>1, <3>1, LifeLapses
  <2>4. QED
    BY <2>2, <2>3
<1>3. CASE RestoreFromQuarantine
  <2>1. swRoot \in Roots /\ Sentence = <<>>
    BY <1>3 DEF RestoreFromQuarantine, TypeOK, SweeperTypeOK, InHand, Sentence
  <2>2. Sentence' = <<>> /\ UNCHANGED coordVars
    BY <1>3 DEF RestoreFromQuarantine, EndEntry, Sentence
  <2>3. CASE quar' = quar
    BY <1>0, <1>3, <2>2, <2>3, LifeLapses
       DEF RestoreFromQuarantine, TypeOK, StoreTypeOK, EndEntry
  <2>4. CASE quar' # quar
    <3>1. /\ quar[swRoot] # Absent
          /\ obj' = [obj EXCEPT ![swRoot] = quar[swRoot]]
          /\ quar' = [quar EXCEPT ![swRoot] = Absent]
      BY <1>3, <2>4 DEF RestoreFromQuarantine
    <3>2. Quarantined' = Quarantined \ {swRoot} /\ Served' = Served \cup {swRoot}
      BY <2>1, <3>1 DEF TypeOK, StoreTypeOK, Quarantined, Served
    <3>3. PICK r \in Roots : r = swRoot
      BY <2>1
    <3>4. Life!Restore(r)
      BY <1>0, <2>1, <2>2, <3>1, <3>2, <3>3
         DEF Life!Restore, Quarantined, Served, Sentence, coordVars
    <3>5. QED
      BY <3>4 DEF Life!Next
  <2>5. QED
    BY <2>3, <2>4
<1>4. CASE RestoreCoverage
  BY <1>0, <1>4, LifeStutters DEF RestoreCoverage, EndEntry, Sentence
<1>5. CASE UnlinkFromQuarantine
  <2>1. swRoot \in Roots /\ Sentence = <<"discard", swRoot>>
    BY <1>5 DEF UnlinkFromQuarantine, TypeOK, SweeperTypeOK, InHand, Sentence
  <2>2. Sentence' = <<>> /\ UNCHANGED <<obj, coordVars>>
    BY <1>5 DEF UnlinkFromQuarantine, EndEntry, Sentence
  <2>3. CASE quar' = quar
    BY <1>0, <2>2, <2>3, LifeLapses
  <2>4. CASE quar' # quar
    <3>1. quar' = [quar EXCEPT ![swRoot] = Absent]
      BY <1>5, <2>4 DEF UnlinkFromQuarantine
    <3>2. Quarantined' = Quarantined \ {swRoot}
      BY <2>1, <3>1 DEF TypeOK, StoreTypeOK, Quarantined
    <3>3. PICK r \in Roots : r = swRoot
      BY <2>1
    <3>4. Life!CarryOut(r)
      BY <1>0, <2>1, <2>2, <3>2, <3>3
         DEF Life!CarryOut, Life!Discard, Life!NoSentence, Quarantined, Sentence, coordVars
    <3>5. QED
      BY <3>4 DEF Life!Next
  <2>5. QED
    BY <2>3, <2>4
<1>6. CASE DeleteIndex
  BY <1>0, <1>6, LifeStutters DEF DeleteIndex, Sentence
<1>7. CASE DeleteOwnership
  BY <1>0, <1>7, LifeStutters DEF DeleteOwnership, Sentence
<1>8. CASE DeleteCoverage
  BY <1>0, <1>8, LifeStutters DEF DeleteCoverage, EndEntry, Sentence
<1>9. CASE ListObjects
  BY <1>0, <1>9, LifeStutters DEF ListObjects, Sentence
<1>10. ASSUME NEW r \in Roots, ReadCoverage(r) PROVE Life!Next \/ UNCHANGED Life!vars
  BY <1>0, <1>10, LifeStutters DEF ReadCoverage, Sentence
<1>11. CASE CheckRetention
  BY <1>0, <1>11, LifeStutters DEF CheckRetention, EndEntry, Sentence
<1>12. CASE RecheckObject
  <2>1. swRoot \in Roots /\ Sentence = <<>> /\ UNCHANGED <<obj, quar, coordVars>>
    BY <1>12 DEF RecheckObject, TypeOK, SweeperTypeOK, InHand, Sentence
  <2>2. CASE swPc' = "move"
    <3>1. "reclaim" \in Rechecks(swRoot) /\ swRoot' = swRoot
      BY <1>12, <2>2 DEF RecheckObject, EndEntry
    <3>2. Sentence' = <<"withdraw", swRoot>>
      BY <2>2, <3>1 DEF Sentence
    <3>3. QED
      BY <1>0, <2>1, <3>1, <3>2, RecheckAuthoritative, LifeCondemns
  <2>3. CASE swPc' # "move"
    BY <1>0, <1>12, <2>1, <2>3, LifeLapses DEF RecheckObject, EndEntry, Sentence
  <2>4. QED
    BY <2>2, <2>3
<1>13. CASE MoveToQuarantine
  <2>1. swRoot \in Roots /\ Sentence = <<"withdraw", swRoot>>
    BY <1>13 DEF MoveToQuarantine, TypeOK, SweeperTypeOK, InHand, Sentence
  <2>2. Sentence' = <<>> /\ UNCHANGED coordVars
    BY <1>13 DEF MoveToQuarantine, EndEntry, Sentence
  <2>3. CASE obj' = obj
    BY <1>0, <1>13, <2>2, <2>3, LifeLapses
       DEF MoveToQuarantine, TypeOK, StoreTypeOK, EndEntry
  <2>4. CASE obj' # obj
    <3>1. /\ obj[swRoot] # Absent
          /\ quar' = [quar EXCEPT ![swRoot] = obj[swRoot]]
          /\ obj' = [obj EXCEPT ![swRoot] = Absent]
      BY <1>13, <2>4 DEF MoveToQuarantine
    <3>2. Served' = Served \ {swRoot} /\ Quarantined' = Quarantined \cup {swRoot}
      BY <2>1, <3>1 DEF TypeOK, StoreTypeOK, Quarantined, Served
    <3>3. PICK r \in Roots : r = swRoot
      BY <2>1
    <3>4. Life!CarryOut(r)
      BY <1>0, <2>1, <2>2, <3>1, <3>2, <3>3
         DEF Life!CarryOut, Life!Withdraw, Life!NoSentence, Quarantined, Served, Sentence,
             coordVars
    <3>5. QED
      BY <3>4 DEF Life!Next
  <2>5. QED
    BY <2>3, <2>4
<1>14. CASE AnchorQuarantine
  <2>1. swRoot \in Roots /\ swNow # Absent
    BY <1>14 DEF AnchorQuarantine, TypeOK, SweeperTypeOK, InHand, Time, Absent
  <2>2. Quarantined' = Quarantined
    BY <1>14, <2>1 DEF AnchorQuarantine, TypeOK, StoreTypeOK, Quarantined
  <2>3. Sentence = <<>> /\ Sentence' = <<>> /\ UNCHANGED <<obj, coordVars>>
    BY <1>14 DEF AnchorQuarantine, EndEntry, Sentence
  <2>4. UNCHANGED Life!vars
    BY <1>0, <2>2, <2>3 DEF Life!vars, Quarantined, Sentence, coordVars
  <2>5. QED
    BY <2>4
<1>15. CASE SweepEnd
  BY <1>0, <1>15, LifeStutters DEF SweepEnd, Sentence
<1>16. QED
  BY <1>1, <1>2, <1>3, <1>4, <1>5, <1>6, <1>7, <1>8, <1>9, <1>10, <1>11,
     <1>12, <1>13, <1>14, <1>15 DEF Sweep, SweeperNext

\* A request: an upload stores, an owner's command and the removal that follows it
\* delete, the operator restores; the rest does nothing to an object.
LEMMA LifeServe == TypeOK /\ HeldInv /\ Serve => [Life!Next]_(Life!vars)
<1> SUFFICES ASSUME TypeOK, HeldInv, Serve PROVE Life!Next \/ UNCHANGED Life!vars
  OBVIOUS
<1>0. UNCHANGED <<coordVars, swPc, swRoot>>
  BY DEF Serve, sweeperVars
<1>a. UNCHANGED Sentence
  BY <1>0 DEF Sentence
<1> USE DEF storeVars, records, uploadVars, deleteVars, handlerVars
<1>1. ASSUME NEW r \in Roots, PutStream(r) PROVE Life!Next \/ UNCHANGED Life!vars
  BY <1>0, <1>a, <1>1, LifeStutters DEF PutStream
<1>2. CASE PutIndex
  BY <1>0, <1>a, <1>2, LifeStutters DEF PutIndex
<1>3. CASE CommitObject
  <2>1. PICK r \in Roots : r = upRoot
    BY <1>3 DEF CommitObject, TypeOK, HandlersTypeOK
  <2>2. upMtime # Absent
    BY <1>3, StoreAssumption DEF TypeOK, HandlersTypeOK, Time, Absent
  <2>3. Served' = Served \cup {r}
    BY <1>3, <2>1, <2>2 DEF CommitObject, TypeOK, StoreTypeOK, Served
  <2>4. Life!Store(r)
    BY <1>0, <1>a, <1>3, <2>1, <2>3
       DEF CommitObject, Life!Store, Served, Sentence, coordVars
  <2>5. QED
    BY <2>4 DEF Life!Next
<1>4. CASE PutOwnership
  BY <1>0, <1>a, <1>4, LifeStutters DEF PutOwnership
<1>5. CASE UploadFails
  BY <1>0, <1>a, <1>5, LifeStutters DEF UploadFails
<1>6. ASSUME NEW r \in Roots, DeleteSigned(r) PROVE Life!Next \/ UNCHANGED Life!vars
  <2>1. Life!Command(r)
    BY <1>0, <1>a, <1>6 DEF DeleteSigned, Life!Command, Sentence, coordVars
  <2>2. QED
    BY <2>1 DEF Life!Next
<1>7. CASE DeleteObjectFile
  <2>1. PICK r \in Roots : r = delRoot
    BY <1>7 DEF DeleteObjectFile, TypeOK, HandlersTypeOK
  <2>2. CASE obj' = obj
    BY <1>0, <1>a, <1>7, <2>2, LifeStutters DEF DeleteObjectFile
  <2>3. CASE obj' # obj
    <3>1. Served' = Served \ {r}
      BY <1>7, <2>1, <2>3 DEF DeleteObjectFile, TypeOK, StoreTypeOK, Served
    <3>2. Life!Remove(r)
      BY <1>0, <1>a, <1>7, <2>1, <3>1
         DEF DeleteObjectFile, Life!Remove, HeldInv, Served, Sentence, coordVars
    <3>3. QED
      BY <3>2 DEF Life!Next
  <2>4. QED
    BY <2>2, <2>3
<1>8. CASE DeleteIndexFile
  BY <1>0, <1>a, <1>8, LifeStutters DEF DeleteIndexFile
<1>9. CASE DeleteOwnershipFile
  BY <1>0, <1>a, <1>9, LifeStutters DEF DeleteOwnershipFile
<1>10. CASE DeleteCoverageFile
  BY <1>0, <1>a, <1>10, LifeStutters DEF DeleteCoverageFile
<1>11. ASSUME NEW r \in Roots, OperatorRestore(r) PROVE Life!Next \/ UNCHANGED Life!vars
  <2>1. Quarantined' = Quarantined \ {r} /\ Served' = Served \cup {r}
    BY <1>11 DEF OperatorRestore, TypeOK, StoreTypeOK, Quarantined, Served
  <2>2. Life!Restore(r)
    BY <1>0, <1>a, <1>11, <2>1
       DEF OperatorRestore, Life!Restore, Quarantined, Served, Sentence, coordVars
  <2>3. QED
    BY <2>2 DEF Life!Next
<1>12. QED
  BY <1>1, <1>2, <1>3, <1>4, <1>5, <1>6, <1>7, <1>8, <1>9, <1>10, <1>11
     DEF Serve, HandlersNext

\* Every step of the provider and its environment.
LEMMA LifeStep == TypeOK /\ HeldInv /\ [Next]_vars => [Life!Next]_(Life!vars)
<1> SUFFICES ASSUME TypeOK, HeldInv, [Next]_vars PROVE Life!Next \/ UNCHANGED Life!vars
  OBVIOUS
<1> USE DEF storeVars, records, sweeperVars, handlerVars
<1>1. CASE Refresh
  <2>1. UNCHANGED <<obj, quar, coordVars>>
    BY <1>1 DEF Refresh, RefresherNext, RefreshBegin, RefreshQuery, RefreshQueryFails,
                RefreshRead, RefreshWrite, RefreshWriteFails, RefreshNextBatch
  <2>2. UNCHANGED <<held, swPc, swRoot>>
    BY <1>1 DEF Refresh
  <2>3. QED
    BY <2>1, <2>2, LifeStutters DEF Sentence
<1>2. CASE Coordinate
  <2>1. UNCHANGED <<obj, quar, held, swPc, swRoot>>
    BY <1>2 DEF Coordinate, Switch, Flip
  <2>2. Life!Decide
    BY <2>1 DEF Life!Decide
  <2>3. QED
    BY <2>2 DEF Life!Next
<1>3. CASE Pass
  BY <1>3, LifeStutters DEF Pass, Tick, Sentence
<1>4. CASE Crash
  BY <1>4, LifeLapses DEF Crash, SweeperRestart, HandlersRestart, Sentence
<1>5. CASE UNCHANGED vars
  BY <1>5, LifeStutters DEF vars, Sentence
<1>6. QED
  BY <1>1, <1>2, <1>3, <1>4, <1>5, LifeSweep, LifeServe DEF Next

\* The retention subsystem implements ObjectLife, for any roots, windows and budget
\* and any faults: nothing but the owner's delete, or a sentence that the coordinator
\* has just passed, takes bytes out of service or out of quarantine.
THEOREM RetentionImplementsLife == Spec => ImplementsObjectLife
<1>1. Init => HeldInv
  BY StoreAssumption
     DEF Init, HeldInv, HeldUnlessCondemned, SweeperInit, HandlersInit, List
<1>2. Init => Life!Init
  BY DEF Init, Life!Init, Life!NoSentence, StoreInit, CoordInit, SweeperInit,
         HandlersInit, List
<1>3. QED
  BY <1>1, <1>2, HeldStep, LifeStep, RetentionTypeCorrect, PTL
     DEF Spec, ImplementsObjectLife, Life!Spec
=============================================================================
