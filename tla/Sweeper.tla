------------------------------ MODULE Sweeper ------------------------------
(***************************************************************************)
(* The garbage collector (gc/sweeper.go over gc/quarantine.go).  RunOnce   *)
(* takes the time once, then walks quarantine/ (phase 1: restore what must *)
(* be kept again, unlink what has been there for the whole window) and     *)
(* then objects/ (phase 2: move what has been reclaimable for the whole    *)
(* retention period into quarantine/).  Each system call, and each live    *)
(* recheck with the coordinator, is a step of its own.                     *)
(*                                                                         *)
(* Both walks are over sorted names; the model takes the entries in any    *)
(* order.                                                                  *)
(***************************************************************************)
EXTENDS Coordinator

CONSTANTS
    RetentionWindow,   \* retention_non_contracted
    QuarantineWindow   \* quarantine window

\* Config.ApplyDefaults turns a zero into 48h and 6h, Validate rejects less.
ASSUME WindowAssumption ==
    /\ RetentionWindow \in Nat \ {0}
    /\ QuarantineWindow \in Nat \ {0}

VARIABLES
    swPc,       \* where RunOnce stands
    swNow,      \* the cycle's `now'
    swEntries,  \* phase 1: entries still to visit, with the mtime listed
    swRoots,    \* phase 2: roots still to visit
    swRoot,     \* the entry or root in hand
    swFirst,    \* phase 2: the marker read from its coverage record
    condemned,  \* history: roots for which the coordinator answered a recheck
                \*          with its own "reclaimable" verdict
    movedAt,    \* history: `now' of the cycle that last moved the root
    anchored    \* history: quarantined roots whose mtime Chtimes has set

sweepHistory == <<condemned, movedAt, anchored>>
sweeperVars == <<swPc, swNow, swEntries, swRoots, swRoot, swFirst, sweepHistory>>

NoEntries == [r \in Roots |-> Absent]

SweeperInit ==
    /\ swPc = "idle"
    /\ swNow = 0
    /\ swEntries = NoEntries
    /\ swRoots = {}
    /\ swRoot = NoRoot
    /\ swFirst = Absent
    /\ condemned = {}
    /\ movedAt = [r \in Roots |-> Absent]
    /\ anchored = {}

\* Start's first tick is immediate, on whatever is in quarantine/.
SweeperRestart ==
    /\ swPc' = "idle"
    /\ swNow' = 0
    /\ swEntries' = NoEntries
    /\ swRoots' = {}
    /\ swRoot' = NoRoot
    /\ swFirst' = Absent
    /\ UNCHANGED sweepHistory

InHand == {"restore", "restored", "unlink", "unlinked", "unindexed", "disowned",
           "marked", "eligible", "move", "moved"}

SweeperTypeOK ==
    /\ swPc \in {"idle", "phase1", "phase2"} \cup InHand
    /\ swNow \in Time
    /\ swEntries \in [Roots -> Stamp]
    /\ swRoots \subseteq Roots
    /\ swRoot \in Roots \cup {NoRoot}
    /\ swPc \in InHand => swRoot \in Roots
    /\ swFirst \in Stamp
    /\ condemned \subseteq Roots
    /\ movedAt \in [Roots -> Stamp]
    /\ anchored \subseteq Roots

-----------------------------------------------------------------------------
\* Mutant: the billing answer of an old coordinator is taken for a verdict.
RecheckBilling(r, reachable, contracted) ==
    IF ~ reachable THEN "unusable"
    ELSE IF MayReclaim(r, contracted) THEN "reclaim" ELSE "keep"

\* clientRechecker.Recheck: an error, a reply without the root and a reply
\* without the retention verdict are all unusable.
Recheck(r, reachable, contracted) ==
    IF ~ reachable \/ ~ CoordSentReclaimable THEN "unusable"
    ELSE IF MayReclaim(r, contracted) THEN "reclaim" ELSE "keep"

Rechecks(r) == {Recheck(r, ok, c) : ok \in Reachable, c \in BOOLEAN}

\* The coordinator has condemned r if it gave the verdict itself.
RecordVerdict(r, reply) ==
    condemned' = IF reply = "reclaim" /\ sends /\ mayReclaim[r]
                 THEN condemned \cup {r} ELSE condemned

SweepBegin ==
    /\ swPc = "idle"
    /\ swNow' = clock
    /\ swEntries' = quar
    /\ swPc' = "phase1"
    /\ UNCHANGED <<storeVars, coordVars, swRoots, swRoot, swFirst, sweepHistory>>

\* Mutant: an entry may go one tick early.
WindowAlmostElapsed(r) == swNow - swEntries[r] >= QuarantineWindow - 1

WindowElapsed(r) == swNow - swEntries[r] >= QuarantineWindow

\* Mutant: an account that pays again is not looked for.
RecheckEntryNoRestore(r) ==
    /\ swPc = "phase1"
    /\ swEntries[r] # Absent
    /\ swEntries' = [swEntries EXCEPT ![r] = Absent]
    /\ \E reply \in Rechecks(r) :
         /\ RecordVerdict(r, reply)
         /\ \/ /\ reply # "reclaim" \/ ~ WindowElapsed(r)
               /\ UNCHANGED <<swPc, swRoot>>
            \/ /\ reply = "reclaim" /\ WindowElapsed(r)
               /\ swPc' = "unlink"
               /\ swRoot' = r
    /\ UNCHANGED <<storeVars, coordVars, swNow, swRoots, swFirst, movedAt, anchored>>

\* The live recheck of an entry, and the decision taken on it.
RecheckEntry(r) ==
    /\ swPc = "phase1"
    /\ swEntries[r] # Absent
    /\ swEntries' = [swEntries EXCEPT ![r] = Absent]
    /\ \E reply \in Rechecks(r) :
         /\ RecordVerdict(r, reply)
         /\ \/ /\ reply = "unusable" \/ (reply = "reclaim" /\ ~ WindowElapsed(r))
               /\ UNCHANGED <<swPc, swRoot>>
            \/ /\ reply = "keep"
               /\ swPc' = "restore"
               /\ swRoot' = r
            \/ /\ reply = "reclaim" /\ WindowElapsed(r)
               /\ swPc' = "unlink"
               /\ swRoot' = r
    /\ UNCHANGED <<storeVars, coordVars, swNow, swRoots, swFirst, movedAt, anchored>>

\* The entry in hand is done with, or its step failed and was logged.
EndEntry(pc) == swPc' = pc /\ swRoot' = NoRoot

\* Mutant: the entry is dropped although the rename back has failed.
RestoreUnchecked ==
    /\ swPc = "restore"
    /\ quar' = [quar EXCEPT ![swRoot] = Absent]
    /\ swPc' = "restored"
    /\ UNCHANGED <<clock, obj, records, left, coordVars, swNow, swEntries, swRoots, swRoot,
                   swFirst, sweepHistory>>

RestoreFromQuarantine ==
    /\ swPc = "restore"
    /\ \/ /\ quar[swRoot] # Absent
          /\ obj' = [obj EXCEPT ![swRoot] = quar[swRoot]]
          /\ quar' = [quar EXCEPT ![swRoot] = Absent]
          /\ swPc' = "restored"
          /\ UNCHANGED swRoot
       \/ /\ quar[swRoot] = Absent \/ "io" \in Faults
          /\ EndEntry("phase1")
          /\ UNCHANGED <<obj, quar>>
    /\ UNCHANGED <<clock, records, left, coordVars, swNow, swEntries, swRoots,
                   swFirst, sweepHistory>>

\* The write through UpdateCoverage; what it reads first does not matter.
RestoreCoverage ==
    /\ swPc = "restored"
    /\ \/ WriteCoverage(swRoot, NextCoverage(Absent, FALSE, swNow), swNow)
       \/ WritesFail /\ UNCHANGED <<cov, kept>>
    /\ EndEntry("phase1")
    /\ UNCHANGED <<clock, obj, quar, idx, own, left, coordVars, swNow, swEntries,
                   swRoots, swFirst, sweepHistory>>

\* Mutant: whatever there is under this root is unlinked.
UnlinkEverywhere ==
    /\ swPc = "unlink"
    /\ quar' = [quar EXCEPT ![swRoot] = Absent]
    /\ obj' = [obj EXCEPT ![swRoot] = Absent]
    /\ swPc' = "unlinked"
    /\ UNCHANGED <<clock, records, left, coordVars, swNow, swEntries, swRoots, swRoot,
                   swFirst, sweepHistory>>

UnlinkFromQuarantine ==
    /\ swPc = "unlink"
    /\ \/ /\ quar[swRoot] # Absent
          /\ quar' = [quar EXCEPT ![swRoot] = Absent]
          /\ swPc' = "unlinked"
          /\ UNCHANGED swRoot
       \/ /\ quar[swRoot] = Absent \/ "io" \in Faults
          /\ EndEntry("phase1")
          /\ UNCHANGED quar
    /\ UNCHANGED <<clock, obj, records, left, coordVars, swNow, swEntries,
                   swRoots, swFirst, sweepHistory>>

\* DeleteIndexAndOwnership removes the index, then the ownership record.
DeleteIndex ==
    /\ swPc = "unlinked"
    /\ idx' \in Remaining(idx, swRoot)
    /\ swPc' = "unindexed"
    /\ UNCHANGED <<clock, obj, quar, own, cov, kept, left, coordVars, swNow,
                   swEntries, swRoots, swRoot, swFirst, sweepHistory>>

DeleteOwnership ==
    /\ swPc = "unindexed"
    /\ own' \in Remaining(own, swRoot)
    /\ swPc' = "disowned"
    /\ UNCHANGED <<clock, obj, quar, idx, cov, kept, left, coordVars, swNow,
                   swEntries, swRoots, swRoot, swFirst, sweepHistory>>

DeleteCoverage ==
    /\ swPc = "disowned"
    /\ \/ cov' = [cov EXCEPT ![swRoot] = NoCoverage]
       \/ "io" \in Faults /\ UNCHANGED cov
    /\ EndEntry("phase1")
    /\ UNCHANGED <<clock, obj, quar, idx, own, kept, left, coordVars, swNow,
                   swEntries, swRoots, swFirst, sweepHistory>>

-----------------------------------------------------------------------------
\* A List that fails ends the cycle, as an empty one does.
ListObjects ==
    /\ swPc = "phase1"
    /\ swEntries = NoEntries
    /\ swRoots' \in {List} \cup (IF "io" \in Faults THEN {{}} ELSE {})
    /\ swPc' = "phase2"
    /\ UNCHANGED <<storeVars, coordVars, swNow, swEntries, swRoot, swFirst, sweepHistory>>

\* A root without a record that can be read, or whose record says "keep", is
\* left alone.  A record without a marker counts as first seen now.
ReadCoverage(r) ==
    /\ swPc = "phase2"
    /\ r \in swRoots
    /\ swRoots' = swRoots \ {r}
    /\ \/ /\ cov[r] = NoCoverage \/ "io" \in Faults
          /\ UNCHANGED <<swPc, swRoot, swFirst>>
       \/ /\ cov[r] # NoCoverage
          /\ ~ cov[r].reclaimable
          /\ UNCHANGED <<swPc, swRoot, swFirst>>
       \/ /\ cov[r] # NoCoverage
          /\ cov[r].reclaimable
          /\ swFirst' = IF cov[r].firstSeen = Absent THEN swNow ELSE cov[r].firstSeen
          /\ swRoot' = r
          /\ swPc' = "marked"
    /\ UNCHANGED <<storeVars, coordVars, swNow, swEntries, sweepHistory>>

\* Mutant: the mtime alone decides when it can be read.
MtimeAnchor(statted) == IF statted THEN obj[swRoot] ELSE swFirst

\* The retention period starts at the marker, or at the object's mtime when
\* that can be read and is later.
Anchor(statted) ==
    IF statted /\ obj[swRoot] > swFirst THEN obj[swRoot] ELSE swFirst

CheckRetention ==
    /\ swPc = "marked"
    /\ swFirst' = Absent
    /\ \E statted \in {TRUE} \cup (IF "io" \in Faults THEN {FALSE} ELSE {}) :
         \/ /\ swNow - Anchor(statted) < RetentionWindow
            /\ EndEntry("phase2")
         \/ /\ swNow - Anchor(statted) >= RetentionWindow
            /\ swPc' = "eligible"
            /\ UNCHANGED swRoot
    /\ UNCHANGED <<storeVars, coordVars, swNow, swEntries, swRoots, sweepHistory>>

\* Mutant: the cached answer is enough to move the object.
MoveOnCache ==
    /\ swPc = "eligible"
    /\ swPc' = "move"
    /\ UNCHANGED <<storeVars, coordVars, swNow, swEntries, swRoots, swRoot, swFirst,
                   sweepHistory>>

RecheckObject ==
    /\ swPc = "eligible"
    /\ \E reply \in Rechecks(swRoot) :
         /\ RecordVerdict(swRoot, reply)
         /\ \/ reply # "reclaim" /\ EndEntry("phase2")
            \/ reply = "reclaim" /\ swPc' = "move" /\ UNCHANGED swRoot
    /\ UNCHANGED <<storeVars, coordVars, swNow, swEntries, swRoots, swFirst,
                   movedAt, anchored>>

\* MoveToQuarantine: the rename ...
MoveToQuarantine ==
    /\ swPc = "move"
    /\ \/ /\ obj[swRoot] # Absent
          /\ quar' = [quar EXCEPT ![swRoot] = obj[swRoot]]
          /\ obj' = [obj EXCEPT ![swRoot] = Absent]
          /\ movedAt' = [movedAt EXCEPT ![swRoot] = swNow]
          /\ anchored' = anchored \ {swRoot}
          /\ swPc' = "moved"
          /\ UNCHANGED swRoot
       \/ /\ obj[swRoot] = Absent \/ "io" \in Faults
          /\ EndEntry("phase2")
          /\ UNCHANGED <<obj, quar, movedAt, anchored>>
    /\ UNCHANGED <<clock, records, left, coordVars, swNow, swEntries, swRoots,
                   swFirst, condemned>>

\* ... and the Chtimes that starts the quarantine timer at `now'.
AnchorQuarantine ==
    /\ swPc = "moved"
    /\ \/ /\ quar[swRoot] # Absent
          /\ quar' = [quar EXCEPT ![swRoot] = swNow]
          /\ anchored' = anchored \cup {swRoot}
       \/ /\ quar[swRoot] = Absent \/ "io" \in Faults
          /\ UNCHANGED <<quar, anchored>>
    /\ EndEntry("phase2")
    /\ UNCHANGED <<clock, obj, records, left, coordVars, swNow, swEntries,
                   swRoots, swFirst, condemned, movedAt>>

SweepEnd ==
    /\ swPc = "phase2"
    /\ swRoots = {}
    /\ swPc' = "idle"
    /\ swNow' = 0
    /\ UNCHANGED <<storeVars, coordVars, swEntries, swRoots, swRoot, swFirst, sweepHistory>>

SweeperNext ==
    \/ SweepBegin
    \/ \E r \in Roots : RecheckEntry(r)
    \/ RestoreFromQuarantine
    \/ RestoreCoverage
    \/ UnlinkFromQuarantine
    \/ DeleteIndex
    \/ DeleteOwnership
    \/ DeleteCoverage
    \/ ListObjects
    \/ \E r \in Roots : ReadCoverage(r)
    \/ CheckRetention
    \/ RecheckObject
    \/ MoveToQuarantine
    \/ AnchorQuarantine
    \/ SweepEnd
=============================================================================
