----------------------------- MODULE Refresher -----------------------------
(***************************************************************************)
(* The coverage refresher (coverage/refresher.go): it lists the stored     *)
(* roots, asks the coordinator about them batch by batch, and writes each  *)
(* answer through store.UpdateCoverage, which reads the old record, builds *)
(* the new one and renames it into place without holding a lock.           *)
(***************************************************************************)
EXTENDS Coordinator

CONSTANT BatchSize
ASSUME BatchAssumption == BatchSize \in Nat \ {0}

VARIABLES
    rfPc,        \* where RunOnce stands
    rfRoots,     \* listed roots not yet asked about
    rfAnswers,   \* the batch's answers not yet applied
    rfNow,       \* the time taken after the batch's reply
    rfRoot,      \* the root whose record is being rewritten
    rfNext,      \* the record UpdateCoverage has built for it
    firstAnswer  \* history: when the first "reclaimable" answer came in

refresherVars == <<rfPc, rfRoots, rfAnswers, rfNow, rfRoot, rfNext, firstAnswer>>

\* "none": not in the batch, or left out of the coordinator's reply.
Answers == {"none", "keep", "reclaim"}
NoAnswers == [r \in Roots |-> "none"]

RefresherInit ==
    /\ rfPc = "idle"
    /\ rfRoots = {}
    /\ rfAnswers = NoAnswers
    /\ rfNow = 0
    /\ rfRoot = NoRoot
    /\ rfNext = NoCoverage
    /\ firstAnswer = [r \in Roots |-> Absent]

\* A restarted process starts the loop over.
RefresherRestart ==
    /\ rfPc' = "idle"
    /\ rfRoots' = {}
    /\ rfAnswers' = NoAnswers
    /\ rfNow' = 0
    /\ rfRoot' = NoRoot
    /\ rfNext' = NoCoverage
    /\ UNCHANGED firstAnswer

RefresherTypeOK ==
    /\ rfPc \in {"idle", "listed", "apply", "write"}
    /\ rfRoots \subseteq Roots
    /\ rfAnswers \in [Roots -> Answers]
    /\ rfNow \in Time
    /\ rfRoot \in Roots \cup {NoRoot}
    /\ rfNext \in Coverage \cup {NoCoverage}
    /\ rfPc = "write" => rfRoot \in Roots /\ rfNext \in Coverage
    /\ firstAnswer \in [Roots -> Stamp]

-----------------------------------------------------------------------------
RefreshBegin ==
    /\ rfPc = "idle"
    /\ List # {}
    /\ rfRoots' = List
    /\ rfPc' = "listed"
    /\ UNCHANGED <<storeVars, coordVars, rfAnswers, rfNow, rfRoot, rfNext, firstAnswer>>

Batches == {B \in SUBSET rfRoots :
              Cardinality(B) = IF Cardinality(rfRoots) < BatchSize
                               THEN Cardinality(rfRoots) ELSE BatchSize}

\* What the reply says of root r: MayReclaim, or nothing.
AnswersFor(r, contracted) ==
    {IF MayReclaim(r, contracted) THEN "reclaim" ELSE "keep"}
        \cup (IF "coord" \in Faults THEN {"none"} ELSE {})

RefreshQuery ==
    /\ rfPc = "listed"
    /\ \E B \in Batches, contracted \in [Roots -> BOOLEAN] :
         /\ rfRoots' = rfRoots \ B
         /\ \E ans \in [Roots -> Answers] :
              /\ \A r \in B : ans[r] \in AnswersFor(r, contracted[r])
              /\ \A r \in Roots \ B : ans[r] = "none"
              /\ rfAnswers' = ans
              /\ firstAnswer' = [r \in Roots |->
                   IF ans[r] = "reclaim" /\ firstAnswer[r] = Absent
                   THEN clock ELSE firstAnswer[r]]
    /\ rfNow' = clock
    /\ rfPc' = "apply"
    /\ UNCHANGED <<storeVars, coordVars, rfRoot, rfNext>>

\* The batch failed: its roots keep their records.
RefreshQueryFails ==
    /\ rfPc = "listed"
    /\ FALSE \in Reachable
    /\ \E B \in Batches : rfRoots' = rfRoots \ B
    /\ rfPc' = "apply"
    /\ UNCHANGED <<storeVars, coordVars, rfAnswers, rfNow, rfRoot, rfNext, firstAnswer>>

\* Mutant: the root the record is for is not carried along.
RefreshReadNoRoot(r) ==
    /\ rfPc = "apply"
    /\ rfAnswers[r] # "none"
    /\ rfNext' = NextCoverage(PriorFirstSeen(r), rfAnswers[r] = "reclaim", rfNow)
    /\ rfAnswers' = [rfAnswers EXCEPT ![r] = "none"]
    /\ rfPc' = "write"
    /\ UNCHANGED <<storeVars, coordVars, rfRoots, rfNow, rfRoot, firstAnswer>>

\* UpdateCoverage reads the prior record and builds the next one ...
RefreshRead(r) ==
    /\ rfPc = "apply"
    /\ rfAnswers[r] # "none"
    /\ rfRoot' = r
    /\ rfNext' = NextCoverage(PriorFirstSeen(r), rfAnswers[r] = "reclaim", rfNow)
    /\ rfAnswers' = [rfAnswers EXCEPT ![r] = "none"]
    /\ rfPc' = "write"
    /\ UNCHANGED <<storeVars, coordVars, rfRoots, rfNow, firstAnswer>>

\* ... and later renames it into place, whatever is there by then.
RefreshWrite ==
    /\ rfPc = "write"
    /\ WriteCoverage(rfRoot, rfNext, rfNow)
    /\ rfPc' = "apply"
    /\ rfRoot' = NoRoot
    /\ rfNext' = NoCoverage
    /\ UNCHANGED <<clock, obj, quar, idx, own, left, coordVars,
                   rfRoots, rfAnswers, rfNow, firstAnswer>>

RefreshWriteFails ==
    /\ rfPc = "write"
    /\ WritesFail
    /\ rfPc' = "apply"
    /\ rfRoot' = NoRoot
    /\ rfNext' = NoCoverage
    /\ UNCHANGED <<storeVars, coordVars, rfRoots, rfAnswers, rfNow, firstAnswer>>

\* On to the next batch, or to the end of the cycle.
RefreshNextBatch ==
    /\ rfPc = "apply"
    /\ rfAnswers = NoAnswers
    /\ rfPc' = IF rfRoots = {} THEN "idle" ELSE "listed"
    /\ rfNow' = 0
    /\ UNCHANGED <<storeVars, coordVars, rfRoots, rfAnswers, rfRoot, rfNext, firstAnswer>>

RefresherNext ==
    \/ RefreshBegin
    \/ RefreshQuery
    \/ RefreshQueryFails
    \/ \E r \in Roots : RefreshRead(r)
    \/ RefreshWrite
    \/ RefreshWriteFails
    \/ RefreshNextBatch
=============================================================================
