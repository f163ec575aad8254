------------------------------- MODULE Store -------------------------------
(***************************************************************************)
(* The files of one provider (store/store.go, store/stream.go and the      *)
(* quarantine/ tree of gc/quarantine.go) as every goroutine of the process *)
(* sees them.  Nothing locks them: each step of a goroutine that touches   *)
(* one of these files is an action of its own.                             *)
(*                                                                         *)
(* An object's bytes are determined by its root, so a file is only its     *)
(* modification time.  A coverage record keeps the two fields a prune      *)
(* decision reads; Status, Until, Reason and FirstSeenUncovered are written*)
(* and never read by one.                                                  *)
(***************************************************************************)
EXTENDS Integers, FiniteSets

CONSTANTS
    Roots,        \* merkle roots
    NoRoot,       \* no root in hand
    NoCoverage,   \* no coverage/<root>.json
    Faults,       \* which failures happen: of the coordinator ("coord"), of any
                  \* file operation ("io"), of writes to a full disk ("full")
    Budget,       \* bound: how often each event of the environment happens
    MaxTime       \* bound: the clock stops here

Events == {"crash", "delete", "flip", "rescue", "switch", "upload"}

Time == 0..MaxTime
Absent == -1
Stamp == Time \cup {Absent}

Coverage == [reclaimable : BOOLEAN, firstSeen : Stamp]

ASSUME StoreAssumption ==
    /\ MaxTime \in Nat
    /\ NoRoot \notin Roots
    /\ NoCoverage \notin Coverage
    /\ Faults \subseteq {"coord", "io", "full"}
    /\ Budget \in [Events -> Nat]

VARIABLES
    clock,    \* time.Now()
    obj,      \* objects/<root>: its mtime, or Absent
    quar,     \* quarantine/<root>: its mtime, or Absent
    idx,      \* roots with an index/<root>.json
    own,      \* roots with an ownership/<root>.json
    cov,      \* coverage/<root>.json
    kept,     \* history: RefreshedAt of the last "keep" record written
    left      \* how much of Budget is left

records == <<idx, own, cov, kept>>
storeVars == <<clock, obj, quar, records, left>>

-----------------------------------------------------------------------------
\* Every object written so far was written at time 0 and is complete.
StoreInit ==
    /\ clock = 0
    /\ obj \in [Roots -> {0, Absent}]
    /\ quar = [r \in Roots |-> Absent]
    /\ idx = {r \in Roots : obj[r] # Absent}
    /\ own = {r \in Roots : obj[r] # Absent}
    /\ cov = [r \in Roots |-> NoCoverage]
    /\ kept = [r \in Roots |-> Absent]
    /\ left = Budget

StoreTypeOK ==
    /\ clock \in Time
    /\ obj \in [Roots -> Stamp]
    /\ quar \in [Roots -> Stamp]
    /\ idx \subseteq Roots
    /\ own \subseteq Roots
    /\ cov \in [Roots -> Coverage \cup {NoCoverage}]
    /\ kept \in [Roots -> Stamp]
    /\ left \in [Events -> Nat]

Spend(e) == left[e] > 0 /\ left' = [left EXCEPT ![e] = @ - 1]

List == {r \in Roots : obj[r] # Absent}

\* Creating and writing a file can fail.
WritesFail == Faults \cap {"io", "full"} # {}

\* A Remove whose error the code ignores either works or leaves the file.
Remaining(S, r) == {S \ {r}} \cup (IF "io" \in Faults THEN {S} ELSE {})

\* The marker UpdateCoverage finds in the record it is about to replace.
PriorFirstSeen(r) ==
    IF cov[r] = NoCoverage THEN Absent ELSE cov[r].firstSeen

\* The record UpdateCoverage builds from that marker and the answer.
NextCoverage(prior, reclaimable, now) ==
    [reclaimable |-> reclaimable,
     firstSeen   |-> IF ~ reclaimable THEN Absent
                     ELSE IF prior # Absent THEN prior ELSE now]

\* The rename with which UpdateCoverage replaces the record.
WriteCoverage(r, record, now) ==
    /\ cov' = [cov EXCEPT ![r] = record]
    /\ kept' = IF record.reclaimable THEN kept ELSE [kept EXCEPT ![r] = now]

Tick ==
    /\ clock < MaxTime
    /\ clock' = clock + 1
    /\ UNCHANGED <<obj, quar, records, left>>
=============================================================================
