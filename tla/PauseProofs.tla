---------------------------- MODULE PauseProofs ----------------------------
(***************************************************************************)
(* Proofs about Pause for any number of keys, sequence numbers and ticks.  *)
(* The invariants are not inductive alone: they hold because of how the    *)
(* two files and the memory relate at each point of Apply, which is what   *)
(* WriteOrder, Acknowledged and Owed say.                                  *)
(***************************************************************************)
EXTENDS Pause, TLAPS

Up == pc # "down"
Persisting == pc \in {"current_written", "sequence_written"}

\* Where the files and the memory stand relative to each other.
WriteOrder ==
    /\ Persisting => pending \in Signals /\ currentFile = pending /\ lastSeq < pending.seq
    /\ pc \in {"ready", "current_written"} => lastSeq = lastSeqFile
    /\ pc = "sequence_written" => lastSeqFile = pending.seq

\* Nothing acknowledged has a number above the one a restart would read, nor
\* above the one in memory.
Acknowledged ==
    \A i \in 1..Len(acked) :
        /\ acked[i].seq <= lastSeqFile
        /\ Up => acked[i].seq <= lastSeq

\* The last acknowledged pause, or a later one, is in the file and in memory.
Owed ==
    owed # NoSignal =>
        /\ currentFile # NoSignal
        /\ owed.seq <= lastSeqFile
        /\ Up => /\ owed.seq <= lastSeq
                 /\ active # NoSignal
                 /\ owed.seq <= active.seq

IInv ==
    /\ TypeOK
    /\ SequenceNotAhead
    /\ WriteOrder
    /\ Acknowledged
    /\ AckedIncreasing
    /\ Owed

-----------------------------------------------------------------------------
\* The state of a first boot satisfies the inductive invariant.
LEMMA InitIInv == Init => IInv
  BY PauseAssumption
     DEF Init, IInv, TypeOK, SequenceNotAhead, WriteOrder, Persisting,
         Acknowledged, AckedIncreasing, Owed, Up

\* The facts about a signal the steps need.
LEMMA SignalFields ==
    ASSUME NEW sig \in Signals
    PROVE  /\ sig.seq \in Nat
           /\ sig.seq \in 1..MaxSeq
           /\ sig.expires \in 0..MaxTime
           /\ sig # NoSignal
  BY PauseAssumption DEF Signals

\* Every step of Next, and every stuttering step, preserves it.
LEMMA StepIInv == IInv /\ [Next]_vars => IInv'
<1> SUFFICES ASSUME IInv, [Next]_vars PROVE IInv'
  OBVIOUS
<1> USE PauseAssumption, SignalFields
    DEF IInv, TypeOK, files, memory
<1>1. ASSUME NEW sig \in Signals, WriteCurrent(sig) PROVE IInv'
  <2> USE <1>1 DEF WriteCurrent
  <2>1. /\ pc = "ready" /\ pc' = "current_written"
        /\ lastSeq = lastSeqFile /\ lastSeq < sig.seq
    BY DEF Valid, WriteOrder
  <2>2. TypeOK'
    OBVIOUS
  <2>3. SequenceNotAhead' /\ WriteOrder'
    BY <2>1 DEF SequenceNotAhead, WriteOrder, Persisting
  <2>4. Acknowledged' /\ AckedIncreasing'
    BY <2>1 DEF Acknowledged, AckedIncreasing, Up
  <2>5. Owed'
    BY <2>1 DEF Owed, Up
  <2>6. QED
    BY <2>2, <2>3, <2>4, <2>5
<1>2. CASE WriteLastSequence
  BY <1>2 DEF WriteLastSequence, SequenceNotAhead, WriteOrder, Persisting,
              Acknowledged, AckedIncreasing, Owed, Up
<1>3. CASE WriteLastSequenceFails
  BY <1>3 DEF WriteLastSequenceFails, SequenceNotAhead, WriteOrder, Persisting,
              Acknowledged, AckedIncreasing, Owed, Up
<1>4. CASE Commit
  <2> USE <1>4 DEF Commit
  <2>1. pending \in Signals /\ lastSeqFile = pending.seq /\ lastSeq < pending.seq
    BY DEF WriteOrder, Persisting
  <2>2. /\ acked' \in Seq(Signals)
        /\ Len(acked') = Len(acked) + 1
        /\ \A i \in 1..Len(acked) : acked'[i] = acked[i]
        /\ acked'[Len(acked) + 1] = pending
    BY <2>1
  <2>3. TypeOK'
    BY <2>1, <2>2
  <2>4. SequenceNotAhead' /\ WriteOrder'
    BY <2>1 DEF SequenceNotAhead, WriteOrder, Persisting
  <2>5. Acknowledged'
    BY <2>1, <2>2 DEF Acknowledged, Up
  <2>6. AckedIncreasing'
    <3>1. \A i \in 1..Len(acked) : acked[i].seq < pending.seq
      BY <2>1, <2>2 DEF Acknowledged, Up
    <3>2. ASSUME NEW i \in 1..Len(acked'), NEW j \in 1..Len(acked'), i < j
          PROVE  acked'[i].seq < acked'[j].seq
      <4>1. i \in 1..Len(acked) /\ acked'[i] = acked[i]
        BY <2>2, <3>2
      <4>2. CASE j = Len(acked) + 1
        BY <2>2, <3>1, <4>1, <4>2
      <4>3. CASE j # Len(acked) + 1
        <5>1. j \in 1..Len(acked) /\ acked'[j] = acked[j]
          BY <2>2, <4>3
        <5>2. QED
          BY <3>2, <4>1, <5>1 DEF AckedIncreasing
      <4>4. QED
        BY <4>2, <4>3
    <3>3. QED
      BY <3>2 DEF AckedIncreasing
  <2>7. Owed'
    BY <2>1 DEF Owed, WriteOrder, Persisting, Up
  <2>8. QED
    BY <2>3, <2>4, <2>5, <2>6, <2>7
<1>5. CASE Crash
  BY <1>5 DEF Crash, SequenceNotAhead, WriteOrder, Persisting,
              Acknowledged, AckedIncreasing, Owed, Up
<1>6. ASSUME NEW k \in Keys \cup {NoKey}, Load(k) PROVE IInv'
  BY <1>6 DEF Load, Trusted, SequenceNotAhead, WriteOrder, Persisting,
              Acknowledged, AckedIncreasing, Owed, Up
<1>7. CASE Tick
  BY <1>7 DEF Tick, SequenceNotAhead, WriteOrder, Persisting,
              Acknowledged, AckedIncreasing, Owed, Up
<1>8. CASE UNCHANGED vars
  BY <1>8 DEF vars, SequenceNotAhead, WriteOrder, Persisting,
              Acknowledged, AckedIncreasing, Owed, Up
<1>9. QED
  BY <1>1, <1>2, <1>3, <1>4, <1>5, <1>6, <1>7, <1>8 DEF Next

\* The inductive invariant holds in every reachable state.
LEMMA IInvAlways == Spec => []IInv
  BY InitIInv, StepIInv, PTL DEF Spec

-----------------------------------------------------------------------------
\* The files and the memory of the circuit breaker (pausectl.go State) always
\* hold signals and sequence numbers.
THEOREM PauseTypeCorrect == Spec => []TypeOK
<1>1. IInv => TypeOK
  BY DEF IInv
<1>2. QED
  BY <1>1, IInvAlways, PTL

\* Apply never acknowledges a signal whose number is not above that of every
\* signal it acknowledged before, whatever crashes, failed writes and cold-key
\* rotations happened in between.
THEOREM SequenceMonotonic == Spec => []AckedIncreasing
<1>1. IInv => AckedIncreasing
  BY DEF IInv
<1>2. QED
  BY <1>1, IInvAlways, PTL

\* A pause that Apply acknowledged, or a later one, is in force whenever Apply
\* is idle, until a binary with another cold key sets it aside.
THEOREM AcknowledgedPauseDurable == Spec => []AckedPauseInForce
<1>1. IInv => AckedPauseInForce
  BY SignalFields DEF IInv, TypeOK, Owed, Up, AckedPauseInForce
<1>2. QED
  BY <1>1, IInvAlways, PTL

\* last_sequence_number is never ahead of a current.json that is there.
THEOREM SequenceFileNotAhead == Spec => []SequenceNotAhead
<1>1. IInv => SequenceNotAhead
  BY DEF IInv
<1>2. QED
  BY <1>1, IInvAlways, PTL
=============================================================================
