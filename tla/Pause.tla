------------------------------- MODULE Pause -------------------------------
(***************************************************************************)
(* The retention circuit breaker of pausectl/pausectl.go, with the two     *)
(* files it keeps ({data_dir}/pause/current.json and last_sequence_number),*)
(* the copy of them that the process holds in memory, and the crashes and  *)
(* restarts (possibly into a binary with another cold key) between any two *)
(* writes.                                                                 *)
(*                                                                         *)
(* A signal is abstracted to who signed it, its sequence number, its       *)
(* expiry and one bit that stands for every format check (non-empty        *)
(* envelope, 64-byte signature, type, version, scope, RFC3339 times).      *)
(***************************************************************************)
EXTENDS Naturals, Sequences

CONSTANTS
    Keys,       \* cold keys a binary can be built with
    NoKey,      \* a binary built without one
    NoSignal,   \* no current.json, or no active pause
    MaxSeq,     \* bound: highest sequence number a signal carries
    MaxTime     \* bound: the clock stops here

Signals == [signer : Keys, seq : 1..MaxSeq, expires : 0..MaxTime,
            wellFormed : BOOLEAN]

ASSUME PauseAssumption ==
    /\ MaxSeq \in Nat
    /\ MaxTime \in Nat
    /\ NoKey \notin Keys
    /\ NoSignal \notin Signals

VARIABLES
    clock,        \* time.Now()
    coldKey,      \* the key baked into the running binary
    currentFile,  \* current.json
    lastSeqFile,  \* last_sequence_number; a missing file reads as 0
    active,       \* State.active
    lastSeq,      \* State.lastSeq
    pc,           \* where Apply, which holds State.mu throughout, stands
    pending,      \* the signal that Apply is persisting
    acked,        \* history: the signals Apply returned without an error
    owed          \* history: the last of them, until a binary that does not
                  \* trust current.json has moved it aside

files == <<currentFile, lastSeqFile>>
memory == <<active, lastSeq>>
vars == <<clock, coldKey, files, memory, pc, pending, acked, owed>>

-----------------------------------------------------------------------------
\* A first boot: pause/ is empty.
Init ==
    /\ clock = 0
    /\ coldKey \in Keys \cup {NoKey}
    /\ currentFile = NoSignal
    /\ lastSeqFile = 0
    /\ active = NoSignal
    /\ lastSeq = 0
    /\ pc = "ready"
    /\ pending = NoSignal
    /\ acked = <<>>
    /\ owed = NoSignal

\* Mutant: a signal may repeat the last sequence number.
ValidAgain(sig) ==
    /\ coldKey # NoKey
    /\ sig.signer = coldKey
    /\ sig.wellFormed
    /\ sig.expires > clock
    /\ sig.seq >= lastSeq

\* Mutant: a late, older signal replaces a newer one.
ValidUnordered(sig) ==
    /\ coldKey # NoKey
    /\ sig.signer = coldKey
    /\ sig.wellFormed
    /\ sig.expires > clock

\* Steps 1-8 of Apply, none of which changes anything; `now' is the time at
\* which Apply gets its lock.
Valid(sig) ==
    /\ coldKey # NoKey
    /\ sig.signer = coldKey
    /\ sig.wellFormed
    /\ sig.expires > clock
    /\ sig.seq > lastSeq

\* Step 9 begins: current.json is replaced (temporary file and rename).  A
\* rejected signal and a failed writeCurrent change nothing.
WriteCurrent(sig) ==
    /\ pc = "ready"
    /\ Valid(sig)
    /\ currentFile' = sig
    /\ pending' = sig
    /\ pc' = "current_written"
    /\ UNCHANGED <<clock, coldKey, lastSeqFile, memory, acked, owed>>

\* Mutant: the number of the next signal is stored, not of this one.
WriteNextSequence ==
    /\ pc = "current_written"
    /\ lastSeqFile' = pending.seq + 1
    /\ pc' = "sequence_written"
    /\ UNCHANGED <<clock, coldKey, currentFile, memory, pending, acked, owed>>

WriteLastSequence ==
    /\ pc = "current_written"
    /\ lastSeqFile' = pending.seq
    /\ pc' = "sequence_written"
    /\ UNCHANGED <<clock, coldKey, currentFile, memory, pending, acked, owed>>

\* Apply returns the error; current.json already holds the new signal and the
\* memory still holds the old one.
WriteLastSequenceFails ==
    /\ pc = "current_written"
    /\ pc' = "ready"
    /\ pending' = NoSignal
    /\ UNCHANGED <<clock, coldKey, files, memory, acked, owed>>

\* The in-memory state follows the files and the caller gets its 200.
Commit ==
    /\ pc = "sequence_written"
    /\ active' = pending
    /\ lastSeq' = pending.seq
    /\ acked' = Append(acked, pending)
    /\ owed' = pending
    /\ pc' = "ready"
    /\ pending' = NoSignal
    /\ UNCHANGED <<clock, coldKey, files>>

Crash ==
    /\ pc # "down"
    /\ pc' = "down"
    /\ active' = NoSignal
    /\ lastSeq' = 0
    /\ pending' = NoSignal
    /\ UNCHANGED <<clock, coldKey, files, acked, owed>>

\* A current.json the binary's key does not verify is renamed aside.
Trusted(k, sig) == k # NoKey /\ sig.signer = k

\* Mutant: a restart reads the sequence number only.
LoadForgetful(k) ==
    /\ pc = "down"
    /\ coldKey' = k
    /\ lastSeq' = lastSeqFile
    /\ active' = NoSignal
    /\ pc' = "ready"
    /\ UNCHANGED <<clock, currentFile, lastSeqFile, pending, acked, owed>>

Load(k) ==
    /\ pc = "down"
    /\ coldKey' = k
    /\ lastSeq' = lastSeqFile
    /\ \/ /\ currentFile = NoSignal
          /\ active' = NoSignal
          /\ UNCHANGED <<currentFile, owed>>
       \/ /\ currentFile # NoSignal
          /\ Trusted(k, currentFile)
          /\ active' = currentFile
          /\ UNCHANGED <<currentFile, owed>>
       \/ /\ currentFile # NoSignal
          /\ ~ Trusted(k, currentFile)
          /\ active' = NoSignal
          /\ currentFile' = NoSignal
          /\ owed' = NoSignal
    /\ pc' = "ready"
    /\ UNCHANGED <<clock, lastSeqFile, pending, acked>>

Tick ==
    /\ clock < MaxTime
    /\ clock' = clock + 1
    /\ UNCHANGED <<coldKey, files, memory, pc, pending, acked, owed>>

Next ==
    \/ \E sig \in Signals : WriteCurrent(sig)
    \/ WriteLastSequence
    \/ WriteLastSequenceFails
    \/ Commit
    \/ Crash
    \/ \E k \in Keys \cup {NoKey} : Load(k)
    \/ Tick

Spec == Init /\ [][Next]_vars

\* What IsPaused answers; RLock waits for Apply to return.
IsPaused == active # NoSignal /\ active.expires > clock

-----------------------------------------------------------------------------
\* The type invariant: in particular no number above MaxSeq is ever stored.
TypeOK ==
    /\ clock \in 0..MaxTime
    /\ coldKey \in Keys \cup {NoKey}
    /\ currentFile \in Signals \cup {NoSignal}
    /\ lastSeqFile \in 0..MaxSeq
    /\ active \in Signals \cup {NoSignal}
    /\ lastSeq \in 0..MaxSeq
    /\ pc \in {"ready", "current_written", "sequence_written", "down"}
    /\ pending \in Signals \cup {NoSignal}
    /\ acked \in Seq(Signals)
    /\ owed \in Signals \cup {NoSignal}

\* pausectl.go:17 "Sequence numbers are strictly monotonic": of the signals
\* Apply acknowledged, each has a higher number than the one before, through
\* crashes, failed writes and cold-key rotation.
AckedIncreasing ==
    \A i, j \in 1..Len(acked) : i < j => acked[i].seq < acked[j].seq

\* An acknowledged pause is never silently lost: after any crash, failed write
\* or restart, the pause in memory is the last acknowledged one or one with a
\* higher number, unless a binary with another cold key has set it aside.
AckedPauseInForce ==
    (pc = "ready" /\ owed # NoSignal) =>
        active # NoSignal /\ active.seq >= owed.seq

\* pausectl.go:251: last_sequence_number is never ahead of current.json, whatever
\* was accepted, failed half-way or crashed before.
SequenceNotAhead ==
    currentFile # NoSignal => lastSeqFile <= currentFile.seq
=============================================================================
