--------------------------- MODULE PausedProvider ---------------------------
(***************************************************************************)
(* The provider as cmd/start.go assembles it: the circuit breaker of Pause *)
(* beside the retention subsystem of Retention, in one process and under   *)
(* one clock.  Start hands the pause state to the API server alone; the    *)
(* sweeper is built without it, so no step of either waits for the other.  *)
(***************************************************************************)
EXTENDS Retention

CONSTANTS Keys, NoKey, NoSignal, MaxSeq

VARIABLES coldKey, currentFile, lastSeqFile, active, lastSeq, pc, pending, acked, owed,
    begunPaused   \* history: a pause was in force when this sweep cycle began

pauseVars == <<coldKey, currentFile, lastSeqFile, active, lastSeq, pc, pending,
               acked, owed>>

Breaker == INSTANCE Pause

ProviderInit == Init /\ Breaker!Init /\ begunPaused = FALSE

\* The whole process crashes; Start loads the pause state before it starts the
\* goroutines again.
ProviderCrash == Crash /\ Breaker!Crash /\ UNCHANGED begunPaused
ProviderTick == Pass /\ Breaker!Tick /\ UNCHANGED begunPaused

Work ==
    /\ pc # "down"
    /\ Refresh \/ Sweep \/ Serve \/ Coordinate
    /\ begunPaused' = IF swPc = "idle" /\ swPc' = "phase1"
                      THEN Breaker!IsPaused ELSE begunPaused
    /\ UNCHANGED pauseVars

\* POST /control/pause, step by step, and Load during a start.
Control ==
    /\ \/ \E sig \in Breaker!Signals : Breaker!WriteCurrent(sig)
       \/ Breaker!WriteLastSequence
       \/ Breaker!WriteLastSequenceFails
       \/ Breaker!Commit
       \/ \E k \in Keys \cup {NoKey} : Breaker!Load(k)
    /\ UNCHANGED <<vars, begunPaused>>

ProviderNext == ProviderCrash \/ ProviderTick \/ Work \/ Control

ProviderSpec == ProviderInit /\ [][ProviderNext]_<<vars, pauseVars, begunPaused>>

-----------------------------------------------------------------------------
\* pausectl.go:265-267: IsPaused "is the gate that all coverage-driven
\* prune-decision code paths must check before acting": a sweep cycle that began
\* under a pause moves and unlinks nothing while a pause is in force.
NoPruneWhilePaused ==
    [][begunPaused /\ Breaker!IsPaused =>
         \A r \in Roots : ~ Moves(r) /\ ~ Unlinks(r)]_<<vars, pauseVars, begunPaused>>
=============================================================================
