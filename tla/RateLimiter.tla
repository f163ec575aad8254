----------------------------- MODULE RateLimiter -----------------------------
(***************************************************************************)
(* challengeRateLimiter (api/client_challenge.go): at most Limit client    *)
(* challenges for each (account, root) in a window that is the same for all*)
(* of them and starts again at the first challenge after it has run out.   *)
(* allow runs under a mutex, so it is an operator on the limiter's state,  *)
(* checked over every bounded run of challenges.  The handler reads the    *)
(* clock before allow takes the mutex: two requests may pass the limiter in*)
(* the other order than they have read the clock.                          *)
(***************************************************************************)
EXTENDS Integers, Sequences, FiniteSets

CONSTANTS
    Accounts,       \* the keys account/root
    Limit,          \* clientChallengeLimit
    Window,         \* clientChallengeWindow, in ticks
    Lag,            \* the longest time from a reading of the clock to the mutex
    MaxChallenges   \* bound: how long a run of challenges is

ASSUME RateLimiterAssumption ==
    /\ {Limit, Window, MaxChallenges} \subseteq Nat \ {0}
    /\ Lag \in Nat

-----------------------------------------------------------------------------
\* time.Time's zero value lies more than a window before any reading.
newChallengeRateLimiter ==
    [window |-> - (Window + Lag), entries |-> [a \in Accounts |-> 0]]

\* Mutant: the counts are dropped but the window is not moved.
CurrentUnmoved(l, now) ==
    IF now - l.window >= Window
    THEN [l EXCEPT !.entries = [a \in Accounts |-> 0]] ELSE l

\* The limiter with a new window if the old one has run out.
Current(l, now) ==
    IF now - l.window >= Window
    THEN [window |-> now, entries |-> [a \in Accounts |-> 0]] ELSE l

allowed(l, a, now) == Current(l, now).entries[a] < Limit

\* allow: the limiter afterwards.
allow(l, a, now) ==
    IF allowed(l, a, now) THEN [Current(l, now) EXCEPT !.entries[a] = @ + 1]
    ELSE Current(l, now)

-----------------------------------------------------------------------------
\* The runs: the account of each challenge, the time since the one before passed the
\* limiter, and how long ago this one has read the clock.
Challenges == [account : Accounts, gap : 0..Window, late : 0..Lag]

\* A run so far: the time, the limiter, and each challenge with its reading.
RunStart == [time |-> 0, limiter |-> newChallengeRateLimiter, log |-> <<>>]

RunStep(run, c) ==
    LET time == run.time + c.gap
        now == time - c.late
    IN [time |-> time,
        limiter |-> allow(run.limiter, c.account, now),
        log |-> Append(run.log, [account |-> c.account, now |-> now,
                                 allowed |-> allowed(run.limiter, c.account, now)])]

Run(challenges) ==
    LET after[k \in 0..Len(challenges)] ==
            IF k = 0 THEN RunStart ELSE RunStep(after[k - 1], challenges[k])
    IN after[Len(challenges)]

Granted(log, a, from, to) ==
    {i \in DOMAIN log : /\ log[i].account = a /\ log[i].allowed
                        /\ from <= log[i].now /\ log[i].now <= to}

\* But for the lag, no interval as long as the window sees more than twice the limit
\* of one account (two windows may touch in it), and an account is only refused if
\* it was allowed Limit challenges in the interval that ends then.
WithinRate(log) ==
    \A i \in DOMAIN log :
        LET a == log[i].account
            now == log[i].now
        IN /\ Cardinality(Granted(log, a, now - (Window - Lag), now)) <= 2 * Limit
           /\ ~ log[i].allowed =>
                Cardinality({j \in Granted(log, a, now - Window - Lag, now + Lag) : j < i})
                    >= Limit

RunsWithinRate ==
    \A challenges \in [1..MaxChallenges -> Challenges] : WithinRate(Run(challenges).log)
=============================================================================
