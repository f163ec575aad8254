------------------------- MODULE SignedDeleteProofs -------------------------
(***************************************************************************)
(* Proofs about SignedDelete for any number of requests, commands, cache   *)
(* entries and ticks, and for any drift window, TTL and Lag with           *)
(* 2 * Drift + Lag <= TTL.                                                 *)
(*                                                                         *)
(* Why it holds: a command used at time t was issued no later than         *)
(* t + Drift, so it is stale after t + 2 * Drift, and its entry expires at *)
(* t + TTL.  Remembered and Timed say this without t, relative to the time *)
(* the command was issued, and hold whether the entry is still in the cache*)
(* or was cleaned up.                                                      *)
(***************************************************************************)
EXTENDS SignedDelete, TLAPS

\* A request between its drift check and its nonce check has a recent `now' at
\* which its command was fresh.
Timed(p) ==
    pc[p] = "timed" =>
        /\ now[p] <= clock
        /\ clock - now[p] <= Lag
        /\ now[p] - cmd[p].issued >= - Drift
        /\ now[p] - cmd[p].issued <= Drift

\* The time until which the cache has to remember command c at least.
Horizon(c) == c.issued - Drift + TTL

\* A command that was used is in the cache until then, or it is past then.
Remembered(c, cache, t) ==
    LET k == CacheKey(c) IN
        \/ cache[k] # Absent /\ cache[k] >= Horizon(c)
        \/ cache[k] = Absent /\ t > Horizon(c)

IInv ==
    /\ TypeOK
    /\ \A p \in Requests : Timed(p)
    /\ \A c \in Commands : uses[c] # 0 => uses[c] = 1 /\ Remembered(c, nonces, clock)

-----------------------------------------------------------------------------
\* What the steps need to know of a command.
LEMMA CommandFields ==
    ASSUME NEW c \in Commands
    PROVE  /\ c.issued \in Int
           /\ CacheKey(c) \in CacheKeys
           /\ Horizon(c) \in Int
           /\ c # NoCommand
  BY SignedDeleteAssumption DEF CacheKey, CacheKeys, Horizon

\* The clean-up of the cache at a time that is not in the future keeps what has
\* to be remembered.
LEMMA CleanedRemembers ==
    ASSUME TypeOK, NEW t \in Time, t <= clock, NEW c \in Commands,
           Remembered(c, nonces, clock)
    PROVE  /\ Cleaned(t) \in [CacheKeys -> Int]
           /\ Remembered(c, Cleaned(t), clock)
<1>1. CacheKey(c) \in CacheKeys /\ Horizon(c) \in Int
  BY CommandFields
<1>2. clock \in Int /\ t \in Int
  BY SignedDeleteAssumption DEF TypeOK, Time
<1>3. nonces \in [CacheKeys -> Int]
  BY DEF TypeOK
<1>4. Cleaned(t) \in [CacheKeys -> Int]
  BY <1>3 DEF Cleaned, Absent
<1>5. \/ Cleaned(t)[CacheKey(c)] = nonces[CacheKey(c)]
      \/ Cleaned(t)[CacheKey(c)] = Absent /\ t > nonces[CacheKey(c)]
  BY <1>1 DEF Cleaned
<1>6. QED
  BY <1>1, <1>2, <1>3, <1>4, <1>5 DEF Remembered, Absent

\* The clean-up yields a cache.
LEMMA CleanedType ==
    ASSUME TypeOK, NEW t \in Time
    PROVE  Cleaned(t) \in [CacheKeys -> Int]
  BY DEF TypeOK, Cleaned, Absent

\* The heart of the argument: nonceCache.Check finds every command that was used
\* before, as long as the command passes the drift check.
LEMMA UsedIsSeen ==
    ASSUME IInv, NEW p \in Requests, pc[p] = "timed", uses[cmd[p]] # 0
    PROVE  LET kept == Cleaned(now[p])
               k == CacheKey(cmd[p])
           IN  kept[k] # Absent /\ now[p] < kept[k]
<1> DEFINE c == cmd[p]
<1>1. c \in Commands /\ now[p] \in Time /\ TypeOK
  BY DEF IInv, TypeOK
<1>2. /\ now[p] <= clock
      /\ clock - now[p] <= Lag
      /\ now[p] - c.issued <= Drift
  BY DEF IInv, Timed
<1>3. Remembered(c, nonces, clock)
  BY <1>1 DEF IInv
<1>4. Remembered(c, Cleaned(now[p]), clock) /\ Cleaned(now[p]) \in [CacheKeys -> Int]
  BY <1>1, <1>2, <1>3, CleanedRemembers
<1>5. /\ c.issued \in Int
      /\ CacheKey(c) \in CacheKeys
      /\ clock \in Int
      /\ now[p] \in Int
      /\ Cleaned(now[p])[CacheKey(c)] \in Int
  BY <1>1, <1>4, CommandFields, SignedDeleteAssumption DEF TypeOK, Time
<1> HIDE DEF c
<1>6. CASE Cleaned(now[p])[CacheKey(c)] # Absent
               /\ Cleaned(now[p])[CacheKey(c)] >= Horizon(c)
  BY <1>2, <1>5, <1>6, SignedDeleteAssumption DEF Horizon, c
<1>7. CASE clock > Horizon(c)
  BY <1>2, <1>5, <1>7, SignedDeleteAssumption DEF Horizon
<1>8. QED
  BY <1>4, <1>6, <1>7 DEF Remembered

\* The first start.
LEMMA InitIInv == Init => IInv
<1> SUFFICES ASSUME Init PROVE IInv
  OBVIOUS
<1>1. TypeOK
  <2>1. nonces \in [CacheKeys -> Int] /\ uses \in [Commands -> Nat]
    BY DEF Init, Absent
  <2>2. stored \in BOOLEAN
    BY DEF Init
  <2>3. \A p \in Requests : pc[p] = "idle"
    BY DEF Init
  <2>4. QED
    BY <2>1, <2>2, <2>3, SignedDeleteAssumption DEF Init, TypeOK, Time
<1>2. (\A p \in Requests : Timed(p)) /\ (\A c \in Commands : uses[c] = 0)
  BY DEF Init, Timed
<1>3. QED
  BY <1>1, <1>2 DEF IInv

\* The nonce check keeps the invariant.
LEMMA CheckNonceIInv ==
    ASSUME IInv, NEW p \in Requests, CheckNonce(p)
    PROVE  IInv'
<1> DEFINE kept == Cleaned(now[p])
           k == CacheKey(cmd[p])
           seen == kept[k] # Absent /\ now[p] < kept[k]
<1>1. /\ pc[p] = "timed"
      /\ cmd[p] \in Commands
      /\ now[p] \in Time
      /\ TypeOK
      /\ Timed(p)
  BY DEF CheckNonce, IInv, TypeOK
<1>2. /\ kept \in [CacheKeys -> Int]
      /\ k \in CacheKeys
      /\ now[p] \in Int
      /\ clock \in Int
      /\ cmd[p].issued \in Int
  BY <1>1, CleanedType, CommandFields, SignedDeleteAssumption DEF TypeOK, Time
<1>3. \A c \in Commands : uses[c] # 0 => uses[c] = 1 /\ Remembered(c, kept, clock)
  <2> SUFFICES ASSUME NEW c \in Commands, uses[c] # 0
               PROVE  uses[c] = 1 /\ Remembered(c, kept, clock)
    OBVIOUS
  <2>1. uses[c] = 1 /\ Remembered(c, nonces, clock)
    BY DEF IInv
  <2>2. QED
    BY <1>1, <2>1, CleanedRemembers DEF Timed
<1>4. UNCHANGED <<clock, owner, stored, uploads, restarts>>
  BY DEF CheckNonce
<1>5. CASE seen /\ nonces' = kept /\ Respond(p) /\ UNCHANGED uses
  <2>1. TypeOK'
    BY <1>1, <1>2, <1>4, <1>5, SignedDeleteAssumption DEF TypeOK, Respond, Time
  <2>2. \A q \in Requests : Timed(q)'
    BY <1>4, <1>5 DEF IInv, TypeOK, Timed, Respond
  <2>3. \A c \in Commands : (uses[c] # 0 => uses[c] = 1 /\ Remembered(c, nonces, clock))'
    BY <1>3, <1>4, <1>5 DEF Remembered, Horizon, CacheKey
  <2>4. QED
    BY <2>1, <2>2, <2>3 DEF IInv
<1>6. CASE /\ ~ seen
           /\ nonces' = [kept EXCEPT ![k] = now[p] + TTL]
           /\ pc' = [pc EXCEPT ![p] = "accepted"]
           /\ uses' = [uses EXCEPT ![cmd[p]] = @ + 1]
           /\ UNCHANGED <<cmd, now>>
  <2>1. uses[cmd[p]] = 0
    BY <1>1, <1>6, UsedIsSeen
  <2>2. TypeOK'
    BY <1>1, <1>2, <1>4, <1>6, SignedDeleteAssumption DEF TypeOK
  <2>3. \A q \in Requests : Timed(q)'
    BY <1>4, <1>6 DEF IInv, TypeOK, Timed
  <2>4. ASSUME NEW c \in Commands, uses'[c] # 0
        PROVE  uses'[c] = 1 /\ Remembered(c, nonces', clock')
    <3>0. c.issued \in Int /\ CacheKey(c) \in CacheKeys /\ nonces'[CacheKey(c)] \in Int
      BY <2>2, CommandFields DEF TypeOK
    <3>1. CASE c = cmd[p]
      <4>1. uses'[c] = 1
        BY <1>1, <1>6, <2>1, <3>1 DEF TypeOK
      <4>2. nonces'[CacheKey(c)] = now[p] + TTL
        BY <1>2, <1>6, <3>1
      <4>3. now[p] + TTL >= Horizon(c) /\ now[p] + TTL # Absent
        BY <1>1, <1>2, <3>1, SignedDeleteAssumption DEF Timed, Horizon, Absent, Time
      <4>4. QED
        BY <4>1, <4>2, <4>3 DEF Remembered
    <3>2. CASE c # cmd[p] /\ CacheKey(c) # k
      <4>1. uses'[c] = uses[c] /\ nonces'[CacheKey(c)] = kept[CacheKey(c)]
        BY <1>1, <1>2, <1>6, <3>0, <3>2 DEF TypeOK
      <4>2. QED
        BY <1>3, <1>4, <2>4, <4>1 DEF Remembered, Horizon
    <3>3. CASE c # cmd[p] /\ CacheKey(c) = k
      <4>1. uses'[c] = uses[c] /\ nonces'[CacheKey(c)] = now[p] + TTL
        BY <1>1, <1>2, <1>6, <3>3 DEF TypeOK
      <4>2. uses[c] = 1 /\ Remembered(c, kept, clock)
        BY <1>3, <2>4, <4>1
      <4>3. now[p] + TTL >= Horizon(c) /\ now[p] + TTL # Absent
        <5>1. kept[k] \in Int /\ clock - now[p] <= Lag
          BY <1>1, <1>2 DEF Timed
        <5>2. CASE kept[k] # Absent /\ kept[k] >= Horizon(c)
          BY <1>1, <1>2, <1>6, <3>0, <5>1, <5>2, SignedDeleteAssumption
             DEF Horizon, Absent, Time
        <5>3. CASE clock > Horizon(c)
          BY <1>1, <1>2, <3>0, <5>1, <5>3, SignedDeleteAssumption
             DEF Horizon, Absent, Time
        <5>4. QED
          BY <3>3, <4>2, <5>2, <5>3 DEF Remembered
      <4>4. QED
        BY <4>1, <4>2, <4>3 DEF Remembered
    <3>4. QED
      BY <3>1, <3>2, <3>3
  <2>5. QED
    BY <2>2, <2>3, <2>4 DEF IInv, Remembered, Horizon, CacheKey
<1>7. QED
  BY <1>5, <1>6 DEF CheckNonce

\* Every step keeps the invariant.
LEMMA StepIInv == IInv /\ [Next]_vars => IInv'
<1> SUFFICES ASSUME IInv, [Next]_vars PROVE IInv'
  OBVIOUS
<1>0. /\ clock \in Int
      /\ \A c \in Commands : c.issued \in Int /\ Horizon(c) \in Int
                               /\ CacheKey(c) \in CacheKeys
  BY SignedDeleteAssumption, CommandFields DEF IInv, TypeOK, Time
<1> USE SignedDeleteAssumption DEF IInv, TypeOK, Time
<1>1. CASE Upload
  BY <1>1 DEF Upload, requestVars, Timed, Remembered, Horizon, CacheKey
<1>2. ASSUME NEW p \in Requests, NEW c \in Commands, ReadOwnership(p, c) PROVE IInv'
  BY <1>2 DEF ReadOwnership, Timed, Remembered, Horizon, CacheKey
<1>3. ASSUME NEW p \in Requests, CheckDrift(p) PROVE IInv'
  <2>1. TypeOK'
    BY <1>3 DEF CheckDrift, Respond
  <2>2. ASSUME NEW q \in Requests PROVE Timed(q)'
    BY <1>0, <1>3 DEF CheckDrift, Respond, Fresh, Timed
  <2>3. QED
    BY <1>3, <2>1, <2>2 DEF CheckDrift, Remembered, Horizon, CacheKey
<1>4. ASSUME NEW p \in Requests, CheckNonce(p) PROVE IInv'
  BY <1>4, CheckNonceIInv
<1>5. ASSUME NEW p \in Requests, Delete(p) PROVE IInv'
  <2>0. stored' \in BOOLEAN
    BY <1>5 DEF Delete
  <2>1. TypeOK'
    BY <1>5, <2>0 DEF Delete, Respond
  <2>2. ASSUME NEW q \in Requests PROVE Timed(q)'
    BY <1>5 DEF Delete, Respond, Timed
  <2>3. QED
    BY <1>5, <2>1, <2>2 DEF Delete, Remembered, Horizon, CacheKey
<1>6. CASE Restart
  BY <1>6 DEF Restart, Timed, Absent
<1>7. CASE Tick
  <2>1. TypeOK'
    BY <1>7 DEF Tick, requestVars
  <2>2. ASSUME NEW p \in Requests PROVE Timed(p)'
    BY <1>0, <1>7 DEF Tick, requestVars, Timed
  <2>3. ASSUME NEW c \in Commands, uses'[c] # 0
        PROVE  uses'[c] = 1 /\ Remembered(c, nonces', clock')
    BY <1>0, <1>7, <2>3 DEF Tick, Remembered
  <2>4. QED
    BY <2>1, <2>2, <2>3 DEF Remembered, Horizon, CacheKey
<1>8. CASE UNCHANGED vars
  BY <1>8 DEF vars, requestVars, Timed, Remembered, Horizon, CacheKey
<1>9. QED
  BY <1>1, <1>2, <1>3, <1>4, <1>5, <1>6, <1>7, <1>8 DEF Next

\* The types of the handler's state hold in every reachable state.
THEOREM SignedDeleteTypeCorrect == Spec => []TypeOK
<1>1. IInv => TypeOK
  BY DEF IInv
<1>2. QED
  BY InitIInv, StepIInv, <1>1, PTL DEF Spec

\* With a TTL of at least twice the drift window plus the time a request spends
\* between taking the time and checking its nonce (delete.go:40-44), no process
\* accepts a signed delete command twice.
THEOREM NoCommandReplayed == Spec => []NoReplay
<1>1. IInv => NoReplay
  BY DEF IInv, TypeOK, NoReplay
<1>2. QED
  BY InitIInv, StepIInv, <1>1, PTL DEF Spec
=============================================================================
