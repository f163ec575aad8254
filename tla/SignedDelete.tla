---------------------------- MODULE SignedDelete ----------------------------
(***************************************************************************)
(* POST /delete/{merkle} (api/delete.go) for one root, with the nonce cache*)
(* that keeps a command from being executed twice: several requests at     *)
(* once, the ownership record that uploads write and deletes remove, and   *)
(* restarts, which empty the cache.                                        *)
(*                                                                         *)
(* A command stands for a well-formed body; every other body is answered   *)
(* before anything changes.  The order of the four Removes in Store.Delete *)
(* is the business of Handlers; here a delete takes the object and its     *)
(* ownership record away at once.                                          *)
(***************************************************************************)
EXTENDS Integers, FiniteSets

CONSTANTS
    Requests,    \* request goroutines
    Owners,      \* owner signing keys
    NoOwner,     \* no ownership/<root>.json
    Nonces,
    Commands,    \* the signed commands that clients send, each any number of times
    NoCommand,
    Drift,       \* deleteCommandDriftWindow
    TTL,         \* deleteCommandNonceTTL
    Threshold,   \* the cache is cleaned when it has more entries (256)
    Lag,         \* most time between a request's time.Now() and its nonce check
    MaxUploads,  \* bound: how often the object is uploaded
    MaxRestarts, \* bound: how often the process restarts
    MaxTime      \* bound: the clock stops here

Time == 0..MaxTime
CacheKeys == Owners \X Nonces
Absent == -1

\* delete.go:40-43: "Twice the drift window plus headroom": the headroom has to
\* cover Lag.
ASSUME SignedDeleteAssumption ==
    /\ Commands \subseteq [signer : Owners, nonce : Nonces, issued : Int]
    /\ NoOwner \notin Owners
    /\ NoCommand \notin Commands
    /\ Drift \in Nat
    /\ TTL \in Nat
    /\ Lag \in Nat
    /\ 2 * Drift < TTL
    /\ 2 * Drift + Lag <= TTL
    /\ Threshold \in Nat
    /\ MaxUploads \in Nat
    /\ MaxRestarts \in Nat
    /\ MaxTime \in Nat

VARIABLES
    clock,      \* time.Now()
    owner,      \* the signing key in the ownership record, or NoOwner
    stored,     \* whether objects/<root> exists
    nonces,     \* nonceCache.entries: expiry, or Absent
    pc, cmd,    \* where each request stands, and with which command
    now,        \* the `now' of its drift check
    uses,       \* history: how often this process has accepted each command
    uploads, restarts

requestVars == <<pc, cmd, now>>
vars == <<clock, owner, stored, nonces, requestVars, uses, uploads, restarts>>

-----------------------------------------------------------------------------
Init ==
    /\ clock = 0
    /\ owner = NoOwner
    /\ stored = FALSE
    /\ nonces = [k \in CacheKeys |-> Absent]
    /\ pc = [p \in Requests |-> "idle"]
    /\ cmd = [p \in Requests |-> NoCommand]
    /\ now = [p \in Requests |-> 0]
    /\ uses = [c \in Commands |-> 0]
    /\ uploads = 0
    /\ restarts = 0

\* PutStream and PutOwnership, which is write-once; a token without both owner
\* keys leaves no record.
Upload ==
    /\ uploads < MaxUploads
    /\ uploads' = uploads + 1
    /\ stored' = TRUE
    /\ owner' \in IF owner = NoOwner THEN Owners \cup {NoOwner} ELSE {owner}
    /\ UNCHANGED <<clock, nonces, requestVars, uses, restarts>>

Respond(p) ==
    /\ pc' = [pc EXCEPT ![p] = "idle"]
    /\ cmd' = [cmd EXCEPT ![p] = NoCommand]
    /\ now' = [now EXCEPT ![p] = 0]

\* Mutant: the command is not carried to the later steps.
ReadOwnershipOnly(p, c) ==
    /\ pc[p] = "idle"
    /\ owner # NoOwner
    /\ c.signer = owner
    /\ pc' = [pc EXCEPT ![p] = "verified"]
    /\ UNCHANGED <<clock, owner, stored, nonces, cmd, now, uses, uploads,
                   restarts>>

\* Steps 1-7: the ownership record is read, the signature verified against it.
ReadOwnership(p, c) ==
    /\ pc[p] = "idle"
    /\ owner # NoOwner
    /\ c.signer = owner
    /\ pc' = [pc EXCEPT ![p] = "verified"]
    /\ cmd' = [cmd EXCEPT ![p] = c]
    /\ UNCHANGED <<clock, owner, stored, nonces, now, uses, uploads, restarts>>

\* Mutant: only commands from the past are checked.
FreshOneSided(c) == clock - c.issued <= Drift

Fresh(c) == clock - c.issued >= - Drift /\ clock - c.issued <= Drift

\* Step 8: the drift check, with the time the nonce check will use too.
CheckDrift(p) ==
    /\ pc[p] = "verified"
    /\ \/ /\ Fresh(cmd[p])
          /\ pc' = [pc EXCEPT ![p] = "timed"]
          /\ now' = [now EXCEPT ![p] = clock]
          /\ UNCHANGED cmd
       \/ /\ ~ Fresh(cmd[p])
          /\ Respond(p)
    /\ UNCHANGED <<clock, owner, stored, nonces, uses, uploads, restarts>>

Entries == {k \in CacheKeys : nonces[k] # Absent}

\* The cache after the opportunistic clean-up at time t.
Cleaned(t) ==
    [k \in CacheKeys |->
        IF Cardinality(Entries) > Threshold /\ t > nonces[k] THEN Absent ELSE nonces[k]]

CacheKey(c) == <<c.signer, c.nonce>>

\* Step 9: nonceCache.Check, under its mutex.
CheckNonce(p) ==
    /\ pc[p] = "timed"
    /\ LET kept == Cleaned(now[p])
           k == CacheKey(cmd[p])
           seen == kept[k] # Absent /\ now[p] < kept[k]
       IN \/ /\ seen
             /\ nonces' = kept
             /\ Respond(p)
             /\ UNCHANGED uses
          \/ /\ ~ seen
             /\ nonces' = [kept EXCEPT ![k] = now[p] + TTL]
             /\ pc' = [pc EXCEPT ![p] = "accepted"]
             /\ uses' = [uses EXCEPT ![cmd[p]] = @ + 1]
             /\ UNCHANGED <<cmd, now>>
    /\ UNCHANGED <<clock, owner, stored, uploads, restarts>>

\* Step 10, and the reply.
Delete(p) ==
    /\ pc[p] = "accepted"
    /\ stored' = FALSE
    /\ owner' = NoOwner
    /\ Respond(p)
    /\ UNCHANGED <<clock, nonces, uses, uploads, restarts>>

Restart ==
    /\ restarts < MaxRestarts
    /\ restarts' = restarts + 1
    /\ nonces' = [k \in CacheKeys |-> Absent]
    /\ pc' = [p \in Requests |-> "idle"]
    /\ cmd' = [p \in Requests |-> NoCommand]
    /\ now' = [p \in Requests |-> 0]
    /\ uses' = [c \in Commands |-> 0]
    /\ UNCHANGED <<clock, owner, stored, uploads>>

\* No request stays between its time.Now() and its nonce check for more than Lag.
Tick ==
    /\ clock < MaxTime
    /\ \A p \in Requests : pc[p] = "timed" => clock - now[p] < Lag
    /\ clock' = clock + 1
    /\ UNCHANGED <<owner, stored, nonces, requestVars, uses, uploads, restarts>>

Next ==
    \/ Upload
    \/ \E p \in Requests :
         \/ \E c \in Commands : ReadOwnership(p, c)
         \/ CheckDrift(p)
         \/ CheckNonce(p)
         \/ Delete(p)
    \/ Restart
    \/ Tick

Spec == Init /\ [][Next]_vars

-----------------------------------------------------------------------------
\* The type invariant.
TypeOK ==
    /\ clock \in Time
    /\ owner \in Owners \cup {NoOwner}
    /\ stored \in BOOLEAN
    /\ nonces \in [CacheKeys -> Int]
    /\ pc \in [Requests -> {"idle", "verified", "timed", "accepted"}]
    /\ cmd \in [Requests -> Commands \cup {NoCommand}]
    /\ \A p \in Requests : pc[p] # "idle" => cmd[p] \in Commands
    /\ now \in [Requests -> Time]
    /\ uses \in [Commands -> Nat]
    /\ uploads \in 0..MaxUploads
    /\ restarts \in 0..MaxRestarts

\* delete.go:40-43, 228: one process never executes a signed command twice,
\* however often and however late it is delivered, whatever the clean-up has
\* dropped from the cache by then and however the requests interleave.
NoReplay == \A c \in Commands : uses[c] <= 1
=============================================================================
