------------------------------ MODULE TrustList ------------------------------
(***************************************************************************)
(* The keys whose tokens a running provider accepts (tokens/tokens.go) and *)
(* the loop that learns them from the directory which the coordinator signs*)
(* (dirfetch/refresher.go).  The coordinator adds and removes storage      *)
(* authorities (DCs), and replaces its own key; an answer may be old, or   *)
(* altered on the way.                                                     *)
(*                                                                         *)
(* A signature is the key that made it.  The process these belong to, and  *)
(* the key it is seeded with, are the business of Setup and Node.          *)
(***************************************************************************)
EXTENDS Integers, Sequences, FiniteSets, Functions

CONSTANTS
    DCs,            \* keys that the directory may list
    NoVerify,
    MaxCoordKeys    \* bound: the keys the coordinator has, one after the other

CoordKeys == 1..MaxCoordKeys
Forged == 0

ASSUME TrustListAssumption == MaxCoordKeys \in Nat \ {0} /\ NoVerify \notin CoordKeys

VARIABLES
    coordKey,    \* external: the coordinator's key
    published,   \* external: every directory it has signed; the last is `directory'
    directory,
    pubs,        \* Verifier.pubs; empty while no provider is running
    todo,        \* the signers that RefreshOnce has still to add
    verifying,   \* the list that a Verify on its way has read, or NoVerify
    accepted     \* history: signers of the tokens this process has accepted

coordinatorVars == <<coordKey, published, directory>>
verifierVars == <<pubs, todo, verifying, accepted>>
trustVars == <<coordinatorVars, verifierVars>>

trusted == Range(pubs)

-----------------------------------------------------------------------------
TrustInit ==
    /\ coordKey = 1
    /\ directory = [key |-> 1, signers |-> {}]
    /\ published = {directory}
    /\ pubs = <<>> /\ todo = {} /\ verifying = NoVerify /\ accepted = {}

\* A process has loaded this seed, or has ended.
NewVerifier(seed) ==
    /\ pubs' = <<seed>> /\ todo' = {} /\ verifying' = NoVerify /\ accepted' = {}

NoVerifier ==
    /\ pubs' = <<>> /\ todo' = {} /\ verifying' = NoVerify /\ accepted' = {}

SeedKey == pubs[1]

\* Mutant: any directory will do.
SignedByAnyone(envelope) == TRUE

Signed(envelope) == envelope.key = SeedKey

\* Mutant: the list is rebuilt from each directory.
RefreshOnceRebuilds(envelope) ==
    /\ todo = {}
    /\ Signed(envelope)
    /\ todo' = envelope.signers
    /\ pubs' = <<SeedKey>>
    /\ UNCHANGED <<coordinatorVars, verifying, accepted>>

\* RefreshOnce up to its loop.  A directory that the seed key has not signed, and an
\* answer that is not a directory, change nothing.
RefreshOnce(envelope) ==
    /\ todo = {}
    /\ Signed(envelope)
    /\ todo' = envelope.signers
    /\ UNCHANGED <<coordinatorVars, pubs, verifying, accepted>>

\* Mutant: a key that cannot be added at once is passed over.
AddKeyOrSkip(k) ==
    /\ k \in todo
    /\ todo' = todo \ {k}
    /\ pubs' = IF k \in trusted \/ verifying # NoVerify THEN pubs ELSE Append(pubs, k)
    /\ UNCHANGED <<coordinatorVars, verifying, accepted>>

\* One round of the loop, under the write lock.
AddKey(k) ==
    /\ k \in todo
    /\ todo' = todo \ {k}
    /\ pubs' = IF k \in trusted THEN pubs ELSE Append(pubs, k)
    /\ UNCHANGED <<coordinatorVars, verifying, accepted>>

\* Verify reads the list under the read lock ...
Verify ==
    /\ pubs # <<>>
    /\ verifying = NoVerify
    /\ verifying' = pubs
    /\ UNCHANGED <<coordinatorVars, pubs, todo, accepted>>

\* ... and searches it without the lock, for the signer k of the token; the token
\* may have expired.
VerifyEnds(k, expired) ==
    /\ verifying # NoVerify
    /\ verifying' = NoVerify
    /\ accepted' = IF k \in Range(verifying) /\ ~ expired THEN accepted \cup {k} ELSE accepted
    /\ UNCHANGED <<coordinatorVars, pubs, todo>>

-----------------------------------------------------------------------------
\* The coordinator signs a new directory, or the present one with a new key.
Publish(key, signers) ==
    /\ coordKey' = key
    /\ directory' = [key |-> key, signers |-> signers]
    /\ published' = published \cup {directory'}
    /\ UNCHANGED verifierVars

PublishSigners(signers) == signers # directory.signers /\ Publish(coordKey, signers)
RotateKey == coordKey + 1 \in CoordKeys /\ Publish(coordKey + 1, directory.signers)

\* What the provider may be given for a directory.
Answers == published \cup [key : {Forged}, signers : SUBSET DCs]

-----------------------------------------------------------------------------
TrustTypeOK ==
    /\ coordKey \in CoordKeys
    /\ published \subseteq [key : CoordKeys, signers : SUBSET DCs]
    /\ directory \in published
    /\ pubs = <<>> \/ SeedKey \in CoordKeys
    /\ todo \subseteq DCs
    /\ verifying # NoVerify => Range(verifying) \subseteq CoordKeys \cup DCs

\* dirfetch/refresher.go:56-67, 223-229: whatever the directory server answers, and
\* whatever key the coordinator has by now: each key that is trusted, and each key
\* of which a token has been accepted, is the seed or was published in a directory
\* that the seed has signed.
TrustRooted ==
    \A k \in trusted \cup accepted :
        \/ k = SeedKey
        \/ \E d \in published : d.key = SeedKey /\ k \in d.signers

\* dirfetch/refresher.go:63-67: a signer whose token has been accepted is trusted as
\* long as the process runs, also when the directory drops it.
AcceptedStaysTrusted == accepted \subseteq trusted
=============================================================================
