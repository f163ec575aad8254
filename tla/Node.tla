-------------------------------- MODULE Node --------------------------------
(***************************************************************************)
(* A provider's control plane: the processes of Setup, of which the one    *)
(* that serves has the verifier and the directory loop of TrustList, seeded*)
(* with the key it has loaded, and the rate limiter of client challenges.  *)
(***************************************************************************)
EXTENDS Setup, TrustList, RateLimiter

vars == <<setupVars, trustVars>>

NodeInit == SetupInit /\ TrustInit

Serving(n) == At(n, "serving")

\* Listening is where a start command begins to serve: its goroutines have started
\* shortly before, and end at once with the process if the port is taken.  A process
\* that ends takes its trust list with it.
Serve(n) ==
    /\ Listen(n)
    /\ IF procs[n].kind = "start" THEN NewVerifier(procs[n].seed) ELSE UNCHANGED verifierVars
    /\ UNCHANGED coordinatorVars

Exit(n) ==
    /\ End(n)
    /\ IF Serving(n) THEN NoVerifier ELSE UNCHANGED verifierVars
    /\ UNCHANGED coordinatorVars

\* The loop only runs if there is a coordinator and an API key.
Refresh(n, envelope) ==
    /\ Serving(n)
    /\ procs[n].api
    /\ RefreshOnce(envelope)
    /\ UNCHANGED setupVars

InitStep(n) ==
    \/ fetchCoordinatorKey(n, coordKey)
    \/ TruncatePem(n)
    \/ WritePem(n)
    \/ TruncateConfig(n)
    \/ writeConfig(n)
    \/ register(n)
    \/ Registered(n)

IdentityStep(n) == LoadOrCreate(n) \/ CreateKey(n) \/ WriteKey(n)

SetupNext ==
    \/ \E force \in BOOLEAN, dir \in DataPaths : Init(force, dir)
    \/ Start
    \/ EnterApiKey
    \/ \E n \in Runs :
         \/ InitStep(n)
         \/ LoadSeed(n)
         \/ IdentityStep(n)
         \/ tickHeartbeat(n)

AddKeys == \E k \in DCs : AddKey(k)

TrustNext ==
    \/ AddKeys
    \/ Verify
    \/ \E k \in CoordKeys \cup DCs \cup {Forged}, expired \in BOOLEAN : VerifyEnds(k, expired)
    \/ \E signers \in SUBSET DCs : PublishSigners(signers)
    \/ RotateKey

Next ==
    \/ SetupNext /\ UNCHANGED trustVars
    \/ TrustNext /\ UNCHANGED setupVars
    \/ \E n \in Runs :
         \/ Serve(n)
         \/ Exit(n)
         \/ \E envelope \in Answers : Refresh(n, envelope)

Spec == NodeInit /\ [][Next]_vars

\* Every minute the loop asks again, and the coordinator's answer is not lost every
\* time; the loop over the signers runs to its end.
Fairness ==
    /\ \A n \in Runs : SF_vars(Refresh(n, directory))
    /\ WF_vars(AddKeys /\ UNCHANGED setupVars)

FairSpec == Spec /\ Fairness

-----------------------------------------------------------------------------
\* The type invariant.
TypeOK == SetupTypeOK /\ TrustTypeOK

\* api/client_challenge.go:26-29, 57-60, 103: a provider that serves clients allows
\* each account at most twice the limit in any interval as long as the window less
\* the lag of a reading of the clock, wherever the windows fall and whatever other
\* accounts do to them, and it refuses nobody who has kept to the limit.
RateBound == (\E n \in Runs : Serving(n)) => RunsWithinRate

\* dirfetch/refresher.go:140-142, cmd/start.go:159-165: if a provider with an API
\* key stays up, its seed stays the coordinator's key and a DC stays in the
\* directory, then the DC comes to be trusted.
PublishedIsTrusted ==
    \A k \in DCs, n \in Runs :
        <>[](Serving(n) /\ procs[n].api /\ procs[n].seed = coordKey /\ k \in directory.signers)
            => <>[](k \in trusted)
=============================================================================
