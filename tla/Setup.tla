-------------------------------- MODULE Setup --------------------------------
(***************************************************************************)
(* How a node comes by its identity and its configuration: the init command*)
(* (cmd/init.go), the start command up to the point where it serves        *)
(* (cmd/start.go, config/config.go), LoadOrCreate (identity/identity.go),  *)
(* which both of them run, and the heartbeats (cmd/heartbeat.go).  Several *)
(* processes run at once, and each may end at any point: it fails, or is   *)
(* killed.                                                                 *)
(*                                                                         *)
(* All commands use one configuration file, and the coordinator's key      *)
(* beside it.  The signing key is in the data directory: the one that is   *)
(* given to init with --data, which init writes into the configuration, or *)
(* ./data where a configuration names none.                                *)
(*                                                                         *)
(* A process is known by its number, and so is the key pair it generates.  *)
(* The coordinator matches a registration by key and address, and there is *)
(* one address: a provider id is known by the key it was given for.        *)
(***************************************************************************)
EXTENDS Integers, FiniteSets

CONSTANTS
    Missing,   \* there is no such file
    Torn,      \* it was opened for writing, and is empty
    NoKey,
    DataPaths,      \* the data directories that operators name
    DefaultPath,    \* "./data"
    MaxRuns    \* bound: how many processes there are

Runs == 1..MaxRuns
Dirs == DataPaths \cup {DefaultPath}
NoId == -1      \* an empty provider_id
Legacy == 0     \* the id of a node registered by hand, with a placeholder for a key
Nobody == 0

ASSUME SetupAssumption ==
    /\ Missing # Torn
    /\ MaxRuns \in Nat \ {0}
    /\ {Missing, Torn, NoKey} \cap Int = {}

VARIABLES
    keyFile,    \* provider_identity.key in each directory: a key, Torn or Missing
    pem,        \* coordinator_pub.pem: the coordinator's key, Torn or Missing
    config,     \* config.yaml: provider id, whether there is an API key, and the
                \* data directory; or Torn or Missing
    procs,      \* the processes: kind, pc and memory
    runs,       \* how many there have been
    port,       \* which of them listens on the port, or Nobody
    registry,   \* external: the ids the coordinator has given
    reported    \* external: the <<id, key>> that heartbeats have reported

fileVars == <<keyFile, pem, config>>
remoteVars == <<registry, reported>>
setupVars == <<fileVars, procs, runs, port, remoteVars>>

-----------------------------------------------------------------------------
Ended == [kind |-> "none", pc |-> "ended", ident |-> NoKey, seed |-> NoKey,
          id |-> NoId, api |-> FALSE, dir |-> DefaultPath]

Config(id, api, dir) == [id |-> id, api |-> api, dir |-> dir]

\* A new machine, or one that was set up by hand before nodes had keys.
SetupInit ==
    /\ keyFile = [d \in Dirs |-> Missing]
    /\ \/ pem = Missing /\ config = Missing /\ registry = {}
       \/ \E dir \in DataPaths :
            pem = 1 /\ config = Config(Legacy, TRUE, dir) /\ registry = {Legacy}
    /\ procs = [n \in Runs |-> Ended]
    /\ runs = 0
    /\ port = Nobody
    /\ reported = {}

At(n, label) == procs[n].pc = label

Goto(n, label) == procs' = [procs EXCEPT ![n].pc = label]

\* The key file of the data directory that process n works in.
KeyOf(n) == keyFile[procs[n].dir]

Launch(kind, label, id, api, dir) ==
    /\ runs < MaxRuns
    /\ runs' = runs + 1
    /\ procs' = [procs EXCEPT ![runs + 1] =
                   [kind |-> kind, pc |-> label, ident |-> NoKey, seed |-> NoKey,
                    id |-> id, api |-> api, dir |-> dir]]
    /\ UNCHANGED <<fileVars, port, remoteVars>>

\* The process ends, with or without an error; its port is free again.
End(n) ==
    /\ ~ At(n, "ended")
    /\ procs' = [procs EXCEPT ![n] = Ended]
    /\ port' = IF port = n THEN Nobody ELSE port
    /\ UNCHANGED <<fileVars, runs, remoteVars>>

-----------------------------------------------------------------------------
\* Init: an existing configuration is only overwritten with --force.
Init(force, dir) ==
    /\ config = Missing \/ force
    /\ Launch("init", "fetch", NoId, FALSE, dir)

\* [1/5] the coordinator's key is fetched, and os.WriteFile truncates and writes.
fetchCoordinatorKey(n, key) ==
    /\ At(n, "fetch")
    /\ procs' = [procs EXCEPT ![n].pc = "pem", ![n].seed = key]
    /\ UNCHANGED <<fileVars, runs, port, remoteVars>>

TruncatePem(n) ==
    /\ At(n, "pem")
    /\ pem' = Torn
    /\ Goto(n, "pem open")
    /\ UNCHANGED <<keyFile, config, runs, port, remoteVars>>

WritePem(n) ==
    /\ At(n, "pem open")
    /\ pem' = procs[n].seed
    /\ Goto(n, "identity")
    /\ UNCHANGED <<keyFile, config, runs, port, remoteVars>>

\* Where a process goes with this identity.
WithIdentity(n, key) ==
    procs' = [procs EXCEPT ![n].ident = key,
                           ![n].pc = IF procs[n].kind = "init" THEN "config" ELSE "listen"]

\* Mutant: a key file that does not parse is replaced.
LoadOrCreateLenient(n) ==
    /\ At(n, "identity")
    /\ \/ KeyOf(n) \in Runs /\ WithIdentity(n, KeyOf(n))
       \/ KeyOf(n) = Missing /\ Goto(n, "create")
       \/ KeyOf(n) = Torn /\ Goto(n, "write")
    /\ UNCHANGED <<fileVars, runs, port, remoteVars>>

\* [2/5] LoadOrCreate: a file that does not parse is an error.
LoadOrCreate(n) ==
    /\ At(n, "identity")
    /\ \/ KeyOf(n) \in Runs /\ WithIdentity(n, KeyOf(n))
       \/ KeyOf(n) = Missing /\ Goto(n, "create")
    /\ UNCHANGED <<fileVars, runs, port, remoteVars>>

\* Mutant: the file is opened without O_EXCL.
CreateKeyShared(n) ==
    /\ At(n, "create")
    /\ keyFile' = [keyFile EXCEPT ![procs[n].dir] = Torn]
    /\ Goto(n, "write")
    /\ UNCHANGED <<pem, config, runs, port, remoteVars>>

\* generateAndPersist: the file is created, which with O_EXCL fails if another
\* process has been faster, and then written.
CreateKey(n) ==
    /\ At(n, "create")
    /\ KeyOf(n) = Missing
    /\ keyFile' = [keyFile EXCEPT ![procs[n].dir] = Torn]
    /\ Goto(n, "write")
    /\ UNCHANGED <<pem, config, runs, port, remoteVars>>

WriteKey(n) ==
    /\ At(n, "write")
    /\ keyFile' = [keyFile EXCEPT ![procs[n].dir] = n]
    /\ WithIdentity(n, n)
    /\ UNCHANGED <<pem, config, runs, port, remoteVars>>

\* [3/5] and the end of [5/5], writeConfig: truncated, then written without an API
\* key, first without and then with the provider id.
TruncateConfig(n) ==
    /\ \/ At(n, "config") /\ Goto(n, "config open")
       \/ At(n, "reconfig") /\ Goto(n, "reconfig open")
    /\ config' = Torn
    /\ UNCHANGED <<keyFile, pem, runs, port, remoteVars>>

writeConfig(n) ==
    /\ \/ At(n, "config open") /\ Goto(n, "listen") /\ UNCHANGED port
       \/ /\ At(n, "reconfig open")
          /\ procs' = [procs EXCEPT ![n] = Ended]
          /\ port' = Nobody
    /\ config' = Config(procs[n].id, FALSE, procs[n].dir)
    /\ UNCHANGED <<keyFile, pem, runs, remoteVars>>

\* Mutant: two processes share the port.
ListenShared(n) ==
    /\ At(n, "listen")
    /\ port' = n
    /\ Goto(n, IF procs[n].kind = "init" THEN "register" ELSE "serving")
    /\ UNCHANGED <<fileVars, runs, remoteVars>>

\* [4/5] serveTempHealth, and ListenAndServe of the start command.  (The probe of
\* init either succeeds or ends the process.)
Listen(n) ==
    /\ At(n, "listen")
    /\ port = Nobody
    /\ port' = n
    /\ Goto(n, IF procs[n].kind = "init" THEN "register" ELSE "serving")
    /\ UNCHANGED <<fileVars, runs, remoteVars>>

\* Mutant: the key stands for the id before the coordinator has answered.
registerEarly(n) ==
    /\ At(n, "register")
    /\ procs' = [procs EXCEPT ![n].pc = "reconfig", ![n].id = procs[n].ident]
    /\ UNCHANGED <<fileVars, runs, port, remoteVars>>

\* [5/5] register: the coordinator enters the node ...
register(n) ==
    /\ At(n, "register")
    /\ registry' = registry \cup {procs[n].ident}
    /\ Goto(n, "reply")
    /\ UNCHANGED <<fileVars, runs, port, reported>>

\* ... and answers with its id, if the answer is not lost.
Registered(n) ==
    /\ At(n, "reply")
    /\ procs' = [procs EXCEPT ![n].pc = "reconfig", ![n].id = procs[n].ident]
    /\ UNCHANGED <<fileVars, runs, port, remoteVars>>

-----------------------------------------------------------------------------
\* Start: config.Load fails if there is no file; an empty one is a configuration
\* without id, coordinator and API key, and with the default data directory.
Start ==
    \/ config = Torn /\ Launch("start", "seed", NoId, FALSE, DefaultPath)
    \/ /\ config \notin {Missing, Torn}
       /\ Launch("start", "seed", config.id, config.api, config.dir)

\* tokens.NewVerifier; LoadOrCreate and Listen follow.
LoadSeed(n) ==
    /\ At(n, "seed")
    /\ pem \notin {Missing, Torn}
    /\ procs' = [procs EXCEPT ![n].pc = "identity", ![n].seed = pem]
    /\ UNCHANGED <<fileVars, runs, port, remoteVars>>

\* One heartbeat that arrives: the coordinator knows the id, and is told the key.
tickHeartbeat(n) ==
    /\ At(n, "serving")
    /\ procs[n].id \in registry
    /\ reported' = reported \cup {<<procs[n].id, procs[n].ident>>}
    /\ UNCHANGED <<fileVars, procs, runs, port, registry>>

\* The operator has been given the API key and enters it.
EnterApiKey ==
    /\ config \notin {Missing, Torn}
    /\ config.id \in registry
    /\ ~ config.api
    /\ config' = Config(config.id, TRUE, config.dir)
    /\ UNCHANGED <<keyFile, pem, procs, runs, port, remoteVars>>

-----------------------------------------------------------------------------
Listening == {"register", "reply", "reconfig", "reconfig open", "serving"}

SetupTypeOK ==
    /\ keyFile \in [Dirs -> Runs \cup {Missing, Torn}]
    /\ config \notin {Missing, Torn} =>
         config.id \in Runs \cup {NoId, Legacy} /\ config.dir \in Dirs
    /\ \A n \in Runs : n > runs => procs[n] = Ended
    /\ \A n \in Runs : procs[n].ident \in Runs \cup {NoKey} /\ procs[n].dir \in Dirs
    /\ \A n \in Runs : port = n <=> procs[n].pc \in Listening
    /\ registry \subseteq Runs \cup {Legacy}

\* identity/identity.go:43-49, 94-97: a key that has been written is never replaced
\* in its directory, whichever commands run at once and wherever they break off ...
IdentityKept ==
    [][\A d \in Dirs : keyFile[d] \in Runs => keyFile'[d] = keyFile[d]]_setupVars

\* ... and nothing else passes for the node's identity: the key that a process signs
\* proofs with is the one in its data directory, so that the next start in that
\* directory has it too; only such keys are registered; and the coordinator, which
\* checks proofs against the key that heartbeats report for an id, is never told two
\* keys for one id.  (It is not said that the next start is in that directory: one that
\* reads an empty configuration works in ./data, with a key of its own and no id.)
OneIdentity ==
    /\ \A n \in Runs : procs[n].ident \in {NoKey, KeyOf(n)}
    /\ registry \subseteq {Legacy} \cup {keyFile[d] : d \in Dirs}
    /\ \A r, s \in reported : r[1] = s[1] => r[2] = s[2]

\* cmd/init.go:54-56: "a label there means the node never comes alive": an id in the
\* configuration, and one a process heartbeats with, is one that the coordinator has
\* given for this node, also if answers are lost and init is run again.
IdRegistered ==
    /\ config \notin {Missing, Torn} => config.id \in registry \cup {NoId}
    /\ \A n \in Runs : procs[n].id \in registry \cup {NoId}
=============================================================================
