----------------------------- MODULE NodeProofs -----------------------------
(***************************************************************************)
(* The safety properties of Node, for any number of processes, of storage  *)
(* authorities and of coordinator keys: first what Setup keeps about the   *)
(* node's identity and its registration, then what TrustList keeps about   *)
(* the keys that a provider trusts, and what RateLimiter keeps over a run  *)
(* of challenges of any length.                                            *)
(***************************************************************************)
EXTENDS Node, NaturalProofs, FiniteSetTheorems, TLAPS

Labels == {"ended", "fetch", "pem", "pem open", "seed", "identity", "create", "write",
           "config", "config open", "listen"} \cup Listening

Processes == [kind : {"none", "init", "start"}, pc : Labels,
              ident : Runs \cup {NoKey}, seed : CoordKeys \cup {NoKey},
              id : Runs \cup {NoId, Legacy}, api : BOOLEAN, dir : Dirs]

\* Labels of a process that has its identity.
Identified == {"config", "config open", "listen"} \cup Listening

\* Labels at which the coordinator's key is in hand.
Seeded == {"pem", "pem open", "identity", "create", "write"} \cup Identified

ProcsOK ==
    /\ procs \in [Runs -> Processes]
    /\ runs \in 0..MaxRuns
    /\ \A n \in Runs : n > runs => procs[n] = Ended
    /\ \A n \in Runs : procs[n].pc \in Identified => procs[n].ident # NoKey
    /\ \A n \in Runs : procs[n].pc \in Seeded => procs[n].seed # NoKey
    /\ \A n \in Runs : procs[n].pc = "serving" => procs[n].kind = "start"
    /\ \A n \in Runs : procs[n].kind = "none" => procs[n].pc = "ended"
    /\ port \in Runs \cup {Nobody}
    /\ \A n \in Runs : port = n <=> procs[n].pc \in Listening

FilesOK ==
    /\ keyFile \in [Dirs -> Runs \cup {Missing, Torn}]
    /\ pem \in CoordKeys \cup {Missing, Torn}
    /\ config \notin {Missing, Torn} =>
         config \in [id : Runs \cup {NoId, Legacy}, api : BOOLEAN, dir : Dirs]
    /\ registry \subseteq Runs \cup {Legacy}
    /\ reported \subseteq (Runs \cup {Legacy}) \X Runs

\* In each directory one process at most is about to write the key file, and it has
\* created it.
Creating ==
    /\ \A n \in Runs : procs[n].pc = "write" => KeyOf(n) = Torn
    /\ \A n, m \in Runs :
         procs[n].pc = "write" /\ procs[m].pc = "write" /\ procs[n].dir = procs[m].dir
           => n = m

\* The key in hand is the one in the directory, and no other is registered.
Identity ==
    /\ \A n \in Runs : procs[n].ident \in {NoKey, KeyOf(n)}
    /\ registry \subseteq {Legacy} \cup {keyFile[d] : d \in Dirs}

\* An id goes with one directory: the id of a key with the directory of that key, and
\* that of a node that was registered by hand with the directory home.
Names(home, id, dir) == (id = Legacy => dir = home) /\ (id \in Runs => keyFile[dir] = id)

Homed(home) ==
    /\ \A n \in Runs : Names(home, procs[n].id, procs[n].dir)
    /\ config \notin {Missing, Torn} => Names(home, config.id, config.dir)
    /\ \A r \in reported : r[2] = IF r[1] = Legacy THEN keyFile[home] ELSE r[1]

\* An id is in hand once the coordinator has entered the key.
Entered ==
    /\ IdRegistered
    /\ \A n \in Runs : procs[n].pc = "reply" => procs[n].ident \in registry

SetupInv ==
    ProcsOK /\ FilesOK /\ Creating /\ Identity /\ Entered /\ \E home \in Dirs : Homed(home)

-----------------------------------------------------------------------------
LEMMA NotAKey == NoKey \notin CoordKeys /\ NoKey \notin Runs
  BY SetupAssumption, TrustListAssumption DEF CoordKeys, Runs

LEMMA InitSetupInv == NodeInit => SetupInv
<1> SUFFICES ASSUME NodeInit PROVE SetupInv
  OBVIOUS
<1> USE SetupAssumption, TrustListAssumption DEF NodeInit, SetupInit, Runs
<1>1. Ended \in Processes /\ Ended.pc = "ended" /\ Ended.ident = NoKey /\ Ended.id = NoId
  BY DEF Ended, Processes, Labels, Dirs
<1>2. ProcsOK
  <2>1. \A n \in Runs : procs[n] = Ended
    OBVIOUS
  <2>2. Ended.pc \notin Identified /\ Ended.pc \notin Seeded /\ Ended.pc \notin Listening
    BY <1>1 DEF Identified, Seeded, Listening
  <2>3. port \in {Nobody} /\ \A n \in Runs : port # n
    BY DEF Nobody
  <2>4. procs \in [Runs -> Processes] /\ runs \in 0..MaxRuns
    BY <1>1
  <2>5. QED
    BY <1>1, <2>1, <2>2, <2>3, <2>4 DEF ProcsOK
<1>3. FilesOK
  <2>1. CASE pem = Missing /\ config = Missing /\ registry = {}
    BY <2>1 DEF FilesOK
  <2>2. CASE \E dir \in DataPaths :
               pem = 1 /\ config = Config(Legacy, TRUE, dir) /\ registry = {Legacy}
    <3>1. 1 \in CoordKeys
      BY DEF CoordKeys
    <3>2. config \in [id : Runs \cup {NoId, Legacy}, api : BOOLEAN, dir : Dirs]
      BY <2>2 DEF Config, Dirs
    <3>3. QED
      BY <2>2, <3>1, <3>2 DEF FilesOK
  <2>3. QED
    BY <2>1, <2>2
<1>4. Creating /\ Identity
  BY <1>1 DEF Creating, Identity
<1>5. Entered
  BY <1>1 DEF Entered, IdRegistered, Config
<1>6. \E home \in Dirs : Homed(home)
  <2>1. \A n \in Runs : procs[n].id = NoId
    BY <1>1
  <2>2. NoId \notin Runs /\ Legacy \notin Runs /\ NoId # Legacy
    BY DEF NoId, Legacy
  <2>3. CASE config = Missing
    BY <2>1, <2>2, <2>3 DEF Homed, Names, Dirs
  <2>4. CASE \E dir \in DataPaths : config = Config(Legacy, TRUE, dir)
    <3>1. PICK dir \in DataPaths : config = Config(Legacy, TRUE, dir)
      BY <2>4
    <3>2. config.id = Legacy /\ config.dir = dir
      BY <3>1 DEF Config
    <3>3. Homed(dir)
      BY <2>1, <2>2, <3>2 DEF Homed, Names
    <3>4. QED
      BY <3>3 DEF Dirs
  <2>5. QED
    BY <2>3, <2>4
<1>7. QED
  BY <1>2, <1>3, <1>4, <1>5, <1>6 DEF SetupInv

\* A new process changes none of the others.
LEMMA LaunchSetupInv ==
    ASSUME SetupInv,
           NEW kind \in {"init", "start"}, NEW label \in {"fetch", "seed"},
           NEW id \in registry \cup {NoId}, NEW api \in BOOLEAN, NEW dir \in Dirs,
           \/ id = NoId
           \/ config \notin {Missing, Torn} /\ id = config.id /\ dir = config.dir,
           Launch(kind, label, id, api, dir)
    PROVE  SetupInv'
<1> DEFINE new == [kind |-> kind, pc |-> label, ident |-> NoKey, seed |-> NoKey,
                   id |-> id, api |-> api, dir |-> dir]
<1> USE SetupAssumption DEF SetupInv, ProcsOK, FilesOK, Nobody, Runs, fileVars, remoteVars
<1>1. runs + 1 \in Runs /\ procs' = [procs EXCEPT ![runs + 1] = new]
  BY DEF Launch
<1>2. new \in Processes
  BY DEF Processes, Labels, Legacy
<1>3. UNCHANGED <<keyFile, pem, config, registry, reported, port>> /\ runs' = runs + 1
  BY DEF Launch
<1> HIDE DEF new
<1>4. ProcsOK'
  <2>1. new.pc \notin Identified /\ new.pc \notin Seeded /\ new.pc \notin Listening
    BY DEF new, Identified, Seeded, Listening
  <2>2. procs[runs + 1].pc = "ended"
    BY <1>1 DEF Ended
  <2>3. procs' \in [Runs -> Processes] /\ runs' \in 0..MaxRuns
    BY <1>1, <1>2, <1>3
  <2>4. \A n \in Runs : n > runs' => procs'[n] = Ended
    BY <1>1, <1>3
  <2>5. \A n \in Runs : /\ procs'[n].pc \in Identified => procs'[n].ident # NoKey
                        /\ procs'[n].pc \in Seeded => procs'[n].seed # NoKey
                        /\ procs'[n].pc = "serving" => procs'[n].kind = "start"
                        /\ procs'[n].kind = "none" => procs'[n].pc = "ended"
    BY <1>1, <2>1 DEF Listening, new
  <2>6. \A n \in Runs : port = n <=> procs'[n].pc \in Listening
    <3>1. port # runs + 1
      BY <1>1, <2>2 DEF Listening
    <3>2. QED
      BY <1>1, <2>1, <3>1
  <2>7. QED
    BY <1>3, <2>3, <2>4, <2>5, <2>6
<1>5. \A n \in Runs : procs'[n] = IF n = runs + 1 THEN new ELSE procs[n]
  BY <1>1
<1>6. Creating' /\ Identity' /\ Entered'
  BY <1>3, <1>5 DEF Creating, Identity, KeyOf, Entered, IdRegistered, new
<1>7. \A home \in Dirs : Homed(home) => Homed(home)'
  <2>1. NoId \notin Runs /\ NoId # Legacy
    BY DEF NoId, Legacy
  <2>2. new.id = id /\ new.dir = dir
    BY DEF new
  <2>3. QED
    BY <1>3, <1>5, <2>1, <2>2 DEF Homed, Names
<1>8. QED
  BY <1>3, <1>4, <1>6, <1>7

-----------------------------------------------------------------------------
\* Where a step of process n may take it, and the port, without breaking ProcsOK.
LEMMA MoveProcsOK ==
    ASSUME ProcsOK, NEW n \in Runs, NEW p \in Processes,
           procs[n].pc # "ended" \/ p = Ended,
           procs' = [procs EXCEPT ![n] = p], runs' = runs,
           p.pc \in Identified => p.ident # NoKey,
           p.pc \in Seeded => p.seed # NoKey,
           p.pc = "serving" => p.kind = "start",
           p.kind = "none" => p.pc = "ended",
           \/ port' = port /\ (p.pc \in Listening <=> procs[n].pc \in Listening)
           \/ port = Nobody /\ port' = n /\ p.pc \in Listening
           \/ port = n /\ port' = Nobody /\ p.pc \notin Listening
    PROVE  ProcsOK'
<1> USE SetupAssumption DEF ProcsOK, Nobody, Runs
<1>1. procs' \in [Runs -> Processes] /\ runs' \in 0..MaxRuns /\ port' \in Runs \cup {Nobody}
  OBVIOUS
<1>2. \A m \in Runs : m > runs' => procs'[m] = Ended
  <2>1. n > runs => p = Ended
    BY DEF Ended
  <2>2. QED
    BY <2>1
<1>3. \A m \in Runs : port' = m <=> procs'[m].pc \in Listening
  OBVIOUS
<1>4. QED
  BY <1>1, <1>2, <1>3

\* What a step may do to the files: no key is replaced, and a process writes its own
\* id and directory into the configuration.
KeysKept == \A d \in Dirs : keyFile[d] \in Runs => keyFile'[d] = keyFile[d]

ConfigFrom(n) == config' \in {config, Torn, Config(procs[n].id, FALSE, procs[n].dir)}

\* What else such a step must respect, if it leaves the coordinator's registry alone.
LEMMA MoveIdentity ==
    ASSUME SetupInv, FilesOK', NEW n \in Runs, NEW p \in Processes,
           procs' = [procs EXCEPT ![n] = p], KeysKept, ConfigFrom(n),
           UNCHANGED <<registry, reported>>,
           p.ident \in {NoKey, keyFile'[p.dir]},
           p.id # NoId => p.dir = procs[n].dir /\ p.id \in {procs[n].id, procs[n].ident},
           p.id \in registry \cup {NoId}, p.pc = "reply" => p.ident \in registry
    PROVE  Identity' /\ Entered' /\ \E home \in Dirs : Homed(home)'
<1>1. \A m \in Runs : procs'[m] = IF m = n THEN p ELSE procs[m]
  BY DEF SetupInv, ProcsOK
<1>2. \A m \in Runs : procs[m] \in Processes /\ procs[m].dir \in Dirs
  BY DEF SetupInv, ProcsOK, Processes
<1>3. /\ NoId \notin Runs /\ Legacy \notin Runs /\ NoKey \notin Runs
      /\ NoId # Legacy /\ NoKey # NoId /\ NoKey # Legacy
  BY SetupAssumption DEF NoId, Legacy, Runs
<1>4. \A m \in Runs : procs[m].ident # NoKey => keyFile[procs[m].dir] = procs[m].ident
                       /\ procs[m].ident \in Runs /\ keyFile'[procs[m].dir] = procs[m].ident
  BY <1>2, <1>3 DEF SetupInv, Identity, KeyOf, KeysKept, Processes
<1>5. Identity'
  <2>1. \A m \in Runs : procs'[m].ident \in {NoKey, keyFile'[procs'[m].dir]}
    BY <1>1, <1>4
  <2>2. registry' \subseteq {Legacy} \cup {keyFile'[d] : d \in Dirs}
    <3> SUFFICES ASSUME NEW k \in registry, k # Legacy
                 PROVE  \E d \in Dirs : k = keyFile'[d]
      OBVIOUS
    <3>1. k \in Runs /\ \E d \in Dirs : k = keyFile[d]
      BY DEF SetupInv, Identity, FilesOK
    <3>2. QED
      BY <3>1 DEF KeysKept
  <2>3. QED
    BY <2>1, <2>2 DEF Identity, KeyOf
<1>6. config' \notin {Missing, Torn} =>
        \/ config' = config
        \/ config'.id = procs[n].id /\ config'.dir = procs[n].dir
  BY DEF ConfigFrom, Config
<1>7. Entered'
  BY <1>1, <1>6 DEF SetupInv, Entered, IdRegistered
<1>8. PICK home \in Dirs : Homed(home)
  BY DEF SetupInv
<1>9. Homed(home)'
  <2> DEFINE NamesThen(id, dir) == /\ id = Legacy => dir = home
                                   /\ id \in Runs => keyFile'[dir] = id
  <2>1. ASSUME NEW id, NEW dir \in Dirs, Names(home, id, dir) PROVE NamesThen(id, dir)
    BY <2>1 DEF Names, KeysKept
  <2>2. NamesThen(p.id, p.dir)
    <3>1. CASE p.id = NoId
      BY <1>3, <3>1
    <3>2. CASE p.dir = procs[n].dir /\ p.id = procs[n].id
      BY <1>2, <1>8, <2>1, <3>2 DEF Homed
    <3>3. CASE p.dir = procs[n].dir /\ p.id = procs[n].ident
      <4>1. p.id \in Runs \cup {NoId, Legacy}
        BY DEF Processes
      <4>2. QED
        BY <1>3, <1>4, <3>3, <4>1
    <3>4. QED
      BY <3>1, <3>2, <3>3
  <2>3. \A m \in Runs : NamesThen(procs'[m].id, procs'[m].dir)
    <3>1. \A m \in Runs : Names(home, procs[m].id, procs[m].dir)
      BY <1>8 DEF Homed
    <3>2. \A m \in Runs : NamesThen(procs[m].id, procs[m].dir)
      BY <1>2, <2>1, <3>1
    <3> HIDE DEF NamesThen
    <3>3. QED
      BY <1>1, <2>2, <3>2
  <2>4. config' \notin {Missing, Torn} => NamesThen(config'.id, config'.dir)
    <3>1. CASE config' = config /\ config \notin {Missing, Torn}
      <4>1. config.dir \in Dirs
        BY <3>1 DEF SetupInv, FilesOK
      <4>2. QED
        BY <1>8, <2>1, <3>1, <4>1 DEF Homed
    <3>2. CASE config'.id = procs[n].id /\ config'.dir = procs[n].dir
      BY <1>2, <1>8, <2>1, <3>2 DEF Homed
    <3>3. QED
      BY <1>6, <3>1, <3>2
  <2>5. \A r \in reported : r[2] = IF r[1] = Legacy THEN keyFile'[home] ELSE r[1]
    <3> SUFFICES ASSUME NEW r \in reported
                 PROVE  r[2] = IF r[1] = Legacy THEN keyFile'[home] ELSE r[1]
      OBVIOUS
    <3>1. r[2] \in Runs /\ r[2] = IF r[1] = Legacy THEN keyFile[home] ELSE r[1]
      BY <1>8 DEF Homed, SetupInv, FilesOK
    <3>2. QED
      BY <3>1 DEF KeysKept
  <2>6. QED
    BY <2>3, <2>4, <2>5 DEF Homed, Names
<1>10. QED
  BY <1>5, <1>7, <1>9

\* Nobody else begins to create a key file.
LEMMA MoveCreating ==
    ASSUME SetupInv, NEW n \in Runs, NEW p \in Processes,
           procs' = [procs EXCEPT ![n] = p], keyFile' = keyFile, p.pc # "write"
    PROVE  Creating' /\ KeysKept
<1>1. \A m \in Runs : procs'[m] = IF m = n THEN p ELSE procs[m]
  BY DEF SetupInv, ProcsOK
<1>2. QED
  BY <1>1 DEF SetupInv, Creating, KeyOf, KeysKept

-----------------------------------------------------------------------------
LEMMA Alive ==
    ASSUME SetupInv
    PROVE  \A n \in Runs : procs[n].pc # "ended" => procs[n].kind # "none"
  BY DEF SetupInv, ProcsOK

\* The steps that write neither the key file nor the configuration, and learn
\* nothing but the coordinator's key.
LEMMA SeedSetupInv ==
    ASSUME SetupInv, coordKey \in CoordKeys, NEW n \in Runs,
           \/ fetchCoordinatorKey(n, coordKey) \/ TruncatePem(n) \/ WritePem(n)
           \/ LoadSeed(n)
    PROVE  SetupInv'
<1> USE SetupAssumption DEF At, Goto, fileVars, remoteVars
<1>1. procs[n] \in Processes /\ procs[n].ident \in {NoKey, keyFile[procs[n].dir]}
      /\ procs[n].id \in registry \cup {NoId}
  BY DEF SetupInv, ProcsOK, Identity, KeyOf, Entered, IdRegistered
<1>2. /\ UNCHANGED <<keyFile, config, runs, port, registry, reported>>
      /\ pem' \in CoordKeys \cup {Missing, Torn}
  <2>1. CASE WritePem(n)
    <3>1. procs[n].seed \in CoordKeys
      BY <1>1, <2>1 DEF WritePem, SetupInv, ProcsOK, Processes, Seeded
    <3>2. QED
      BY <2>1, <3>1 DEF WritePem
  <2>2. QED
    BY <2>1 DEF fetchCoordinatorKey, TruncatePem, LoadSeed, SetupInv, FilesOK
<1>3. PICK p \in Processes :
        /\ procs' = [procs EXCEPT ![n] = p]
        /\ p.pc \in {"pem", "pem open", "identity"}
        /\ procs[n].pc \in {"fetch", "pem", "pem open", "seed"}
        /\ p.ident = procs[n].ident /\ p.id = procs[n].id /\ p.seed # NoKey
        /\ p.kind = procs[n].kind /\ p.dir = procs[n].dir
  <2>1. CASE fetchCoordinatorKey(n, coordKey)
    <3> DEFINE p == [procs[n] EXCEPT !.pc = "pem", !.seed = coordKey]
    <3>1. p \in Processes /\ p.seed # NoKey /\ p.ident = procs[n].ident
          /\ p.id = procs[n].id /\ p.kind = procs[n].kind
          /\ p.dir = procs[n].dir /\ p.pc = "pem"
      BY <1>1, NotAKey DEF Processes, Labels
    <3>2. procs' = [procs EXCEPT ![n] = p] /\ procs[n].pc = "fetch"
      BY <2>1 DEF fetchCoordinatorKey, SetupInv, ProcsOK
    <3>3. QED
      BY <3>1, <3>2
  <2>2. CASE TruncatePem(n)
    <3> DEFINE p == [procs[n] EXCEPT !.pc = "pem open"]
    <3>1. procs' = [procs EXCEPT ![n] = p] /\ procs[n].pc = "pem"
      BY <2>2 DEF TruncatePem, SetupInv, ProcsOK
    <3>2. p \in Processes /\ p.seed # NoKey /\ p.ident = procs[n].ident
          /\ p.id = procs[n].id /\ p.kind = procs[n].kind
          /\ p.dir = procs[n].dir /\ p.pc = "pem open"
      BY <1>1, <3>1 DEF Processes, Labels, SetupInv, ProcsOK, Seeded
    <3>3. QED
      BY <3>1, <3>2
  <2>3. CASE WritePem(n)
    <3> DEFINE p == [procs[n] EXCEPT !.pc = "identity"]
    <3>1. procs' = [procs EXCEPT ![n] = p] /\ procs[n].pc = "pem open"
      BY <2>3 DEF WritePem, SetupInv, ProcsOK
    <3>2. p \in Processes /\ p.seed # NoKey /\ p.ident = procs[n].ident
          /\ p.id = procs[n].id /\ p.kind = procs[n].kind
          /\ p.dir = procs[n].dir /\ p.pc = "identity"
      BY <1>1, <3>1 DEF Processes, Labels, SetupInv, ProcsOK, Seeded
    <3>3. QED
      BY <3>1, <3>2
  <2>4. CASE LoadSeed(n)
    <3> DEFINE p == [procs[n] EXCEPT !.pc = "identity", !.seed = pem]
    <3>0. pem \in CoordKeys
      BY <2>4 DEF LoadSeed, SetupInv, FilesOK
    <3>1. p \in Processes /\ p.seed # NoKey /\ p.ident = procs[n].ident
          /\ p.id = procs[n].id /\ p.kind = procs[n].kind
          /\ p.dir = procs[n].dir /\ p.pc = "identity"
      BY <1>1, <3>0, NotAKey DEF Processes, Labels
    <3>2. procs' = [procs EXCEPT ![n] = p] /\ procs[n].pc = "seed"
      BY <2>4 DEF LoadSeed, SetupInv, ProcsOK
    <3>3. QED
      BY <3>1, <3>2
  <2>5. QED
    BY <2>1, <2>2, <2>3, <2>4
<1>4. ProcsOK'
  BY <1>2, <1>3, MoveProcsOK, Alive DEF Identified, Listening, SetupInv
<1>5. FilesOK'
  BY <1>2 DEF SetupInv, FilesOK
<1>6. Creating' /\ KeysKept
  BY <1>2, <1>3, MoveCreating
<1>7. Identity' /\ Entered' /\ \E home \in Dirs : Homed(home)'
  BY <1>1, <1>2, <1>3, <1>5, <1>6, MoveIdentity DEF ConfigFrom
<1>8. QED
  BY <1>4, <1>5, <1>6, <1>7 DEF SetupInv

\* LoadOrCreate, up to the exclusive creation of the file.
LEMMA LoadSetupInv ==
    ASSUME SetupInv, NEW n \in Runs, LoadOrCreate(n)
    PROVE  SetupInv'
<1> USE SetupAssumption DEF At, Goto, WithIdentity, fileVars, remoteVars
<1> DEFINE key == keyFile[procs[n].dir]
<1>1. /\ procs[n] \in Processes /\ procs[n].ident \in {NoKey, key}
      /\ procs[n].id \in registry \cup {NoId} /\ procs[n].seed # NoKey
      /\ procs[n].pc = "identity"
  BY DEF LoadOrCreate, SetupInv, ProcsOK, Identity, KeyOf, Entered, IdRegistered, Seeded
<1>2. UNCHANGED <<keyFile, pem, config, runs, port, registry, reported>>
  BY DEF LoadOrCreate
<1>3. PICK p \in Processes :
        /\ procs' = [procs EXCEPT ![n] = p]
        /\ p.pc \in {"create", "config", "listen"}
        /\ p.pc \in {"config", "listen"} => p.ident # NoKey
        /\ p.ident \in {NoKey, key} /\ p.id = procs[n].id /\ p.dir = procs[n].dir
        /\ p.seed = procs[n].seed /\ p.kind = procs[n].kind
  <2>1. CASE key \in Runs /\ WithIdentity(n, key)
    <3> DEFINE label == IF procs[n].kind = "init" THEN "config" ELSE "listen"
               p == [procs[n] EXCEPT !.ident = key, !.pc = label]
    <3>1. key # NoKey
      BY <2>1 DEF Runs
    <3>2. /\ p \in Processes /\ p.pc \in {"config", "listen"} /\ p.ident = key
          /\ p.dir = procs[n].dir
          /\ p.id = procs[n].id /\ p.seed = procs[n].seed /\ p.kind = procs[n].kind
      BY <1>1, <2>1 DEF Processes, Labels
    <3>3. procs' = [procs EXCEPT ![n] = p]
      BY <2>1 DEF SetupInv, ProcsOK
    <3>4. QED
      BY <3>1, <3>2, <3>3
  <2>2. CASE key = Missing /\ Goto(n, "create")
    <3> DEFINE p == [procs[n] EXCEPT !.pc = "create"]
    <3>1. /\ p \in Processes /\ p.pc = "create" /\ p.ident = procs[n].ident
          /\ p.dir = procs[n].dir
          /\ p.id = procs[n].id /\ p.seed = procs[n].seed /\ p.kind = procs[n].kind
      BY <1>1 DEF Processes, Labels
    <3>2. procs' = [procs EXCEPT ![n] = p]
      BY <2>2 DEF SetupInv, ProcsOK
    <3>3. QED
      BY <1>1, <3>1, <3>2
  <2>3. QED
    BY <2>1, <2>2 DEF LoadOrCreate, KeyOf
<1>4. ProcsOK'
  BY <1>1, <1>2, <1>3, MoveProcsOK, Alive DEF Identified, Seeded, Listening, SetupInv
<1>5. FilesOK'
  BY <1>2 DEF SetupInv, FilesOK
<1>6. Creating' /\ KeysKept
  BY <1>2, <1>3, MoveCreating
<1>7. Identity' /\ Entered' /\ \E home \in Dirs : Homed(home)'
  BY <1>1, <1>2, <1>3, <1>5, <1>6, MoveIdentity DEF ConfigFrom
<1>8. QED
  BY <1>4, <1>5, <1>6, <1>7 DEF SetupInv

\* O_EXCL: the file did not exist, so that nobody is writing it.
LEMMA CreateSetupInv ==
    ASSUME SetupInv, NEW n \in Runs, CreateKey(n)
    PROVE  SetupInv'
<1> USE SetupAssumption DEF At, Goto, remoteVars
<1> DEFINE p == [procs[n] EXCEPT !.pc = "write"]
           dir == procs[n].dir
<1>1. /\ UNCHANGED <<pem, config, runs, port, registry, reported>>
      /\ keyFile[dir] = Missing /\ keyFile' = [keyFile EXCEPT ![dir] = Torn]
      /\ procs' = [procs EXCEPT ![n] = p] /\ procs[n].pc = "create"
  BY DEF CreateKey, KeyOf, SetupInv, ProcsOK
<1>2. procs[n] \in Processes /\ procs[n].seed # NoKey /\ dir \in Dirs
      /\ procs[n].id \in registry \cup {NoId}
  BY <1>1 DEF SetupInv, ProcsOK, Seeded, Processes, Entered, IdRegistered
<1>3. /\ p \in Processes /\ p.pc = "write" /\ p.ident = procs[n].ident /\ p.dir = dir
      /\ p.id = procs[n].id /\ p.seed # NoKey /\ p.kind = procs[n].kind
  BY <1>2 DEF Processes, Labels
<1> HIDE DEF p
<1>4. ProcsOK'
  BY <1>1, <1>3, MoveProcsOK, Alive DEF Identified, Listening, SetupInv
<1>5. FilesOK'
  BY <1>1, <1>2 DEF SetupInv, FilesOK
<1>6. /\ \A d \in Dirs : keyFile'[d] = IF d = dir THEN Torn ELSE keyFile[d]
      /\ \A m \in Runs : procs'[m] = IF m = n THEN p ELSE procs[m]
      /\ \A m \in Runs : procs[m].dir \in Dirs
  BY <1>1, <1>2 DEF SetupInv, ProcsOK, FilesOK, Processes
<1>7. \A m \in Runs : procs[m].pc = "write" => procs[m].dir # dir
  BY <1>1 DEF SetupInv, Creating, KeyOf
<1>8. Creating'
  BY <1>3, <1>6, <1>7 DEF Creating, KeyOf, SetupInv
<1>9. KeysKept
  BY <1>1, <1>6 DEF KeysKept, Runs
<1>10. p.ident = NoKey
  BY <1>1, <1>2, <1>3 DEF SetupInv, Identity, KeyOf, Processes, Runs
<1>11. Identity' /\ Entered' /\ \E home \in Dirs : Homed(home)'
  BY <1>1, <1>2, <1>3, <1>5, <1>9, <1>10, MoveIdentity DEF ConfigFrom
<1>12. QED
  BY <1>4, <1>5, <1>8, <1>11 DEF SetupInv

\* The file is still as it was created: the key becomes the only one.
LEMMA WriteSetupInv ==
    ASSUME SetupInv, NEW n \in Runs, WriteKey(n)
    PROVE  SetupInv'
<1> USE SetupAssumption DEF At, WithIdentity, remoteVars
<1> DEFINE label == IF procs[n].kind = "init" THEN "config" ELSE "listen"
           p == [procs[n] EXCEPT !.ident = n, !.pc = label]
           dir == procs[n].dir
<1>1. /\ UNCHANGED <<pem, config, runs, port, registry, reported>>
      /\ keyFile[dir] = Torn /\ keyFile' = [keyFile EXCEPT ![dir] = n]
      /\ procs' = [procs EXCEPT ![n] = p] /\ procs[n].pc = "write"
  BY DEF WriteKey, KeyOf, SetupInv, ProcsOK, Creating
<1>2. procs[n] \in Processes /\ procs[n].seed # NoKey /\ n # NoKey /\ dir \in Dirs
      /\ procs[n].id \in registry \cup {NoId}
  BY <1>1, NotAKey DEF SetupInv, ProcsOK, Seeded, Processes, Entered, IdRegistered
<1>3. /\ p \in Processes /\ p.pc \in {"config", "listen"} /\ p.ident = n /\ p.dir = dir
      /\ p.id = procs[n].id /\ p.seed # NoKey /\ p.kind = procs[n].kind
  BY <1>2 DEF Processes, Labels
<1> HIDE DEF p
<1>4. ProcsOK'
  BY <1>1, <1>2, <1>3, MoveProcsOK, Alive DEF Identified, Listening, SetupInv
<1>5. FilesOK'
  BY <1>1, <1>2 DEF SetupInv, FilesOK
<1>6. /\ \A d \in Dirs : keyFile'[d] = IF d = dir THEN n ELSE keyFile[d]
      /\ \A m \in Runs : procs'[m] = IF m = n THEN p ELSE procs[m]
      /\ \A m \in Runs : procs[m].dir \in Dirs
  BY <1>1, <1>2 DEF SetupInv, ProcsOK, FilesOK, Processes
<1>7. Creating'
  BY <1>1, <1>3, <1>6 DEF Creating, KeyOf, SetupInv
<1>8. KeysKept
  BY <1>1, <1>6 DEF KeysKept, Runs
<1>9. /\ p.ident \in {NoKey, keyFile'[p.dir]} /\ p.id \in registry \cup {NoId}
      /\ p.id # NoId => p.dir = procs[n].dir /\ p.id \in {procs[n].id, procs[n].ident}
      /\ p.pc # "reply" /\ ConfigFrom(n)
  BY <1>1, <1>2, <1>3, <1>6 DEF ConfigFrom
<1> HIDE DEF dir, label
<1>10. Identity' /\ Entered' /\ \E home \in Dirs : Homed(home)'
  BY <1>1, <1>3, <1>5, <1>8, <1>9, MoveIdentity
<1>11. QED
  BY <1>4, <1>5, <1>7, <1>10 DEF SetupInv

\* A process that ends, itself or by force, takes nothing with it but the port.
LEMMA EndSetupInv ==
    ASSUME SetupInv, NEW n \in Runs, procs' = [procs EXCEPT ![n] = Ended],
           port' = (IF port = n THEN Nobody ELSE port), runs' = runs, FilesOK',
           UNCHANGED <<keyFile, registry, reported>>, ConfigFrom(n)
    PROVE  SetupInv'
<1>1. /\ Ended \in Processes /\ Ended.ident = NoKey /\ Ended.id = NoId
      /\ Ended.pc = "ended"
  BY DEF Ended, Processes, Labels, Dirs
<1>2. Ended.pc \notin Identified /\ Ended.pc \notin Seeded /\ Ended.pc \notin Listening
  BY <1>1 DEF Identified, Seeded, Listening
<1>3. ProcsOK'
  BY <1>1, <1>2, MoveProcsOK DEF SetupInv, ProcsOK
<1>4. Creating' /\ KeysKept
  BY <1>1, MoveCreating
<1>5. Identity' /\ Entered' /\ \E home \in Dirs : Homed(home)'
  BY <1>1, <1>4, MoveIdentity
<1>6. QED
  BY <1>3, <1>4, <1>5 DEF SetupInv

\* A step that only moves the label on.
LEMMA GotoSetupInv ==
    ASSUME SetupInv, NEW n \in Runs, NEW label \in Labels, Goto(n, label), runs' = runs,
           procs[n].pc \in Identified, label \in Identified \ {"reply"},
           label = "serving" => procs[n].kind = "start",
           \/ port' = port /\ (label \in Listening <=> procs[n].pc \in Listening)
           \/ port = Nobody /\ port' = n /\ label \in Listening,
           FilesOK', UNCHANGED <<keyFile, registry, reported>>, ConfigFrom(n)
    PROVE  SetupInv'
<1> DEFINE p == [procs[n] EXCEPT !.pc = label]
<1>1. /\ procs[n] \in Processes /\ procs[n].ident \in {NoKey, keyFile[procs[n].dir]}
      /\ procs[n].id \in registry \cup {NoId}
      /\ procs[n].ident # NoKey /\ procs[n].seed # NoKey /\ procs[n].pc # "ended"
  BY DEF SetupInv, ProcsOK, Identity, KeyOf, Entered, IdRegistered, Identified, Seeded,
         Listening
<1>2. /\ p \in Processes /\ p.pc = label /\ p.ident = procs[n].ident
      /\ p.dir = procs[n].dir
      /\ p.id = procs[n].id /\ p.seed = procs[n].seed /\ p.kind = procs[n].kind
  BY <1>1 DEF Processes
<1>3. procs' = [procs EXCEPT ![n] = p]
  BY DEF Goto, SetupInv, ProcsOK
<1> HIDE DEF p
<1>4. ProcsOK'
  BY <1>1, <1>2, <1>3, MoveProcsOK, Alive DEF SetupInv
<1>5. label # "write"
  BY DEF Identified, Listening
<1>6. Creating' /\ KeysKept
  BY <1>2, <1>3, <1>5, MoveCreating
<1>7. Identity' /\ Entered' /\ \E home \in Dirs : Homed(home)'
  BY <1>1, <1>2, <1>3, <1>6, MoveIdentity
<1>8. QED
  BY <1>4, <1>6, <1>7 DEF SetupInv

LEMMA TruncateConfigSetupInv ==
    ASSUME SetupInv, NEW n \in Runs, TruncateConfig(n)
    PROVE  SetupInv'
<1> USE DEF At, remoteVars
<1>1. config' = Torn /\ UNCHANGED <<keyFile, pem, runs, port, registry, reported>>
  BY DEF TruncateConfig
<1>2. FilesOK' /\ ConfigFrom(n)
  BY <1>1 DEF SetupInv, FilesOK, ConfigFrom
<1>3. CASE At(n, "config") /\ Goto(n, "config open")
  BY <1>1, <1>2, <1>3, GotoSetupInv DEF Labels, Identified, Listening
<1>4. CASE At(n, "reconfig") /\ Goto(n, "reconfig open")
  BY <1>1, <1>2, <1>4, GotoSetupInv DEF Labels, Identified, Listening
<1>5. QED
  BY <1>3, <1>4 DEF TruncateConfig

LEMMA WriteConfigSetupInv ==
    ASSUME SetupInv, NEW n \in Runs, writeConfig(n)
    PROVE  SetupInv'
<1> USE DEF At, remoteVars
<1>1. config' = Config(procs[n].id, FALSE, procs[n].dir)
      /\ UNCHANGED <<keyFile, pem, runs, registry, reported>>
  BY DEF writeConfig
<1>2. procs[n].id \in Runs \cup {NoId, Legacy} /\ procs[n].dir \in Dirs
  BY DEF SetupInv, ProcsOK, Processes
<1>3. ConfigFrom(n)
  BY <1>1 DEF ConfigFrom
<1>4. FilesOK'
  BY <1>1, <1>2 DEF SetupInv, FilesOK, Config
<1>5. CASE At(n, "config open") /\ Goto(n, "listen") /\ UNCHANGED port
  BY <1>1, <1>3, <1>4, <1>5, GotoSetupInv DEF Labels, Identified, Listening
<1>6. CASE At(n, "reconfig open") /\ procs' = [procs EXCEPT ![n] = Ended] /\ port' = Nobody
  <2>1. port = n
    BY <1>6 DEF SetupInv, ProcsOK, Listening
  <2>2. QED
    BY <1>1, <1>3, <1>4, <1>6, <2>1, EndSetupInv
<1>7. QED
  BY <1>5, <1>6 DEF writeConfig

LEMMA ListenSetupInv ==
    ASSUME SetupInv, NEW n \in Runs, Listen(n)
    PROVE  SetupInv'
<1> USE DEF At, fileVars, remoteVars
<1> DEFINE label == IF procs[n].kind = "init" THEN "register" ELSE "serving"
<1>1. /\ UNCHANGED <<keyFile, pem, config, runs, registry, reported>>
      /\ procs[n].pc = "listen" /\ port = Nobody /\ port' = n /\ Goto(n, label)
  BY DEF Listen
<1>2. FilesOK' /\ ConfigFrom(n)
  BY <1>1 DEF SetupInv, FilesOK, ConfigFrom
<1>3. procs[n].kind \in {"init", "start"}
  BY <1>1 DEF SetupInv, ProcsOK, Processes
<1>4. label \in Labels /\ label \in Identified \ {"reply"} /\ label \in Listening
  BY DEF Labels, Identified, Listening
<1>5. procs[n].pc \in Identified
  BY <1>1 DEF Identified
<1> HIDE DEF label
<1>6. label = "serving" => procs[n].kind = "start"
  BY <1>3 DEF label
<1>7. QED
  BY <1>1, <1>2, <1>4, <1>5, <1>6, GotoSetupInv

LEMMA ExitSetupInv ==
    ASSUME SetupInv, NEW n \in Runs, End(n)
    PROVE  SetupInv'
<1> USE DEF fileVars, remoteVars
<1>1. FilesOK' /\ ConfigFrom(n)
  BY DEF End, SetupInv, FilesOK, ConfigFrom
<1>2. QED
  BY <1>1, EndSetupInv DEF End

\* The coordinator enters the key that is in the file, and no other.
LEMMA RegisterSetupInv ==
    ASSUME SetupInv, NEW n \in Runs, register(n)
    PROVE  SetupInv'
<1> USE DEF At, Goto, fileVars
<1> DEFINE p == [procs[n] EXCEPT !.pc = "reply"]
<1>1. /\ UNCHANGED <<keyFile, pem, config, runs, port, reported>>
      /\ registry' = registry \cup {procs[n].ident}
      /\ procs' = [procs EXCEPT ![n] = p] /\ procs[n].pc = "register"
  BY DEF register, SetupInv, ProcsOK
<1>2. /\ procs[n] \in Processes /\ procs[n].seed # NoKey
      /\ procs[n].ident # NoKey /\ procs[n].ident = keyFile[procs[n].dir]
      /\ procs[n].dir \in Dirs
  BY <1>1 DEF SetupInv, ProcsOK, Identity, KeyOf, Seeded, Identified, Listening, Processes
<1>3. /\ p \in Processes /\ p.pc = "reply" /\ p.ident = procs[n].ident
      /\ p.dir = procs[n].dir
      /\ p.id = procs[n].id /\ p.seed = procs[n].seed /\ p.kind = procs[n].kind
  BY <1>2 DEF Processes, Labels, Listening
<1> HIDE DEF p
<1>4. ProcsOK'
  BY <1>1, <1>2, <1>3, MoveProcsOK, Alive DEF Listening, SetupInv
<1>5. FilesOK'
  BY <1>1, <1>2 DEF SetupInv, FilesOK, Processes
<1>6. \A k \in Runs : procs'[k].ident = procs[k].ident /\ procs'[k].id = procs[k].id
                      /\ procs'[k].dir = procs[k].dir
                      /\ (procs'[k].pc \in {"reply", "write"} => k = n \/ procs'[k] = procs[k])
  BY <1>1, <1>3 DEF SetupInv, ProcsOK
<1>7. Creating'
  BY <1>1, <1>3, <1>6 DEF Creating, KeyOf, SetupInv, ProcsOK
<1>8. Identity' /\ \A home \in Dirs : Homed(home) => Homed(home)'
  BY <1>1, <1>2, <1>6 DEF Identity, KeyOf, Homed, Names, SetupInv
<1>9. Entered'
  BY <1>1, <1>6 DEF Entered, IdRegistered, SetupInv
<1>10. QED
  BY <1>4, <1>5, <1>7, <1>8, <1>9 DEF SetupInv

LEMMA RegisteredSetupInv ==
    ASSUME SetupInv, NEW n \in Runs, Registered(n)
    PROVE  SetupInv'
<1> USE DEF At, fileVars, remoteVars
<1> DEFINE p == [procs[n] EXCEPT !.pc = "reconfig", !.id = procs[n].ident]
<1>1. /\ UNCHANGED <<keyFile, pem, config, runs, port, registry, reported>>
      /\ procs' = [procs EXCEPT ![n] = p] /\ procs[n].pc = "reply"
  BY DEF Registered, SetupInv, ProcsOK
<1>2. /\ procs[n] \in Processes /\ procs[n].seed # NoKey
      /\ procs[n].ident # NoKey /\ procs[n].ident = keyFile[procs[n].dir]
      /\ procs[n].ident \in registry
  BY <1>1 DEF SetupInv, ProcsOK, Identity, KeyOf, Entered, Seeded, Identified, Listening
<1>3. /\ p \in Processes /\ p.pc = "reconfig" /\ p.ident = procs[n].ident
      /\ p.dir = procs[n].dir
      /\ p.id = procs[n].ident /\ p.seed = procs[n].seed /\ p.kind = procs[n].kind
  BY <1>2 DEF Processes, Labels, Listening
<1> HIDE DEF p
<1>4. ProcsOK'
  BY <1>1, <1>2, <1>3, MoveProcsOK, Alive DEF Listening, SetupInv
<1>5. FilesOK'
  BY <1>1 DEF SetupInv, FilesOK
<1>6. Creating' /\ KeysKept
  BY <1>1, <1>3, MoveCreating
<1>7. Identity' /\ Entered' /\ \E home \in Dirs : Homed(home)'
  BY <1>1, <1>2, <1>3, <1>5, <1>6, MoveIdentity DEF ConfigFrom
<1>8. QED
  BY <1>4, <1>5, <1>6, <1>7 DEF SetupInv

\* A heartbeat reports the key in the file, under the id that goes with it.
LEMMA HeartbeatSetupInv ==
    ASSUME SetupInv, NEW n \in Runs, tickHeartbeat(n)
    PROVE  SetupInv'
<1> USE DEF At, fileVars
<1>1. /\ UNCHANGED <<keyFile, pem, config, procs, runs, port, registry>>
      /\ reported' = reported \cup {<<procs[n].id, procs[n].ident>>}
      /\ procs[n].id \in registry /\ procs[n].pc = "serving"
  BY DEF tickHeartbeat
<1>2. procs[n].ident = keyFile[procs[n].dir] /\ procs[n].ident \in Runs
      /\ procs[n].id \in Runs \cup {Legacy}
  BY <1>1 DEF SetupInv, ProcsOK, FilesOK, Identity, KeyOf, Identified, Listening, Processes
<1>3. FilesOK'
  BY <1>1, <1>2 DEF SetupInv, FilesOK
<1>4. \A home \in Dirs : Homed(home) => Homed(home)'
  <2> SUFFICES ASSUME NEW home \in Dirs, Homed(home) PROVE Homed(home)'
    OBVIOUS
  <2>1. procs[n].ident = IF procs[n].id = Legacy THEN keyFile[home] ELSE procs[n].id
    BY <1>2 DEF Homed, Names
  <2>2. \A r \in reported' : r[2] = IF r[1] = Legacy THEN keyFile[home] ELSE r[1]
    BY <1>1, <2>1 DEF Homed
  <2>3. QED
    BY <1>1, <2>2 DEF Homed, Names
<1>5. ProcsOK' /\ Creating' /\ Identity' /\ Entered'
  BY <1>1 DEF SetupInv, ProcsOK, Creating, Identity, KeyOf, Entered, IdRegistered
<1>6. QED
  BY <1>3, <1>4, <1>5 DEF SetupInv

LEMMA EnterApiKeySetupInv ==
    ASSUME SetupInv, EnterApiKey
    PROVE  SetupInv'
<1>1. /\ UNCHANGED <<keyFile, pem, procs, runs, port, registry, reported>>
      /\ config \notin {Missing, Torn} /\ config' = Config(config.id, TRUE, config.dir)
      /\ config.id \in registry
  BY DEF EnterApiKey, remoteVars
<1>2. config'.id = config.id /\ config'.dir = config.dir
  BY <1>1 DEF Config
<1>3. FilesOK'
  BY <1>1 DEF SetupInv, FilesOK, Config
<1>4. Entered' /\ \A home \in Dirs : Homed(home) => Homed(home)'
  BY <1>1, <1>2 DEF SetupInv, Entered, IdRegistered, Homed, Names
<1>5. ProcsOK' /\ Creating' /\ Identity'
  BY <1>1 DEF SetupInv, ProcsOK, Creating, Identity, KeyOf
<1>6. QED
  BY <1>3, <1>4, <1>5 DEF SetupInv

\* Both commands start with an id that the coordinator has given, or none.
LEMMA CommandSetupInv ==
    ASSUME SetupInv, Start \/ \E force \in BOOLEAN, dir \in DataPaths : Init(force, dir)
    PROVE  SetupInv'
<1>1. CASE \E force \in BOOLEAN, dir \in DataPaths : Init(force, dir)
  BY <1>1, LaunchSetupInv DEF Init, Dirs
<1>2. CASE config = Torn /\ Launch("start", "seed", NoId, FALSE, DefaultPath)
  BY <1>2, LaunchSetupInv DEF Dirs
<1>3. CASE /\ config \notin {Missing, Torn}
           /\ Launch("start", "seed", config.id, config.api, config.dir)
  <2>1. config.id \in registry \cup {NoId} /\ config.api \in BOOLEAN /\ config.dir \in Dirs
    BY <1>3 DEF SetupInv, FilesOK, Entered, IdRegistered
  <2>2. QED
    BY <1>3, <2>1, LaunchSetupInv
<1>4. QED
  BY <1>1, <1>2, <1>3 DEF Start

-----------------------------------------------------------------------------
Keys == CoordKeys \cup DCs

\* A signer in a directory that the key s has signed.
Vouched(s, k) == \E d \in published : d.key = s /\ k \in d.signers

TrustInv ==
    /\ coordKey \in CoordKeys
    /\ published \subseteq [key : CoordKeys, signers : SUBSET DCs]
    /\ directory \in published
    /\ pubs \in Seq(Keys)
    /\ pubs = <<>> => todo = {} /\ verifying = NoVerify /\ accepted = {}
    /\ pubs # <<>> => SeedKey \in CoordKeys
    /\ todo \subseteq DCs
    /\ \A k \in todo : Vouched(SeedKey, k)
    /\ verifying # NoVerify => Range(verifying) \subseteq trusted
    /\ TrustRooted
    /\ AcceptedStaysTrusted

\* A process that serves has a trust list.
Linked == \A n \in Runs : procs[n].pc = "serving" => pubs # <<>>

LEMMA RangeEmpty == Range(<<>>) = {}
  BY DEF Range

LEMMA RangeSingle == ASSUME NEW k PROVE Range(<<k>>) = {k}
  BY DEF Range

LEMMA RangeAppend ==
    ASSUME NEW S, NEW s \in Seq(S), NEW k \in S
    PROVE  Range(Append(s, k)) = Range(s) \cup {k}
<1>1. DOMAIN Append(s, k) = DOMAIN s \cup {Len(s) + 1}
  OBVIOUS
<1>2. \A i \in DOMAIN s : Append(s, k)[i] = s[i]
  OBVIOUS
<1>3. Append(s, k)[Len(s) + 1] = k
  OBVIOUS
<1>4. QED
  BY <1>1, <1>2, <1>3, Zenon DEF Range

LEMMA AppendKeepsSeed ==
    ASSUME NEW S, NEW s \in Seq(S), NEW k \in S, s # <<>>
    PROVE  Append(s, k)[1] = s[1] /\ Append(s, k) # <<>> /\ Append(s, k) \in Seq(S)
  OBVIOUS

LEMMA InitTrustInv == NodeInit => TrustInv /\ Linked
<1> SUFFICES ASSUME NodeInit PROVE TrustInv /\ Linked
  OBVIOUS
<1> USE TrustListAssumption DEF NodeInit, TrustInit
<1>1. 1 \in CoordKeys
  BY DEF CoordKeys
<1>2. published \subseteq [key : CoordKeys, signers : SUBSET DCs] /\ directory \in published
  BY <1>1
<1>3. TrustRooted /\ AcceptedStaysTrusted
  BY RangeEmpty DEF TrustRooted, AcceptedStaysTrusted, trusted
<1>4. Linked
  BY DEF Linked, SetupInit, Ended
<1>5. QED
  BY <1>1, <1>2, <1>3, <1>4 DEF TrustInv

-----------------------------------------------------------------------------
\* The verifier of a process that begins to serve, and of none.
LEMMA NewVerifierTrustInv ==
    ASSUME TrustInv, NEW seed \in CoordKeys, NewVerifier(seed), UNCHANGED coordinatorVars
    PROVE  TrustInv' /\ pubs' # <<>>
<1> USE DEF NewVerifier, coordinatorVars
<1>1. pubs' \in Seq(Keys) /\ pubs' # <<>> /\ pubs'[1] = seed
  BY DEF Keys
<1>2. Range(pubs') = {seed}
  BY RangeSingle
<1>3. TrustRooted' /\ AcceptedStaysTrusted'
  BY <1>1, <1>2 DEF TrustRooted, AcceptedStaysTrusted, trusted, SeedKey
<1>4. QED
  BY <1>1, <1>3 DEF TrustInv, SeedKey

LEMMA NoVerifierTrustInv ==
    ASSUME TrustInv, NoVerifier, UNCHANGED coordinatorVars
    PROVE  TrustInv'
<1> USE DEF NoVerifier, coordinatorVars
<1>1. TrustRooted' /\ AcceptedStaysTrusted'
  BY RangeEmpty DEF TrustRooted, AcceptedStaysTrusted, trusted
<1>2. QED
  BY <1>1 DEF TrustInv

\* A directory that a process takes over is one that its seed has signed, as the
\* seed is a key of the coordinator and a forged envelope has none.
LEMMA RefreshTrustInv ==
    ASSUME TrustInv, pubs # <<>>, NEW envelope \in Answers, RefreshOnce(envelope)
    PROVE  TrustInv' /\ pubs' = pubs
<1>1. /\ UNCHANGED <<coordKey, published, directory, pubs, verifying, accepted>>
      /\ envelope.key = SeedKey /\ todo' = envelope.signers
  BY DEF RefreshOnce, Signed, coordinatorVars
<1>2. Forged \notin CoordKeys
  BY TrustListAssumption DEF Forged, CoordKeys
<1>3. envelope \in published
  BY <1>1, <1>2 DEF Answers, TrustInv
<1>4. \A k \in todo' : Vouched(SeedKey, k)
  BY <1>1, <1>3 DEF Vouched
<1>5. todo' \subseteq DCs
  BY <1>1, <1>3 DEF TrustInv
<1>6. QED
  BY <1>1, <1>4, <1>5 DEF TrustInv, Vouched, SeedKey, trusted, TrustRooted, AcceptedStaysTrusted

\* A key that is added is one that a directory vouches for.
LEMMA AddKeyTrustInv ==
    ASSUME TrustInv, NEW k \in DCs, AddKey(k)
    PROVE  TrustInv' /\ pubs # <<>> /\ pubs' # <<>>
<1>1. /\ UNCHANGED <<coordKey, published, directory, verifying, accepted>>
      /\ k \in todo /\ todo' = todo \ {k}
  BY DEF AddKey, coordinatorVars
<1>2. pubs # <<>> /\ pubs \in Seq(Keys) /\ k \in Keys
  BY <1>1 DEF TrustInv, Keys
<1>3. /\ pubs' \in Seq(Keys) /\ pubs' # <<>> /\ pubs'[1] = pubs[1]
      /\ Range(pubs) \subseteq Range(pubs') /\ Range(pubs') \subseteq Range(pubs) \cup {k}
  BY <1>2, RangeAppend, AppendKeepsSeed DEF AddKey
<1>4. TrustRooted'
  BY <1>1, <1>3 DEF TrustInv, TrustRooted, Vouched, trusted, SeedKey
<1>5. AcceptedStaysTrusted'
  BY <1>1, <1>3 DEF TrustInv, AcceptedStaysTrusted, trusted
<1>6. \A x \in todo' : Vouched(SeedKey, x)'
  BY <1>1, <1>3 DEF TrustInv, Vouched, SeedKey
<1>7. verifying' # NoVerify => Range(verifying') \subseteq trusted'
  BY <1>1, <1>3 DEF TrustInv, trusted
<1>8. QED
  BY <1>1, <1>2, <1>3, <1>4, <1>5, <1>6, <1>7 DEF TrustInv, SeedKey

\* Verify works on a list of which every key is still trusted when it ends.
LEMMA VerifyTrustInv ==
    ASSUME TrustInv,
           Verify \/ \E k \in Keys \cup {Forged}, expired \in BOOLEAN : VerifyEnds(k, expired)
    PROVE  TrustInv' /\ pubs' = pubs
<1>1. UNCHANGED <<coordKey, published, directory, pubs, todo>>
  BY DEF Verify, VerifyEnds, coordinatorVars
<1>2. pubs # <<>>
  BY DEF Verify, VerifyEnds, TrustInv
<1>3. accepted' \subseteq trusted /\ (verifying' # NoVerify => Range(verifying') \subseteq trusted)
  BY DEF Verify, VerifyEnds, TrustInv, AcceptedStaysTrusted, trusted
<1>4. TrustRooted' /\ AcceptedStaysTrusted'
  BY <1>1, <1>3 DEF TrustInv, TrustRooted, AcceptedStaysTrusted, trusted, SeedKey
<1>5. QED
  BY <1>1, <1>2, <1>3, <1>4 DEF TrustInv, Vouched, trusted, SeedKey

\* What the coordinator has signed stays signed.
LEMMA PublishTrustInv ==
    ASSUME TrustInv, NEW key \in CoordKeys, NEW signers \in SUBSET DCs, Publish(key, signers)
    PROVE  TrustInv' /\ pubs' = pubs
<1>1. UNCHANGED <<pubs, todo, verifying, accepted>> /\ published \subseteq published'
  BY DEF Publish, verifierVars
<1>2. /\ coordKey' \in CoordKeys /\ directory' \in published'
      /\ published' \subseteq [key : CoordKeys, signers : SUBSET DCs]
  BY DEF Publish, TrustInv
<1>3. \A k : Vouched(SeedKey, k) => Vouched(SeedKey, k)'
  BY <1>1 DEF Vouched, SeedKey
<1>4. TrustRooted' /\ AcceptedStaysTrusted'
  BY <1>1 DEF TrustInv, TrustRooted, AcceptedStaysTrusted, trusted, SeedKey
<1>5. QED
  BY <1>1, <1>2, <1>3, <1>4 DEF TrustInv, trusted, SeedKey

-----------------------------------------------------------------------------
NodeInv == SetupInv /\ TrustInv /\ Linked

\* Only one process listens, and it is the one with the trust list.
LEMMA OneServes ==
    ASSUME SetupInv, NEW n \in Runs, NEW m \in Runs, procs[n].pc = "serving",
           procs[m].pc = "serving"
    PROVE  n = m
<1>1. port = n /\ port = m
  BY DEF SetupInv, ProcsOK, Listening
<1>2. QED
  BY <1>1

LEMMA ServeNodeInv == ASSUME NodeInv, NEW n \in Runs, Serve(n) PROVE NodeInv'
<1> USE DEF NodeInv
<1>1. SetupInv'
  BY ListenSetupInv DEF Serve
<1>2. procs[n].pc = "listen" /\ port = Nobody
  BY DEF Serve, Listen, At
<1>3. \A m \in Runs : m # n => procs'[m] = procs[m]
  BY DEF Serve, Listen, Goto, SetupInv, ProcsOK
<1>4. \A m \in Runs : procs[m].pc # "serving"
  <2>1. Nobody \notin Runs
    BY DEF Nobody, Runs
  <2>2. QED
    BY <1>2, <2>1 DEF SetupInv, ProcsOK, Listening
<1>5. CASE procs[n].kind = "start"
  <2>1. procs[n].seed \in CoordKeys
    BY <1>2 DEF SetupInv, ProcsOK, Processes, Seeded, Identified
  <2>2. TrustInv' /\ pubs' # <<>>
    BY <1>5, <2>1, NewVerifierTrustInv DEF Serve
  <2>3. QED
    BY <1>1, <2>2 DEF Linked
<1>6. CASE procs[n].kind # "start"
  <2>1. UNCHANGED trustVars
    BY <1>6 DEF Serve, trustVars
  <2>2. TrustInv'
    BY <2>1 DEF trustVars, coordinatorVars, verifierVars, TrustInv, Vouched, SeedKey, trusted,
                TrustRooted, AcceptedStaysTrusted
  <2>3. procs'[n].kind = procs[n].kind
    BY DEF Serve, Listen, Goto, SetupInv, ProcsOK, Processes
  <2>4. procs'[n].pc # "serving"
    BY <1>1, <1>6, <2>3 DEF SetupInv, ProcsOK
  <2>5. Linked'
    BY <1>3, <1>4, <2>4 DEF Linked
  <2>6. QED
    BY <1>1, <2>2, <2>5
<1>7. QED
  BY <1>5, <1>6

LEMMA ExitNodeInv == ASSUME NodeInv, NEW n \in Runs, Exit(n) PROVE NodeInv'
<1> USE DEF NodeInv
<1>1. SetupInv'
  BY ExitSetupInv DEF Exit
<1>2. \A m \in Runs : procs'[m].pc = "serving" => m # n /\ procs[m].pc = "serving"
  BY DEF Exit, End, Ended, SetupInv, ProcsOK
<1>3. CASE Serving(n)
  <2>1. TrustInv'
    BY <1>3, NoVerifierTrustInv DEF Exit
  <2>2. \A m \in Runs : procs'[m].pc # "serving"
    BY <1>2, <1>3, OneServes DEF Serving, At
  <2>3. QED
    BY <1>1, <2>1, <2>2 DEF Linked
<1>4. CASE ~ Serving(n)
  <2>1. UNCHANGED trustVars
    BY <1>4 DEF Exit, trustVars
  <2>2. TrustInv'
    BY <2>1 DEF trustVars, coordinatorVars, verifierVars, TrustInv, Vouched, SeedKey, trusted,
                TrustRooted, AcceptedStaysTrusted
  <2>3. Linked'
    BY <1>2, <2>1 DEF Linked, trustVars, verifierVars
  <2>4. QED
    BY <1>1, <2>2, <2>3
<1>5. QED
  BY <1>3, <1>4

\* The steps of Setup that neither begin nor end to serve.
LEMMA SetupNextInv == ASSUME NodeInv, SetupNext, UNCHANGED trustVars PROVE NodeInv'
<1> USE DEF NodeInv
<1>1. SetupInv'
  <2>1. CASE Start \/ \E force \in BOOLEAN, dir \in DataPaths : Init(force, dir)
    BY <2>1, CommandSetupInv
  <2>2. CASE EnterApiKey
    BY <2>2, EnterApiKeySetupInv
  <2>3. ASSUME NEW n \in Runs,
               InitStep(n) \/ LoadSeed(n) \/ IdentityStep(n) \/ tickHeartbeat(n)
        PROVE  SetupInv'
    <3>1. coordKey \in CoordKeys
      BY DEF TrustInv
    <3>2. CASE InitStep(n)
      BY <3>1, <3>2, SeedSetupInv, TruncateConfigSetupInv, WriteConfigSetupInv,
         RegisterSetupInv, RegisteredSetupInv DEF InitStep
    <3>3. CASE LoadSeed(n)
      BY <3>1, <3>3, SeedSetupInv
    <3>4. CASE IdentityStep(n)
      BY <3>4, LoadSetupInv, CreateSetupInv, WriteSetupInv DEF IdentityStep
    <3>5. CASE tickHeartbeat(n)
      BY <3>5, HeartbeatSetupInv
    <3>6. QED
      BY <2>3, <3>2, <3>3, <3>4, <3>5
  <2>4. QED
    BY <2>1, <2>2, <2>3 DEF SetupNext
<1>2. TrustInv'
  BY DEF trustVars, coordinatorVars, verifierVars, TrustInv, Vouched, SeedKey, trusted,
         TrustRooted, AcceptedStaysTrusted
<1>3. \A m \in Runs : procs'[m].pc = "serving" => procs[m].pc = "serving"
  <2>1. CASE Start \/ \E force \in BOOLEAN, dir \in DataPaths : Init(force, dir)
    <3>1. ASSUME NEW kind, NEW label \in {"fetch", "seed"}, NEW id, NEW api, NEW dir,
                 Launch(kind, label, id, api, dir)
          PROVE  \A m \in Runs : procs'[m].pc = "serving" => procs[m].pc = "serving"
      <4> DEFINE new == [kind |-> kind, pc |-> label, ident |-> NoKey, seed |-> NoKey,
                         id |-> id, api |-> api, dir |-> dir]
      <4>1. new.pc # "serving"
        OBVIOUS
      <4>2. procs' = [procs EXCEPT ![runs + 1] = new]
        BY <3>1 DEF Launch
      <4> HIDE DEF new
      <4>3. QED
        BY <4>1, <4>2 DEF SetupInv, ProcsOK
    <3>2. QED
      BY <2>1, <3>1 DEF Start, Init
  <2>2. CASE EnterApiKey
    BY <2>2 DEF EnterApiKey
  <2>3. ASSUME NEW n \in Runs,
               InitStep(n) \/ LoadSeed(n) \/ IdentityStep(n) \/ tickHeartbeat(n)
        PROVE  \A m \in Runs : procs'[m].pc = "serving" => procs[m].pc = "serving"
    <3> USE DEF SetupInv, ProcsOK, Processes, Goto, WithIdentity
    <3>1. CASE fetchCoordinatorKey(n, coordKey) \/ TruncatePem(n) \/ WritePem(n)
      BY <3>1 DEF fetchCoordinatorKey, TruncatePem, WritePem
    <3>2. CASE TruncateConfig(n) \/ writeConfig(n)
      <4>1. Goto(n, "config open") \/ Goto(n, "reconfig open") \/ Goto(n, "listen")
            \/ procs' = [procs EXCEPT ![n] = Ended]
        BY <3>2 DEF TruncateConfig, writeConfig
      <4>2. Ended.pc = "ended"
        BY DEF Ended
      <4>3. QED
        BY <4>1, <4>2
    <3>3. CASE register(n) \/ Registered(n) \/ LoadSeed(n)
      BY <3>3 DEF register, Registered, LoadSeed
    <3>4. CASE LoadOrCreate(n)
      BY <3>4 DEF LoadOrCreate
    <3>5. CASE CreateKey(n) \/ WriteKey(n)
      BY <3>5 DEF CreateKey, WriteKey
    <3>6. CASE tickHeartbeat(n)
      BY <3>6 DEF tickHeartbeat
    <3>7. QED
      BY <2>3, <3>1, <3>2, <3>3, <3>4, <3>5, <3>6 DEF InitStep, IdentityStep
  <2>4. QED
    BY <2>1, <2>2, <2>3 DEF SetupNext
<1>4. Linked'
  BY <1>3 DEF Linked, trustVars, verifierVars
<1>5. QED
  BY <1>1, <1>2, <1>4

LEMMA SameSetupInv == ASSUME SetupInv, UNCHANGED setupVars PROVE SetupInv'
<1> USE DEF setupVars, fileVars, remoteVars, SetupInv
<1>1. ProcsOK' /\ FilesOK'
  BY DEF ProcsOK, FilesOK
<1>2. Creating' /\ Identity' /\ Entered'
  BY DEF Creating, Identity, KeyOf, Entered, IdRegistered
<1>3. \A home \in Dirs : Homed(home) => Homed(home)'
  BY DEF Homed, Names
<1>4. QED
  BY <1>1, <1>2, <1>3

\* The steps that only change the trust list or the coordinator.
LEMMA TrustNextInv == ASSUME NodeInv, TrustNext, UNCHANGED setupVars PROVE NodeInv'
<1> USE DEF NodeInv
<1>1. SetupInv'
  BY SameSetupInv
<1>2. TrustInv' /\ (pubs # <<>> => pubs' # <<>>)
  <2>1. CASE AddKeys
    BY <2>1, AddKeyTrustInv DEF AddKeys
  <2>2. CASE Verify \/ \E k \in CoordKeys \cup DCs \cup {Forged}, expired \in BOOLEAN :
                          VerifyEnds(k, expired)
    BY <2>2, VerifyTrustInv DEF Keys
  <2>3. ASSUME NEW signers \in SUBSET DCs, PublishSigners(signers)
        PROVE  TrustInv' /\ pubs' = pubs
    BY <2>3, PublishTrustInv DEF PublishSigners, TrustInv
  <2>4. CASE RotateKey
    <3>1. directory.signers \in SUBSET DCs
      BY DEF TrustInv
    <3>2. QED
      BY <2>4, <3>1, PublishTrustInv DEF RotateKey
  <2>5. QED
    BY <2>1, <2>2, <2>3, <2>4 DEF TrustNext
<1>3. Linked'
  BY <1>2 DEF Linked, setupVars
<1>4. QED
  BY <1>1, <1>2, <1>3

LEMMA NextNodeInv == NodeInv /\ [Next]_vars => NodeInv'
<1> SUFFICES ASSUME NodeInv, [Next]_vars PROVE NodeInv'
  OBVIOUS
<1>1. CASE UNCHANGED vars
  <2>1. UNCHANGED <<setupVars, trustVars>>
    BY <1>1 DEF vars
  <2>2. SetupInv'
    BY <2>1, SameSetupInv DEF NodeInv
  <2>3. TrustInv' /\ Linked'
    BY <2>1 DEF NodeInv, trustVars, coordinatorVars, verifierVars, TrustInv, Vouched, SeedKey,
                trusted, TrustRooted, AcceptedStaysTrusted, Linked, setupVars
  <2>4. QED
    BY <2>2, <2>3 DEF NodeInv
<1>2. CASE SetupNext /\ UNCHANGED trustVars
  BY <1>2, SetupNextInv
<1>3. CASE TrustNext /\ UNCHANGED setupVars
  BY <1>3, TrustNextInv
<1>4. ASSUME NEW n \in Runs, NEW envelope \in Answers, Refresh(n, envelope) PROVE NodeInv'
  <2>1. pubs # <<>> /\ UNCHANGED setupVars
    BY <1>4 DEF Refresh, Serving, At, NodeInv, Linked
  <2>2. TrustInv' /\ pubs' = pubs
    BY <1>4, <2>1, RefreshTrustInv DEF Refresh, NodeInv
  <2>3. SetupInv'
    BY <2>1, SameSetupInv DEF NodeInv
  <2>4. Linked'
    BY <2>1, <2>2 DEF Linked
  <2>5. QED
    BY <2>2, <2>3, <2>4 DEF NodeInv
<1>5. QED
  BY <1>1, <1>2, <1>3, <1>4, ServeNodeInv, ExitNodeInv DEF Next

LEMMA NodeInvariant == Spec => []NodeInv
<1>1. NodeInit => NodeInv
  BY InitSetupInv, InitTrustInv DEF NodeInv
<1>2. QED
  BY <1>1, NextNodeInv, PTL DEF Spec

-----------------------------------------------------------------------------
\* Every state of the control plane is well typed: whichever processes run, the one
\* that listens has the port, and the directories are ones a coordinator's key signed.
THEOREM NodeTypeCorrect == Spec => []TypeOK
<1>1. NodeInv => SetupTypeOK
  BY DEF NodeInv, SetupInv, ProcsOK, FilesOK, Processes, SetupTypeOK
<1>2. NodeInv => TrustTypeOK
  <2> SUFFICES ASSUME NodeInv PROVE TrustTypeOK
    OBVIOUS
  <2>1. trusted \subseteq CoordKeys \cup DCs
    BY DEF NodeInv, TrustInv, trusted, Keys, Range
  <2>2. QED
    BY <2>1 DEF NodeInv, TrustInv, TrustTypeOK
<1>3. QED
  BY <1>1, <1>2, NodeInvariant, PTL DEF TypeOK

\* identity/identity.go:43-49: however many processes create keys at once, in whichever
\* directories, and wherever they are killed, a key that is used is the one in the
\* directory of its process, and the coordinator is told one key for each id.
THEOREM OneIdentityHolds == Spec => []OneIdentity
<1>1. NodeInv => OneIdentity
  <2> SUFFICES ASSUME NodeInv PROVE OneIdentity
    OBVIOUS
  <2>1. PICK home \in Dirs : Homed(home)
    BY DEF NodeInv, SetupInv
  <2>2. \A r, s \in reported : r[1] = s[1] => r[2] = s[2]
    BY <2>1 DEF Homed
  <2>3. QED
    BY <2>2 DEF NodeInv, SetupInv, Identity, OneIdentity
<1>2. QED
  BY <1>1, NodeInvariant, PTL

\* identity/identity.go:94-97: O_EXCL keeps a written key from being replaced: the
\* process that writes is the one that has created the file, and nobody else writes.
THEOREM IdentityIsKept == Spec => IdentityKept
<1>1. ASSUME NodeInv, Next PROVE KeysKept
  <2> USE DEF fileVars
  <2>1. ASSUME NEW n \in Runs, CreateKey(n) \/ WriteKey(n) PROVE KeysKept
    <3>1. KeyOf(n) \in {Missing, Torn}
      BY <2>1, <1>1 DEF CreateKey, WriteKey, At, NodeInv, SetupInv, Creating
    <3>2. \A d \in Dirs : d # procs[n].dir => keyFile'[d] = keyFile[d]
      BY <2>1, <1>1 DEF CreateKey, WriteKey, NodeInv, SetupInv, FilesOK
    <3>3. Missing \notin Runs /\ Torn \notin Runs
      BY SetupAssumption DEF Runs
    <3>4. QED
      BY <3>1, <3>2, <3>3 DEF KeysKept, KeyOf
  <2>2. CASE keyFile' = keyFile
    BY <2>2 DEF KeysKept
  <2>3. CASE SetupNext
    <3>1. \/ keyFile' = keyFile
          \/ \E n \in Runs : CreateKey(n) \/ WriteKey(n)
      BY <2>3 DEF SetupNext, Init, Start, Launch, EnterApiKey, InitStep,
         fetchCoordinatorKey, TruncatePem, WritePem, TruncateConfig, writeConfig, register,
         Registered, LoadSeed, IdentityStep, LoadOrCreate, tickHeartbeat
    <3>2. QED
      BY <2>1, <2>2, <3>1
  <2>4. CASE \E n \in Runs : Serve(n) \/ Exit(n)
    BY <2>2, <2>4 DEF Serve, Listen, Exit, End
  <2>5. CASE UNCHANGED setupVars
    BY <2>2, <2>5 DEF setupVars
  <2>6. QED
    BY <1>1, <2>3, <2>4, <2>5 DEF Next, Refresh
<1>2. NodeInv /\ [Next]_vars =>
        [\A d \in Dirs : keyFile[d] \in Runs => keyFile'[d] = keyFile[d]]_setupVars
  BY <1>1 DEF vars, KeysKept
<1>3. QED
  BY <1>2, NodeInvariant, PTL DEF Spec, IdentityKept

\* cmd/init.go:54-56: lost answers, repeated setups and kills never leave an id in the
\* configuration, or in a process, that the coordinator has not given for this node.
THEOREM IdIsRegistered == Spec => []IdRegistered
<1>1. NodeInv => IdRegistered
  BY DEF NodeInv, SetupInv, Entered
<1>2. QED
  BY <1>1, NodeInvariant, PTL

\* dirfetch/refresher.go:223-229: replayed, altered and forged directories, and any
\* number of key rotations, add no key that the seed has not vouched for.
THEOREM TrustIsRooted == Spec => []TrustRooted
<1>1. NodeInv => TrustRooted
  BY DEF NodeInv, TrustInv
<1>2. QED
  BY <1>1, NodeInvariant, PTL

\* tokens/tokens.go:201-207: a Verify that works on an old copy of the list accepts no
\* signer that the list has lost since.
THEOREM AcceptedAreTrusted == Spec => []AcceptedStaysTrusted
<1>1. NodeInv => AcceptedStaysTrusted
  BY DEF NodeInv, TrustInv
<1>2. QED
  BY <1>1, NodeInvariant, PTL

-----------------------------------------------------------------------------
\* What a run of challenges keeps.
Entries == [account : Accounts, now : Int, allowed : BOOLEAN]

RunType(run) ==
    /\ run.time \in Nat
    /\ run.limiter \in [window : Int, entries : [Accounts -> Nat]]
    /\ run.log \in Seq(Entries)

\* The challenges of one account that were allowed, after the first s of n.
Counted(log, a, s, n) == {i \in (s + 1)..n : log[i].account = a /\ log[i].allowed}

\* The current window has counted the challenges after the first s, and the window
\* before it those between the first o and the first s.  All earlier readings lie
\* more than a window before the current one.
Counts(run, o, s) ==
    LET log == run.log
        n == Len(log)
        window == run.limiter.window
    IN /\ s \in 0..n /\ o \in 0..s
       /\ window <= run.time
       /\ \A a \in Accounts :
            /\ run.limiter.entries[a] = Cardinality(Counted(log, a, s, n))
            /\ run.limiter.entries[a] <= Limit
            /\ Cardinality(Counted(log, a, o, s)) <= Limit
       /\ \A i \in 1..o : log[i].now < window - Window
       /\ \A i \in 1..s : log[i].now < window
       /\ \A i \in (s + 1)..n : window - Lag <= log[i].now
       /\ \A i \in 1..n : log[i].now < window + Window /\ log[i].now <= run.time

\* WithinRate, for every interval and not only those that end at a reading.
Rated(log) ==
    /\ \A a \in Accounts, t \in Int :
         Cardinality(Granted(log, a, t - (Window - Lag), t)) <= 2 * Limit
    /\ \A i \in 1..Len(log) :
         ~ log[i].allowed =>
            Cardinality({j \in Granted(log, log[i].account, log[i].now - Window - Lag,
                                       log[i].now + Lag) : j < i}) >= Limit

RunInv(run) ==
    /\ RunType(run)
    /\ \E o, s \in Nat : Counts(run, o, s)
    /\ Rated(run.log)

\* What has been counted is a finite set.
LEMMA CountedIsFinite ==
    ASSUME NEW n \in Nat, NEW T, T \subseteq 1..n
    PROVE  IsFiniteSet(T) /\ Cardinality(T) \in Nat
<1>1. IsFiniteSet(1..n)
  BY FS_Interval
<1>2. IsFiniteSet(T)
  BY <1>1, FS_Subset
<1>3. QED
  BY <1>2, FS_CardinalityType

\* The log after one more challenge.
LEMMA AppendEntry ==
    ASSUME NEW log \in Seq(Entries), NEW e \in Entries
    PROVE  /\ Append(log, e) \in Seq(Entries)
           /\ Len(log) \in Nat
           /\ Len(Append(log, e)) = Len(log) + 1
           /\ \A i \in 1..Len(log) : Append(log, e)[i] = log[i] /\ log[i] \in Entries
           /\ Append(log, e)[Len(log) + 1] = e
           /\ DOMAIN log = 1..Len(log)
           /\ DOMAIN Append(log, e) = 1..(Len(log) + 1)
  OBVIOUS

\* api/client_challenge.go:57-60: when the window has run out, what it has counted
\* becomes the count of the window before.
LEMMA CurrentCounts ==
    ASSUME NEW run, RunType(run), NEW o \in Nat, NEW s \in Nat, Counts(run, o, s),
           NEW time \in Nat, run.time <= time,
           NEW now \in Int, now <= time, time <= now + Lag
    PROVE  LET next == [time |-> time, limiter |-> Current(run.limiter, now), log |-> run.log]
           IN /\ RunType(next)
              /\ \E p, q \in Nat : Counts(next, p, q)
              /\ next.limiter.window - Lag <= now
              /\ now < next.limiter.window + Window
<1> DEFINE l == run.limiter
           log == run.log
           n == Len(log)
           next == [time |-> time, limiter |-> Current(run.limiter, now), log |-> run.log]
<1>1. n \in Nat /\ \A i \in 1..n : log[i].now \in Int
  <2>1. log \in Seq(Entries)
    BY DEF RunType
  <2> HIDE DEF log
  <2>2. \A i \in 1..n : log[i] \in Entries
    BY <2>1
  <2>3. QED
    BY <2>1, <2>2 DEF Entries
<1>2. Window \in Nat \ {0} /\ Limit \in Nat \ {0} /\ Lag \in Nat
  BY RateLimiterAssumption
<1>3. l.window \in Int /\ l.entries \in [Accounts -> Nat] /\ run.time \in Nat
  BY DEF RunType
<1>4. CASE now - l.window >= Window
  <2>1. Current(l, now) = [window |-> now, entries |-> [a \in Accounts |-> 0]]
    BY <1>4 DEF Current
  <2>2. next.time = time /\ next.log = log /\ next.limiter.window = now
        /\ next.limiter.entries = [a \in Accounts |-> 0]
    BY <2>1
  <2>3. RunType(next)
    <3>1. next.limiter \in [window : Int, entries : [Accounts -> Nat]]
      BY <2>1
    <3>2. QED
      BY <2>2, <3>1 DEF RunType
  <2>4. \A a \in Accounts : Cardinality(Counted(log, a, n, n)) = 0
    <3>1. TAKE a \in Accounts
    <3>2. Counted(log, a, n, n) = {}
      BY <1>1 DEF Counted
    <3>3. QED
      BY <3>2, FS_EmptySet
  <2>5. \A a \in Accounts : Cardinality(Counted(log, a, s, n)) <= Limit
    BY DEF Counts
  <2>6. \A i \in 1..n : log[i].now < now /\ log[i].now < now + Window /\ log[i].now <= time
    <3>1. \A i \in 1..n : log[i].now < l.window + Window /\ log[i].now <= run.time
      BY DEF Counts
    <3>2. \A t \in Int : (t < l.window + Window /\ t <= run.time)
                           => t < now /\ t < now + Window /\ t <= time
      BY <1>2, <1>3, <1>4
    <3>3. QED
      BY <1>1, <3>1, <3>2, Zenon
  <2>7. \A i \in 1..s : log[i].now < now - Window
    <3>1. s \in 0..n /\ \A i \in 1..s : log[i].now < l.window
      BY DEF Counts
    <3>2. TAKE i \in 1..s
    <3>3. i \in 1..n /\ log[i].now < l.window
      BY <1>1, <3>1
    <3>4. log[i].now \in Int
      BY <1>1, <3>3
    <3>5. \A t \in Int : t < l.window => t < now - Window
      BY <1>2, <1>3, <1>4
    <3>6. QED
      BY <3>3, <3>4, <3>5, Zenon
  <2>8. s \in 0..n
    BY DEF Counts
  <2> HIDE DEF next
  <2>9. Counts(next, s, n)
    BY <1>1, <1>2, <2>2, <2>4, <2>5, <2>6, <2>7, <2>8 DEF Counts
  <2>10. now - Lag <= now /\ now < now + Window
    BY <1>2
  <2>11. QED
    BY <1>1, <2>2, <2>3, <2>9, <2>10 DEF next
<1>5. CASE ~ (now - l.window >= Window)
  <2>1. Current(l, now) = l
    BY <1>5 DEF Current
  <2>2. next.time = time /\ next.log = log /\ next.limiter = l
    BY <2>1
  <2>3. RunType(next)
    BY <2>2 DEF RunType
  <2>4. l.window <= run.time
    BY DEF Counts
  <2>5. l.window <= time /\ \A i \in 1..n : log[i].now <= run.time => log[i].now <= time
    BY <1>1, <1>3, <2>4
  <2> HIDE DEF next
  <2>6. Counts(next, o, s)
    BY <2>2, <2>5 DEF Counts
  <2>7. l.window - Lag <= now /\ now < l.window + Window
    BY <1>2, <1>3, <1>5, <2>5
  <2>8. QED
    BY <2>2, <2>3, <2>6, <2>7 DEF next
<1>6. QED
  BY <1>4, <1>5

\* api/client_challenge.go:61-65: a challenge is counted when it is allowed, and in no
\* account but its own.
LEMMA ChallengeCounts ==
    ASSUME NEW run, RunType(run), NEW o \in Nat, NEW s \in Nat, Counts(run, o, s),
           NEW e \in Entries, e.now <= run.time,
           run.limiter.window - Lag <= e.now, e.now < run.limiter.window + Window,
           e.allowed <=> run.limiter.entries[e.account] < Limit,
           NEW limiter,
           limiter = IF e.allowed THEN [run.limiter EXCEPT !.entries[e.account] = @ + 1]
                     ELSE run.limiter
    PROVE  LET next == [time |-> run.time, limiter |-> limiter, log |-> Append(run.log, e)]
           IN RunType(next) /\ Counts(next, o, s)
<1> DEFINE l == run.limiter
           log == run.log
           n == Len(log)
           logx == Append(log, e)
           next == [time |-> run.time, limiter |-> limiter, log |-> logx]
<1>1. /\ logx \in Seq(Entries) /\ n \in Nat /\ Len(logx) = n + 1
      /\ \A i \in 1..n : logx[i] = log[i] /\ log[i] \in Entries
      /\ logx[n + 1] = e
  BY AppendEntry DEF RunType
<1>2. Window \in Nat \ {0} /\ Limit \in Nat \ {0} /\ Lag \in Nat
  BY RateLimiterAssumption
<1>3. l \in [window : Int, entries : [Accounts -> Nat]] /\ run.time \in Nat
  BY DEF RunType
<1>4. e.account \in Accounts /\ e.now \in Int /\ e.allowed \in BOOLEAN
  BY DEF Entries
<1>5. /\ limiter \in [window : Int, entries : [Accounts -> Nat]]
      /\ limiter.window = l.window
      /\ \A a \in Accounts : limiter.entries[a] =
           IF a = e.account /\ e.allowed THEN l.entries[a] + 1 ELSE l.entries[a]
  <2>1. CASE e.allowed
    <3>1. limiter = [l EXCEPT !.entries = [l.entries EXCEPT ![e.account] = @ + 1]]
      BY <1>3, <2>1
    <3>2. [l.entries EXCEPT ![e.account] = @ + 1] \in [Accounts -> Nat]
      BY <1>3, <1>4
    <3>3. QED
      BY <1>3, <1>4, <2>1, <3>1, <3>2
  <2>2. CASE ~ e.allowed
    BY <1>3, <2>2
  <2>3. QED
    BY <2>1, <2>2
<1>6. s \in 0..n /\ o \in 0..s
  BY DEF Counts
<1>7. ASSUME NEW a \in Accounts
      PROVE  /\ limiter.entries[a] = Cardinality(Counted(logx, a, s, n + 1))
             /\ limiter.entries[a] <= Limit
             /\ Cardinality(Counted(logx, a, o, s)) <= Limit
  <2>1. Counted(logx, a, o, s) = Counted(log, a, o, s)
    BY <1>1, <1>6 DEF Counted
  <2>2. Counted(logx, a, s, n + 1) =
          Counted(log, a, s, n) \cup (IF a = e.account /\ e.allowed THEN {n + 1} ELSE {})
    BY <1>1, <1>6 DEF Counted
  <2>3. n + 1 \notin Counted(log, a, s, n) /\ Counted(log, a, s, n) \subseteq 1..n
    BY <1>1, <1>6 DEF Counted
  <2>4. /\ l.entries[a] = Cardinality(Counted(log, a, s, n))
        /\ l.entries[a] <= Limit
        /\ Cardinality(Counted(log, a, o, s)) <= Limit
    BY DEF Counts
  <2>5. IsFiniteSet(Counted(log, a, s, n))
    BY <1>1, <2>3, CountedIsFinite
  <2>6. CASE a = e.account /\ e.allowed
    <3>1. Cardinality(Counted(log, a, s, n) \cup {n + 1}) = Cardinality(Counted(log, a, s, n)) + 1
      BY <2>3, <2>5, FS_AddElement
    <3>2. l.entries[a] \in Nat /\ l.entries[a] < Limit
      BY <1>3, <2>6
    <3>3. l.entries[a] + 1 <= Limit
      BY <1>2, <3>2
    <3>4. limiter.entries[a] = l.entries[a] + 1
      BY <1>5, <2>6
    <3>5. Counted(logx, a, s, n + 1) = Counted(log, a, s, n) \cup {n + 1}
      BY <2>2, <2>6
    <3>6. QED
      BY <2>1, <2>4, <3>1, <3>3, <3>4, <3>5, Zenon
  <2>7. CASE ~ (a = e.account /\ e.allowed)
    <3>1. Counted(logx, a, s, n + 1) = Counted(log, a, s, n)
      BY <2>2, <2>7
    <3>2. limiter.entries[a] = l.entries[a]
      BY <1>5, <2>7
    <3>3. QED
      BY <2>1, <2>4, <3>1, <3>2, Zenon
  <2>8. QED
    BY <2>6, <2>7
<1>8. /\ l.window <= run.time
      /\ \A i \in 1..o : log[i].now < l.window - Window
      /\ \A i \in 1..s : log[i].now < l.window
      /\ \A i \in (s + 1)..n : l.window - Lag <= log[i].now
      /\ \A i \in 1..n : log[i].now < l.window + Window /\ log[i].now <= run.time
  BY DEF Counts
<1>9. \A i \in 1..(n + 1) : i \in 1..n \/ i = n + 1
  BY <1>1
<1>10. /\ \A i \in 1..o : logx[i].now < l.window - Window
       /\ \A i \in 1..s : logx[i].now < l.window
  BY <1>1, <1>6, <1>8
<1>11. \A i \in (s + 1)..(n + 1) : l.window - Lag <= logx[i].now
  <2>1. TAKE i \in (s + 1)..(n + 1)
  <2>2. (i \in (s + 1)..n /\ i \in 1..n) \/ i = n + 1
    BY <1>1, <1>6
  <2>3. QED
    BY <1>1, <1>8, <2>2
<1>12. \A i \in 1..(n + 1) : logx[i].now < l.window + Window /\ logx[i].now <= run.time
  BY <1>1, <1>8, <1>9
<1>13. /\ next.time = run.time /\ next.limiter = limiter /\ next.log = logx
       /\ s \in 0..(n + 1)
  BY <1>1, <1>6
<1> HIDE DEF next, logx
<1>14. RunType(next)
  BY <1>1, <1>3, <1>5, <1>13 DEF RunType
<1>15. Counts(next, o, s)
  BY <1>1, <1>5, <1>6, <1>7, <1>8, <1>10, <1>11, <1>12, <1>13 DEF Counts
<1>16. QED
  BY <1>14, <1>15 DEF next, logx

\* An interval that a new challenge falls into has nothing of the windows before the
\* last two.
LEMMA ChallengeRated ==
    ASSUME NEW run, RunType(run), NEW o \in Nat, NEW s \in Nat, Counts(run, o, s),
           NEW e \in Entries, NEW log \in Seq(Entries), run.log = Append(log, e), Rated(log),
           run.time <= e.now + Lag,
           e.now < run.limiter.window + Window,
           run.limiter.window - Lag <= e.now,
           ~ e.allowed => run.limiter.entries[e.account] >= Limit
    PROVE  Rated(run.log)
<1> DEFINE n == Len(log)
           logx == run.log
           w == run.limiter.window
<1>1. /\ logx \in Seq(Entries) /\ n \in Nat /\ Len(logx) = n + 1
      /\ \A i \in 1..n : logx[i] = log[i]
      /\ logx[n + 1] = e
      /\ DOMAIN log = 1..n /\ DOMAIN logx = 1..(n + 1)
  BY AppendEntry
<1>2. Window \in Nat \ {0} /\ Limit \in Nat \ {0} /\ Lag \in Nat
  BY RateLimiterAssumption
<1>3. w \in Int /\ run.time \in Nat
  BY DEF RunType
<1>4. e.account \in Accounts /\ e.now \in Int /\ e.allowed \in BOOLEAN
  BY DEF Entries
<1>5. \A i \in 1..(n + 1) : logx[i] \in Entries /\ logx[i].now \in Int
                            /\ logx[i].account \in Accounts /\ logx[i].allowed \in BOOLEAN
  <2>1. \A i \in 1..(n + 1) : logx[i] \in Entries
    <3> HIDE DEF logx
    <3>1. QED
      BY <1>1
  <2>2. QED
    BY <2>1 DEF Entries
<1>6. s \in 0..(n + 1) /\ o \in 0..s
  BY <1>1 DEF Counts
<1>7. /\ \A a \in Accounts : /\ run.limiter.entries[a] = Cardinality(Counted(logx, a, s, n + 1))
                             /\ run.limiter.entries[a] <= Limit
                             /\ Cardinality(Counted(logx, a, o, s)) <= Limit
      /\ \A i \in 1..o : logx[i].now < w - Window
      /\ \A i \in (s + 1)..(n + 1) : w - Lag <= logx[i].now
      /\ \A i \in 1..(n + 1) : logx[i].now <= run.time
  BY <1>1 DEF Counts
<1>8. \A i \in 1..(n + 1) : i \in 1..n \/ i = n + 1
  BY <1>1
<1>9. 1..n \subseteq 1..(n + 1) /\ n + 1 \in 1..(n + 1) /\ n + 1 \in Nat
  BY <1>1
<1> HIDE DEF n, logx, w
<1>10. ASSUME NEW a \in Accounts, NEW t \in Int
       PROVE  Cardinality(Granted(logx, a, t - (Window - Lag), t)) <= 2 * Limit
  <2> DEFINE from == t - (Window - Lag)
             G == Granted(logx, a, from, t)
  <2>1. CASE n + 1 \notin G
    <3>1. G = Granted(log, a, from, t)
      BY <1>1, <1>8, <1>9, <2>1 DEF Granted
    <3>2. Cardinality(Granted(log, a, from, t)) <= 2 * Limit
      BY DEF Rated
    <3>3. QED
      BY <3>1, <3>2
  <2>2. CASE n + 1 \in G
    <3> DEFINE A == Counted(logx, a, o, s)
               B == Counted(logx, a, s, n + 1)
    <3>1. w - Window <= from
      <4>1. logx[n + 1].now <= t
        BY <2>2 DEF Granted
      <4>2. w - Lag <= t
        <5>1. \A x, y, z \in Int : (x - Lag <= y /\ y <= z) => x - Lag <= z
          BY <1>2
        <5>2. w - Lag <= e.now /\ e.now <= t
          BY <1>1, <4>1, Zenon DEF w
        <5>3. QED
          BY <1>3, <1>4, <5>1, <5>2, Zenon
      <4>3. QED
        BY <1>2, <1>3, <4>2
    <3>2. ASSUME NEW i \in G PROVE i \in A \cup B
      <4>1. /\ i \in 1..(n + 1) /\ logx[i].account = a /\ logx[i].allowed
            /\ from <= logx[i].now
        BY <1>1 DEF Granted
      <4>2. logx[i].now \in Int /\ from \in Int
        BY <1>2, <1>5, <4>1
      <4>3. ~ (logx[i].now < w - Window)
        BY <1>2, <1>3, <3>1, <4>1, <4>2
      <4>4. i \notin 1..o
        BY <1>7, <4>3
      <4>5. i \in (o + 1)..s \/ i \in (s + 1)..(n + 1)
        BY <1>1, <1>6, <4>1, <4>4
      <4>6. QED
        BY <4>1, <4>5 DEF Counted
    <3>3. A \subseteq 1..(n + 1) /\ B \subseteq 1..(n + 1)
      BY <1>1, <1>6 DEF Counted
    <3>4. /\ IsFiniteSet(A) /\ Cardinality(A) \in Nat
          /\ IsFiniteSet(B) /\ Cardinality(B) \in Nat
      BY <1>9, <3>3, CountedIsFinite
    <3>5. Cardinality(A) <= Limit /\ Cardinality(B) <= Limit
      BY <1>7
    <3> HIDE DEF A, B, G
    <3>6. /\ IsFiniteSet(A \cup B)
          /\ Cardinality(A \cup B) = Cardinality(A) + Cardinality(B) - Cardinality(A \cap B)
      BY <3>4, FS_Union
    <3>7. Cardinality(A \cap B) \in Nat
      BY <3>4, FS_Subset, FS_CardinalityType
    <3>8. IsFiniteSet(G) /\ Cardinality(G) <= Cardinality(A \cup B) /\ Cardinality(G) \in Nat
      <4>1. G \subseteq A \cup B
        BY <3>2
      <4>2. IsFiniteSet(G) /\ Cardinality(G) <= Cardinality(A \cup B)
        BY <3>6, <4>1, FS_Subset
      <4>3. QED
        BY <4>2, FS_CardinalityType
    <3>9. Cardinality(G) <= 2 * Limit
      BY <1>2, <3>4, <3>5, <3>6, <3>7, <3>8
    <3>10. QED
      BY <3>9 DEF G
  <2>3. QED
    BY <2>1, <2>2
<1>11. ASSUME NEW i \in 1..(n + 1), ~ logx[i].allowed
       PROVE  Cardinality({j \in Granted(logx, logx[i].account, logx[i].now - Window - Lag,
                                         logx[i].now + Lag) : j < i}) >= Limit
  <2> DEFINE a == logx[i].account
             from == logx[i].now - Window - Lag
             to == logx[i].now + Lag
             G == {j \in Granted(logx, a, from, to) : j < i}
  <2>1. CASE i \in 1..n
    <3>1. G = {j \in Granted(log, a, from, to) : j < i}
      BY <1>1, <1>8, <1>9, <2>1 DEF Granted
    <3>2. logx[i] = log[i]
      BY <1>1, <2>1
    <3>3. Cardinality({j \in Granted(log, log[i].account, log[i].now - Window - Lag,
                                     log[i].now + Lag) : j < i}) >= Limit
      BY <1>11, <2>1, <3>2 DEF Rated, n
    <3>4. QED
      BY <3>1, <3>2, <3>3
  <2>2. CASE i = n + 1
    <3> DEFINE B == Counted(logx, a, s, n + 1)
    <3>1. logx[i] = e /\ a = e.account /\ logx[i].now = e.now /\ ~ e.allowed /\ a \in Accounts
      BY <1>1, <1>4, <1>11, <2>2
    <3>2. from <= w - Lag /\ run.time <= to /\ from \in Int /\ to \in Int
      <4>1. from = e.now - Window - Lag /\ to = e.now + Lag
        BY <3>1, Zenon
      <4> HIDE DEF from, to
      <4>2. e.now < w + Window
        BY DEF w
      <4>3. run.time <= e.now + Lag
        OBVIOUS
      <4>4. \A x, y \in Int : x < y + Window => x - Window - Lag <= y - Lag
        BY <1>2
      <4>5. from <= w - Lag
        BY <1>3, <1>4, <4>1, <4>2, <4>4, Zenon
      <4>6. from \in Int /\ to \in Int
        <5>1. \A x \in Int : x - Window - Lag \in Int /\ x + Lag \in Int
          BY <1>2
        <5>2. QED
          BY <1>4, <4>1, <5>1, Zenon
      <4>7. QED
        BY <4>1, <4>3, <4>5, <4>6, Zenon
    <3>3. ASSUME NEW j \in B PROVE j \in G
      <4>1. /\ j \in (s + 1)..(n + 1) /\ j \in 1..(n + 1)
            /\ logx[j].account = a /\ logx[j].allowed
        BY <1>1, <1>6 DEF Counted
      <4>2. logx[j].now \in Int /\ w - Lag <= logx[j].now /\ logx[j].now <= run.time
        BY <1>5, <1>7, <4>1
      <4>3. from <= logx[j].now /\ logx[j].now <= to
        BY <1>2, <1>3, <3>2, <4>2
      <4>4. j # n + 1
        BY <1>11, <2>2, <4>1
      <4>5. j < i
        BY <1>1, <2>2, <4>1, <4>4
      <4>6. QED
        BY <1>1, <4>1, <4>3, <4>5 DEF Granted
    <3>4. G \subseteq 1..(n + 1)
      BY <1>1 DEF Granted
    <3>5. IsFiniteSet(G)
      BY <1>9, <3>4, CountedIsFinite
    <3>6. Cardinality(B) >= Limit
      BY <1>7, <3>1
    <3> HIDE DEF B, G
    <3>7. Cardinality(B) <= Cardinality(G) /\ Cardinality(G) \in Nat /\ Cardinality(B) \in Nat
      <4>1. B \subseteq G
        BY <3>3
      <4>2. IsFiniteSet(B) /\ Cardinality(B) <= Cardinality(G)
        BY <3>5, <4>1, FS_Subset
      <4>3. QED
        BY <3>5, <4>2, FS_CardinalityType
    <3>8. Cardinality(G) >= Limit
      BY <1>2, <3>6, <3>7
    <3>9. QED
      BY <3>8 DEF G
  <2>3. QED
    BY <1>8, <2>1, <2>2
<1>12. Rated(logx)
  BY <1>1, <1>10, <1>11 DEF Rated
<1>13. QED
  BY <1>12 DEF logx

\* A challenge keeps all of it.
LEMMA RunStepInv ==
    ASSUME NEW run, RunInv(run), NEW c \in Challenges
    PROVE  RunInv(RunStep(run, c))
<1> DEFINE time == run.time + c.gap
           now == time - c.late
           current == Current(run.limiter, now)
           mid == [time |-> time, limiter |-> current, log |-> run.log]
           e == [account |-> c.account, now |-> now,
                 allowed |-> allowed(run.limiter, c.account, now)]
           limiter == allow(run.limiter, c.account, now)
           next == [time |-> time, limiter |-> limiter, log |-> Append(run.log, e)]
<1>1. RunType(run) /\ Rated(run.log) /\ run.time \in Nat /\ run.log \in Seq(Entries)
  BY DEF RunInv, RunType
<1>2. PICK o, s \in Nat : Counts(run, o, s)
  BY DEF RunInv
<1>3. Window \in Nat \ {0} /\ Limit \in Nat \ {0} /\ Lag \in Nat
  BY RateLimiterAssumption
<1>4. c.account \in Accounts /\ c.gap \in 0..Window /\ c.late \in 0..Lag
  BY DEF Challenges
<1>5. time \in Nat /\ run.time <= time /\ now \in Int /\ now <= time /\ time <= now + Lag
  <2>1. \A t \in Nat, g \in 0..Window, d \in 0..Lag :
          /\ t + g \in Nat /\ t <= t + g
          /\ (t + g) - d \in Int /\ (t + g) - d <= t + g /\ t + g <= ((t + g) - d) + Lag
    BY <1>3
  <2>2. QED
    BY <1>1, <1>4, <2>1, Zenon
<1>6. RunStep(run, c) = next
  BY DEF RunStep
<1> HIDE DEF time, now
<1>7. /\ RunType(mid)
      /\ \E p, q \in Nat : Counts(mid, p, q)
      /\ mid.limiter.window - Lag <= now
      /\ now < mid.limiter.window + Window
  BY <1>1, <1>2, <1>5, CurrentCounts
<1>8. PICK p, q \in Nat : Counts(mid, p, q)
  BY <1>7
<1>9. mid.time = time /\ mid.limiter = current /\ mid.log = run.log
  OBVIOUS
<1>10. (e.allowed <=> current.entries[c.account] < Limit) /\ e.account = c.account /\ e.now = now
  BY DEF allowed
<1>11. limiter = IF e.allowed THEN [current EXCEPT !.entries[c.account] = @ + 1] ELSE current
  BY DEF allow, allowed
<1>12. e \in Entries
  BY <1>4, <1>5 DEF Entries, allowed
<1> HIDE DEF mid, e, current, limiter
<1>13. RunType(next) /\ Counts(next, p, q)
  BY <1>5, <1>7, <1>8, <1>9, <1>10, <1>11, <1>12, ChallengeCounts
<1>14. next.time = time /\ next.limiter = limiter /\ next.log = Append(run.log, e)
  OBVIOUS
<1>15. next.limiter.window = mid.limiter.window
  BY <1>7, <1>9, <1>11, <1>14 DEF RunType
<1>16. ~ e.allowed => next.limiter.entries[e.account] >= Limit
  <2>1. SUFFICES ASSUME ~ e.allowed PROVE current.entries[c.account] >= Limit
    BY <1>10, <1>11, <1>14
  <2>2. current.entries[c.account] \in Nat
    BY <1>4, <1>7, <1>9 DEF RunType
  <2>3. QED
    BY <1>3, <1>10, <2>1, <2>2
<1> HIDE DEF next
<1>17. Rated(next.log)
  BY <1>1, <1>5, <1>7, <1>10, <1>12, <1>13, <1>14, <1>15, <1>16, ChallengeRated
<1>18. QED
  BY <1>6, <1>13, <1>17 DEF RunInv

\* A limiter that has seen nothing: its window ran out before any reading.
LEMMA RunStartInv == RunInv(RunStart)
<1>1. Window \in Nat \ {0} /\ Limit \in Nat \ {0} /\ Lag \in Nat
  BY RateLimiterAssumption
<1> DEFINE log == RunStart.log
<1>2. /\ log = <<>> /\ Len(log) = 0 /\ DOMAIN log = {} /\ RunStart.time = 0
      /\ RunStart.limiter = newChallengeRateLimiter
  BY DEF RunStart
<1>3. /\ RunStart.limiter.window = - (Window + Lag)
      /\ RunStart.limiter.entries = [a \in Accounts |-> 0]
      /\ RunStart.limiter \in [window : Int, entries : [Accounts -> Nat]]
  BY <1>1, <1>2 DEF newChallengeRateLimiter
<1>4. RunType(RunStart)
  BY <1>2, <1>3 DEF RunType
<1>5. \A a : Counted(log, a, 0, 0) = {}
  BY DEF Counted
<1>6. \A a, x, y : Granted(log, a, x, y) = {}
  BY <1>2 DEF Granted
<1>7. Cardinality({}) = 0
  BY FS_EmptySet
<1> HIDE DEF log
<1>8. Counts(RunStart, 0, 0)
  <2>1. \A a \in Accounts : /\ RunStart.limiter.entries[a] = Cardinality(Counted(log, a, 0, 0))
                            /\ RunStart.limiter.entries[a] <= Limit
                            /\ Cardinality(Counted(log, a, 0, 0)) <= Limit
    <3>1. TAKE a \in Accounts
    <3>2. RunStart.limiter.entries[a] = 0
      BY <1>3
    <3>3. Cardinality(Counted(log, a, 0, 0)) = 0
      BY <1>5, <1>7, Zenon
    <3>4. 0 <= Limit
      BY <1>1
    <3>5. QED
      BY <3>2, <3>3, <3>4, Zenon
  <2>2. - (Window + Lag) <= 0
    BY <1>1
  <2>3. QED
    BY <1>2, <1>3, <2>1, <2>2 DEF Counts, log
<1>9. Rated(log)
  <2>1. 0 <= 2 * Limit /\ 1..0 = {}
    BY <1>1
  <2>2. QED
    BY <1>2, <1>6, <1>7, <2>1, Zenon DEF Rated
<1>10. QED
  BY <1>4, <1>8, <1>9 DEF RunInv, log

\* The fold of RunStep over a run is well-defined, so it satisfies its equation.
LEMMA RunEquation ==
    ASSUME NEW cs, Len(cs) \in Nat
    PROVE  \E after : /\ Run(cs) = after[Len(cs)]
                      /\ after[0] = RunStart
                      /\ \A k \in 1..Len(cs) : after[k] = RunStep(after[k - 1], cs[k])
<1> DEFINE v(f, k) == IF k = 0 THEN RunStart ELSE RunStep(f[k - 1], cs[k])
           Rec(f, n) == f = [k \in 0..n |-> v(f, k)]
           T == {n \in Nat : \E f : Rec(f, n)}
<1>1. 0 \in T
  <2> DEFINE g == [k \in 0..0 |-> RunStart]
  <2>1. Rec(g, 0)
    OBVIOUS
  <2>2. QED
    BY <2>1
<1>2. ASSUME NEW n \in Nat, n \in T PROVE n + 1 \in T
  <2>1. PICK g : Rec(g, n)
    BY <1>2
  <2>2. \A k \in 0..n : g[k] = v(g, k)
    <3> HIDE DEF v
    <3>1. QED
      BY <2>1, Zenon
  <2> DEFINE h == [k \in 0..(n + 1) |-> IF k = n + 1 THEN RunStep(g[n], cs[n + 1]) ELSE g[k]]
  <2>3. \A k \in 0..(n + 1) : h[k] = v(h, k)
    <3>1. TAKE k \in 0..(n + 1)
    <3>2. CASE k = n + 1
      <4>1. h[k] = RunStep(g[n], cs[n + 1]) /\ h[k - 1] = g[n] /\ k # 0
        BY <3>2
      <4>2. QED
        BY <3>2, <4>1
    <3>3. CASE k # n + 1
      <4>1. k \in 0..n /\ (k # 0 => k - 1 \in 0..n)
        BY <3>3
      <4>2. h[k] = g[k] /\ (k # 0 => h[k - 1] = g[k - 1])
        BY <4>1
      <4>3. g[k] = v(g, k)
        BY <2>2, <4>1
      <4> HIDE DEF h
      <4>4. QED
        BY <4>2, <4>3
    <3>4. QED
      BY <3>2, <3>3
  <2>4. h = [k \in 0..(n + 1) |-> h[k]]
    OBVIOUS
  <2> HIDE DEF v, h
  <2>5. Rec(h, n + 1)
    BY <2>3, <2>4
  <2>6. n + 1 \in Nat
    OBVIOUS
  <2> HIDE DEF Rec
  <2>7. QED
    BY <2>5, <2>6
<1>3. \A n \in Nat : n \in T
  <2> HIDE DEF T
  <2>1. QED
    BY <1>1, <1>2, Induction
<1>4. \E f : Rec(f, Len(cs))
  BY <1>3
<1> DEFINE after == CHOOSE f : Rec(f, Len(cs))
<1>5. Rec(after, Len(cs))
  BY <1>4, Zenon
<1>6. Run(cs) = after[Len(cs)]
  BY DEF Run
<1>7. after[0] = RunStart /\ \A k \in 1..Len(cs) : after[k] = RunStep(after[k - 1], cs[k])
  <2> HIDE DEF after
  <2>1. QED
    BY <1>5
<1>8. QED
  BY <1>6, <1>7, Zenon

\* api/client_challenge.go:26-29, 52-66, 103: in any run of challenges, however long,
\* an account is allowed at most twice the limit in an interval as long as the window
\* less the lag, and is refused only after Limit of its challenges were allowed.
THEOREM EveryRunWithinRate ==
    ASSUME NEW n \in Nat, NEW cs \in [1..n -> Challenges]
    PROVE  WithinRate(Run(cs).log)
<1>1. cs \in Seq(Challenges) /\ Len(cs) = n
  OBVIOUS
<1>2. PICK after : /\ Run(cs) = after[n]
                   /\ after[0] = RunStart
                   /\ \A k \in 1..n : after[k] = RunStep(after[k - 1], cs[k])
  BY <1>1, RunEquation
<1> DEFINE T == {k \in Nat : k <= n => RunInv(after[k])}
<1>3. 0 \in T
  BY <1>2, RunStartInv
<1>4. ASSUME NEW k \in Nat, k \in T PROVE k + 1 \in T
  <2>1. SUFFICES ASSUME k + 1 <= n PROVE RunInv(after[k + 1])
    OBVIOUS
  <2>2. RunInv(after[k]) /\ k + 1 \in 1..n /\ (k + 1) - 1 = k
    BY <1>4, <2>1
  <2>3. cs[k + 1] \in Challenges
    BY <2>2
  <2>4. after[k + 1] = RunStep(after[k], cs[k + 1])
    BY <1>2, <2>2
  <2>5. QED
    BY <2>2, <2>3, <2>4, RunStepInv
<1>5. n \in T
  <2> HIDE DEF T
  <2>1. QED
    BY <1>3, <1>4, Induction
<1>6. RunInv(Run(cs))
  BY <1>2, <1>5
<1> DEFINE log == Run(cs).log
<1>7. Rated(log) /\ log \in Seq(Entries)
  BY <1>6 DEF RunInv, RunType
<1> HIDE DEF log
<1>8. DOMAIN log = 1..Len(log) /\ \A i \in DOMAIN log : log[i] \in Entries
  BY <1>7
<1>9. \A i \in DOMAIN log : log[i].account \in Accounts /\ log[i].now \in Int
  BY <1>8 DEF Entries
<1>10. WithinRate(log)
  BY <1>7, <1>8, <1>9 DEF Rated, WithinRate
<1>11. QED
  BY <1>10 DEF log

\* api/client_challenge.go:26-29, 52-66: what EveryRunWithinRate says of the runs of
\* challenges that a serving provider is checked with.
THEOREM RateIsBounded == Spec => []RateBound
<1>1. MaxChallenges \in Nat
  BY RateLimiterAssumption
<1>2. RunsWithinRate
  BY <1>1, EveryRunWithinRate DEF RunsWithinRate
<1>3. RateBound
  BY <1>2 DEF RateBound
<1>4. QED
  BY <1>3, PTL
=============================================================================
