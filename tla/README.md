# A TLA+ model of the Obsideo storage provider

The provider is a Go daemon that stores content-addressed objects for customers of
a coordinator it does not control.  Its hard problem is *when bytes may go away*:
several goroutines and request handlers work on the same directory tree without a
lock, the verdict that an object may be reclaimed comes from a remote service that
fails, changes its mind and changes its version, and the process can be killed
between any two system calls.  Around it lie the ways in which bytes come in and are
proved and served, and the control plane that gives a node its identity and the keys
it trusts.  This project models these parts of the daemon, checks them with TLC on
small instances and proves the main safety properties with TLAPS for all values of
the parameters.

## The system

| component | state | operations | interacts with |
|---|---|---|---|
| object store (`store/store.go`, `store/stream.go`) | `objects/`, `index/`, `ownership/`, `coverage/` | PutStream, PutOwnership, Delete, UpdateCoverage, DeleteIndexAndOwnership, List | called by every goroutine, no lock |
| quarantine and sweeper (`gc/`) | `quarantine/`, the mtimes in it | RunOnce: recheck, restore, unlink; recheck, move | store, coordinator |
| coverage client and refresher (`coverage/`) | none; writes `coverage/` | QueryRoots with retries; RunOnce batch by batch | store, coordinator |
| pause circuit breaker (`pausectl/`, `api/pause.go`) | `pause/current.json`, `pause/last_sequence_number`, a copy in memory | Apply, Load, IsPaused | API server only |
| signed delete (`api/delete.go`) | nonce cache in memory | handleDeleteSigned, nonceCache.Check | store |
| upload, replicate (`api/upload.go`, `api/replicate.go`) | a temporary file in `objects/` | handleUpload, handleReplicate; sweep of leftover temporary files | store |
| chunked upload and staging sweeper (`api/chunked.go`, `cmd/staging_sweeper.go`) | `staging/<root>/` | chunk, finalize, status; sweep of stale directories | store |
| tokens, directory fetch (`tokens/`, `dirfetch/`) | the list of trusted keys | Verify, AddKey, RefreshOnce | coordinator |
| challenges, downloads (`api/challenge*.go`, `api/client_challenge.go`, `api/download.go`, `store/merkle.go`) | a rate limiter | proofs and reads | store |
| identity, init, configuration, heartbeat (`identity/`, `cmd/init.go`, `config/`, `cmd/heartbeat.go`) | `provider_identity.key`, `coordinator_pub.pem`, `config.yaml` | LoadOrCreate, Init, Load, tickHeartbeat | coordinator, operator |
| server, CORS (`api/server.go`, `api/cors.go`) | none | routing | all handlers |

What is hard here: interleavings over files that nothing locks (refresher, sweeper,
requests, operator); crashes between two files that belong together (rename and
Chtimes, `current.json` and `last_sequence_number`, chunk and meta, object and
index, creation and write of the key file); cached answers that are stale when used; retries of commands, chunks and
uploads; timers computed from mtimes that other parties change.  `PROJECT.json`
lists these hazards at their lines with the properties that cover them.

What makes each component correct:

- sweeper and refresher: no object leaves service without the coordinator's own,
  live verdict; both waiting periods are kept; an object that must be kept again
  comes back;
- store: an addressable object has its index; a deleted object stays deleted;
- upload and replicate: what is stored hashes to its name, what was acknowledged is
  stored and has an ownership record if its token named an owner, no temporary file stays;
- challenges and downloads: every answer is a proof the verifier accepts, every range
  exactly the bytes asked for, although the files change between two reads;
- identity and setup: one key for ever in a data directory, and a node that stays in its
  directory; no id that was not given for this node;
- trust list: every trusted key goes back to the seed, what is published comes to be
  trusted; rate limiter: at most twice the limit in any window,
  and nobody refused who has kept to it;
- circuit breaker: an acknowledged pause is not lost, sequence numbers never go
  back, nothing is pruned under a pause;
- signed delete: a process accepts a command at most once;
- chunked upload: staging never holds torn files without a writer, an upload
  reported complete can be finalized, staging is reclaimed in the end.

## Modules

```
Store <- Coordinator <- Refresher --+
                    ^-- Sweeper   --+-- Retention -- PausedProvider (with Pause)
Store <---------------- Handlers  --+       |
                                       implements ObjectLife
Pause        SignedDelete        Staging

Merkle <- Ingest <- Serving            Setup, TrustList, RateLimiter <- Node
```

- **Store**: the files.  Bytes are determined by the root, so an object is its
  mtime (`obj`, `quar`) or `Absent`; `idx` and `own` are sets of roots; a coverage
  record is the two fields a prune decision reads.  `NextCoverage` is the marker
  rule of `UpdateCoverage`; reading the old record and renaming the new one are
  separate steps of its callers.  `Budget` bounds how often each event of the
  environment happens, `Faults` says which failures
  happen: of the coordinator (`"coord"`), of any file operation (`"io"`), of writes to
  a full disk (`"full"`).
- **Coordinator** (external): a verdict per root, and whether its version sends
  it.  `MayReclaim` is the accessor of `coverage/client.go` with its fallback to
  the billing answer, of which nothing is assumed.
- **Refresher**: `RunOnce` as list, query, and per root read and write.
- **Sweeper**: `RunOnce` with one action per recheck and per system call.  `swNow`
  is the one time a cycle takes; entries are listed with their mtime at the start
  and used later, as in the code.  `condemned`, `movedAt` and `anchored` are
  history variables.
- **Handlers**: upload (temporary file, index, rename, ownership), signed delete
  (four Removes, errors ignored) and the operator's `mv`.
- **Retention**: the composition, crashes and the properties.
- **ObjectLife**: what the retention subsystem promises, in eight actions: a root's
  bytes are served or in quarantine; the coordinator passes a sentence on it, which
  is carried out or lapses; the owner commands a removal.  `Retention` implements it
  (`Life`, `ImplementsObjectLife`): a root is served if its file is in `objects/`,
  quarantined if it is in `quarantine/`, wanted if it is in `held`, and the sentence
  is what the sweeper is about to do between its recheck and its rename or unlink.
- **Pause**: `Apply` holds its mutex, so one is in progress at a time, but crashes
  fall between its writes; `Load(k)` restarts into a binary with key `k`.
- **PausedProvider**: Pause and Retention in one process under one clock, wired as
  `cmd/start.go` wires them.
- **SignedDelete**: several requests for one root at once, two owners, the cache.
  `Lag` bounds the time from a request's `time.Now()` to its nonce check; the
  constants must satisfy `2 * Drift + Lag <= TTL`, with the code's values
  10 min + Lag <= 15 min.
- **Staging**: one root's staging directory.  A file's content is the chunk and
  the cut it belongs to, or `Empty` between open and write; `RemoveAll` lists,
  unlinks and removes in separate steps, and a write to an unlinked file is lost.
- **Merkle**: tree, padding, incremental builder, proofs and the tree over the blocks
  of a chunk, as operators.  `Write` is the builder's loop: each `Round` takes what the
  current chunk has room for, and closes the chunk when it is full.  A hash is a tuple that holds what was hashed.  (The code
  hashes `"%d%x"` of index and bytes, which tells apart all indices of one object of
  fewer than 100 chunks or blocks, since the number of hex digits is even; that a
  longer index may run into the digits is left out.)
- **Ingest**: uploads and replications of a root, several at once: every read of the
  body may end anywhere, `PutStream` and `PutOwnership` are one action per system
  call, the sweep of temporary files looks and removes in two steps.  Request tokens
  have been verified.  `PutOwnership`'s Stat takes any error for "no record", as the code
  does, so with failing file operations it goes on to replace one.  The owner a token claims is chosen where the code first uses it.
- **Serving**: Ingest together with an audit challenge, which reads the index and
  opens the object in two steps, and the download as an operator on the open file.
- **Setup**: processes, known by their number, that run `init` or `start`.  Each file
  is truncated and written in two steps, and a process may end between any two; the
  key pair it would generate carries its number.  Each data directory has a key file of
  its own: an `init` works in the one it is given with `--data` and writes its path into
  the configuration, from which `start` takes it.  A torn `config.yaml` is an empty one:
  it parses as a configuration without id and API key, whose data directory is `./data`.
- **TrustList**: the verifier's list, the loop that extends it, and a coordinator that
  publishes directories and replaces its key.  `Answers` is what may arrive: any
  directory it ever signed, or a forged one.
- **RateLimiter**: `allow` as an operator, folded over every run of `MaxChallenges`
  challenges.  The handler reads the clock before `allow` locks its mutex
  (`api/client_challenge.go:103`), so a reading may be up to `Lag` old, and older than
  one that passed before it.
- **Node**: the process that serves has the trust list, seeded with the key it loaded.
- **MC\***: instances for TLC (budgets, commands).  Operators whose comment
  says *Mutant* are the plausible bugs used to test that a property can fail.

A restart is one step: the files stay, the variables of the goroutines start
over.  Power loss (unsynced renames) is not modelled.

## Runs

Runs that pass:

| run | instance | properties |
|---|---|---|
| Pause | 2 cold keys, 3 numbers, clock 0..2, crashes between all writes | numbers increase, acknowledged pauses survive, the sequence file is never ahead |
| RetentionFaults | 1 root, windows 1 and 1, clock 0..2; 1 crash, 1 change of verdict, 1 version switch, failing coordinator and file operations | held objects stay, both windows, a kept object comes back, ObjectLife is implemented |
| RetentionRequests | 1 root, windows 1 and 1, clock 0..2; 1 signed delete, 1 upload, 1 `mv` by the operator, a full disk | held objects stay and both windows are kept while others remove the object, upload it anew and change its mtime under a sweep; ObjectLife is implemented |
| SignedDelete | 2 requests, 2 owners, 3 commands, 3 uploads, 1 restart, drift 1, TTL 3 | a process accepts a command once |
| Staging | one root cut into 2 chunks, 3 requests, failing file operations, 1 crash | torn files only under a writer, complete means finalizable, staging is reclaimed |
| Serving | an object of 5 bytes and one of 4, in chunks of 2 and blocks of 1; 2 requests, bodies that are the one or the other, for either root, or empty, 1 delete, failing operations, any number of crashes | content addressing, builder = buffered tree, index before object, acknowledged means stored, proofs verify, ranges exact, temporary files reclaimed |
| Node | 2 processes, 2 data directories, one of them the default, 2 coordinator keys, 1 authority; limit 1, window 2, lag 1, every run of 5 challenges of 2 accounts | one identity in a directory, kept; ids are registered; trust goes back to the seed; accepted signers stay trusted; what is published is trusted; the rate is bounded |

The bounds are the smallest at which the cases happen.  With windows of one tick and
a clock of two an object is marked, moved and unlinked in three cycles, and a deadline
missed by one tick is seen; the budgets of failures are spent in one run and those of
requests in the other.  The violation runs have a retention window of two ticks.  All
have one root: the sweeper and the refresher work root by root, and the proofs cover
any set of roots, windows and budgets.  In Staging three requests are what a race needs (two chunks and a
finalize, or a chunk, its retry and a sweep).  In Serving one object has a
partial last chunk and a tree with padding, the other ends at a chunk boundary, and each
is the wrong body for the other's root; a segment of one or two bytes (the code's copy
buffer is as long as a chunk) ends at or across a boundary, from wherever the last one
left off; two requests are what overlapping uploads need, and the age of a temporary file
stops counting where it is stale.  In Node two processes race for the key and the
port, in one directory or in two, or one sets the node up and the other serves; the proofs cover any number of them.
A run of five challenges with gaps of up to a window spans three windows, and is the
shortest in which a late reading makes an interval of a whole window see three times
the limit.  Every mutant listed in `PROJECT.json`
is caught within these bounds.

Runs that TLC refutes, each a disagreement between the code and what it says of
itself (quoted in `PROJECT.json`):

| run | what happens |
|---|---|
| PausedProvider | the sweeper prunes under a pause, which it is never given |
| QuarantineCrash | crash between rename and Chtimes; the object is unlinked with no time in quarantine |
| CoverageRace | the refresher writes an old marker over the sweeper's reset |
| ReuploadRace | the clean-up after an unlink removes the index of a new upload |
| DeleteQuarantined | a deleted object comes back from quarantine |

Deadlock is checked in every passing run except SignedDelete, which may stop
when the bounded clock and uploads are used up.

The models also have these behaviours, which a reader of the code should know; no
run is spent on them:

- after a crash between the two writes of a pause the number already in
  `current.json` is accepted once more, where the comment at
  `pausectl/pausectl.go:250` expects it to be rejected; it was never acknowledged, so
  `AckedIncreasing` holds;
- the nonce cache is lost at a restart (`api/delete.go:238`): `NoReplay` is a
  property of one process;
- `handleDeleteSigned` verifies the owner and deletes later, with no second look
  (`api/delete.go:86`);
- overwriting a chunk does not change the directory's mtime, which is the age the
  staging sweeper looks at (`store/store.go:650`);
- a finalize that meets a chunk being written fails its hash and drops the staging;
- of two overlapping uploads of one root with different owners both may find no
  ownership record, and the second replaces the first's, without any fault; and a Stat
  that fails for another reason than a missing file counts as "no record" too
  (`store/store.go:243`).  The comment at `store/store.go:227` speaks of a record that is
  written exactly once;
- a retry after a failed ownership write succeeds, where the comment at
  `api/upload.go:73` expects it to be rejected;
- `handleReplicate` does not consult `accept_uncontracted_data`;
- a body that stalls for `objTempMaxAge` loses its temporary file to the sweep and
  fails at its rename: the upload is refused, and its index is left behind;
- leftovers are swept an hour after a start at the earliest
  (`cmd/staging_sweeper.go:40`), where `store/stream.go:51` speaks of startup;
- a download of an object that is not there is answered with 200 and no bytes, which
  a replication rejects as an empty stream (`api/download.go:51`);
- an `init --force` that fails after its third step leaves a configuration without id
  and API key (`cmd/init.go:125`);
- an `init` that is killed between truncating and writing `config.yaml` leaves an empty
  file, which loads as a configuration without id and with the data directory `./data`
  (`config/config.go:139`).  Unless that is the directory of the node, the next `start`
  makes a second key there and signs with it, where the comment at `cmd/start.go:64` says
  that a key is never silently regenerated; it sends no heartbeats, so the coordinator is
  not told the second key under the id of the first (`OneIdentity`);
- `init` takes the port also with `--skip-probe`, which its message at
  `cmd/init.go:138` recommends for a provider that is running;
- readings of the clock that reach the rate limiter late can make three windows meet
  in an interval of one, so the bound of twice the limit is for an interval shorter
  by that lag (`api/client_challenge.go:103`);
- directories carry no date that is checked: an old one adds keys again that a later
  one dropped, and no key is ever removed while the process runs.

### Fairness

- RetentionFaults: weak fairness of the sweeper (a ticker loop that never
  returns, `gc/sweeper.go:346`), strong fairness of an answered recheck and of a
  restore whose rename succeeds: a coordinator and a file system asked again every
  cycle do not fail every time.  Without these the code promises nothing.  Nothing is
  assumed of the refresher or of requests.
- Staging: time passes and the hourly sweep runs (`cmd/staging_sweeper.go:42`), and a
  removal the sweeper tries again every hour does not fail for ever.  Requests have no
  fairness: the server has no read timeout, a body may never end.
- Serving: the same for the temporary files in `objects/`: the clock, the hourly sweep,
  and strong fairness of each Remove, which is tried again every hour and need not
  succeed while the process keeps crashing.
- Node: strong fairness of taking over the present directory (`dirfetch/refresher.go:150`
  asks every minute; not every answer is lost or old) and weak fairness of the loop over
  its signers.  `PublishedIsTrusted` is conditional: the process stays up, has an API
  key, and its seed stays the coordinator's key.

## Proofs

All proofs are for arbitrary constants under the named assumptions of the modules, and
every safety property of the passing runs, invariant or action property, is proved.  TLC
has also checked the inductive invariants of Serving and Staging on the instances of
their runs.

- **PauseProofs**: `TypeOK`, `AckedIncreasing`, `AckedPauseInForce`,
  `SequenceNotAhead`.  The inductive invariant adds the write order (while a signal
  is being persisted its number is above the one in memory, and the sequence file is
  behind `current.json`), that every acknowledged number is at most the one
  in the sequence file and in memory, and that the owed pause is at most the
  one in `current.json`.  Without the second part a restart could bring back a lower
  number.
- **RetentionProofs**: `TypeOK` of the composition, action by action.
  `HeldUnlessCondemned` rests on the sweeper being about to
  move only a root it has condemned, and on the root of a delete in flight being no
  longer held; `QuarantineWindowKept` on the mtime of an anchored entry being the time
  of the cycle that moved it and on the listing of phase 1 agreeing with the files that
  are still there; `RetentionWindowKept` on every marker, stored, built or read, being no
  older than the first reclaimable answer.  `RetentionImplementsLife` maps the initial
  states and every action of Retention to ObjectLife; it rests on `TypeOK` and on the
  lemma that a recheck with the verdict "reclaim" is the coordinator's own.
- **SignedDeleteProofs**: `TypeOK`, `NoReplay`.  The invariant says that an accepted
  command is remembered at least until it falls out of the drift window plus `Lag`,
  and that no request's `now` is further than `Lag` behind the clock.
- **NaturalProofs**: induction over the naturals with a set in the place of a predicate,
  from the least element of a non-empty set.  It is what the proofs about recursive
  functions use; each of them also needs a lemma that a function with the recursive
  equation exists (`LevelsEquation`, `PathEquation`, `WriteEquation`, `RunEquation`).
- **MerkleProofs**: for every chunk size and length.  `TreeIsInjective`: equal roots come
  from equal lists of leaves; trees of one height agree level by level from the root
  down, one of another height would need a leaf that is an inner node, and padding is
  not a leaf.  `RootNamesOneObject`: with it equal roots come from equal objects.
  `ProofLeadsToRoot`: going up, the path stays on the ancestors of the leaf.  The
  builder: after k bytes it holds the hashes of the full chunks among them and the
  bytes of the rest (`Fed`), however they came, so that `Finish` returns the hashes of
  the whole.  `FedRound` is one round of the loop, which takes at least one byte if there
  is one; `FedWrite` follows for a segment of any length by induction on the rounds.
  That hashes are tuples with a tag is the assumption that SHA-256 and
  SHA3-512 do not collide; a leaf hashes 32 bytes and an inner node 128, so they are
  never the same input.  Chunk hashes are compared only at equal positions, where the
  decimal index in front of the hex digits is the same on both sides.
- **ServingProofs**: `TypeOK`, `ContentAddressed`, `IndexedFirst`, `AckedIsStored`,
  `BuilderAgrees`, `ProofsVerify`, `RangesExact`, for any roots, bodies,
  numbers of requests and crashes.  The invariant adds that the builder of a streaming
  request is `Fed` with what was read; that a request past the comparison with the root
  has the object's own bytes and hashes (here `RootNamesOneObject` is used: the code
  only compares roots); that one past its writes has left them behind unless the root is
  deleted; that one about to write an ownership record has an owner; that a delete in flight is of a root that counts as deleted;
  and that what a challenge has read is the index and the bytes of its root.  `ReplyToRange` is
  the reply to a range for any object and any bounds, also past its end.
- **StagingProofs**: `TypeOK`, `TornOnlyWhileWriting`, `CompleteIsFinalizable`.  The
  invariant adds that a request at work has a total a client sent and an index below it,
  that an idle one is back at the start, and that the index of every staged chunk is below
  such a total.  With one total n, n staged chunks are then all of 0..n-1.  The last
  property has the hypothesis that all clients cut the object the same way
  (`Totals = {n}`), as its comment says: otherwise the number of files and the meta file
  can belong to different cuts.
- **NodeProofs**: `TypeOK`, `OneIdentity`, `IdentityKept`, `IdRegistered`,
  `TrustRooted`, `AcceptedStaysTrusted`, `RateBound`.  The invariant adds for Setup that
  a process past LoadOrCreate has a key and the coordinator's key in hand, that at most
  one process is about to write the key file of a directory and the file is still as it
  created it (hence nobody else can create or load it), that a process waiting for the
  coordinator's answer is in the registry, and that an id leads to the directory of its
  key: wherever one is configured, in use or reported, the key beside it is the one it
  was given for, or it is the id of a node set up by hand, which one directory has; for TrustList that every key still to be added
  is vouched for by the seed, that the list a Verify reads is contained in the present
  one, and that the process that serves is the only one with a list.
  `EveryRunWithinRate` is for runs of any length: the log splits into what the present
  window has counted, what the one before has, and what is older (`Counts`); an interval
  shorter than the window by the lag that a new challenge falls into has nothing of the
  third part.

Only model-checked: the liveness properties `KeptIsRestored`, `StagingReclaimed`,
`TempsReclaimed` and `PublishedIsTrusted` (liveness under fairness is out of the
prover's reach), and the five refuted properties, whose counterexamples are the result.

## Not modelled

Routing, CORS and the listing of objects have no state of their own; the disk-free
query and `UsedBytes` are system calls whose numbers only go into a heartbeat; the
buffered `Store.Put` has no caller in the daemon.  Checks of requests that end in a 4xx
and change nothing are not actions.  Coverage records of older versions (whose
`contracted` key had the opposite meaning) are not initial states.  Of the coverage
client the retry loop with its backoff is folded into whether an answer comes.  Metrics,
logs, defaults of configuration values other than the data directory and the wording of replies are left out.

## Plan

1. Coverage records of older versions as initial states of Retention.
2. The finalize of a chunked upload joined to Ingest, in place of its hash predicate.
3. The parts of the liveness properties that are safety (what a sweep leaves behind, what
   a fetched directory adds) as action properties with proofs.
