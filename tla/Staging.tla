------------------------------ MODULE Staging ------------------------------
(***************************************************************************)
(* Chunked uploads of one root (api/chunked.go) through staging/<root>/:   *)
(* chunk and finalize requests that run concurrently and never lock, the   *)
(* hourly sweep of stale staging directories (cmd/staging_sweeper.go,      *)
(* store.SweepStaleStaging) and crashes between any two file operations.   *)
(*                                                                         *)
(* The content of a file is <<n, name>>: the bytes that belong in that file*)
(* when the object is cut into n chunks.  A file that was opened (created  *)
(* or truncated) and not yet written is Empty; bytes read from it, or from *)
(* chunks of different cuts, do not make up the object.  What PutStream    *)
(* does with the assembled bytes is in Handlers, file by file.             *)
(***************************************************************************)
EXTENDS Integers, Sequences, FiniteSets

CONSTANTS
    Requests,            \* request goroutines
    Sweeper,             \* the goroutine of runStagingSweeper
    Totals,              \* into how many chunks clients cut the object
    StagingMaxAge,       \* stagingMaxAge, in ticks
    AcceptUncontracted,  \* the accept_uncontracted_data policy
    Faults,              \* {"io"} if file operations fail
    MaxRequests,         \* bound: how many requests arrive
    MaxCrashes           \* bound: how often the process crashes

ASSUME StagingAssumption ==
    /\ Sweeper \notin Requests
    /\ Totals \subseteq Nat \ {0}
    /\ StagingMaxAge \in Nat \ {0}
    /\ AcceptUncontracted \in BOOLEAN
    /\ Faults \subseteq {"io"}
    /\ MaxRequests \in Nat
    /\ MaxCrashes \in Nat

Actors == Requests \cup {Sweeper}
Meta == -1
Indices == UNION {0..n : n \in Totals}   \* with an index past the end to refuse
Names == Indices \cup {Meta}

Absent == -1
Age == 0..StagingMaxAge \cup {Absent}

NoFile == <<-1, -1>>
Empty == <<0, -1>>
Contents == {<<n, name>> : n \in Totals, name \in Names} \cup {NoFile, Empty}

VARIABLES
    dirAge,     \* age of staging/<root>'s mtime, stopping at StagingMaxAge; Absent
    files,      \* the files in it
    object,     \* what objects/<root> was assembled from; <<>> if absent
    pc,         \* where each request and the sweeper stand
    total, at,  \* the chunk count a request works with, and the index it is at
    got,        \* what the staged-chunks reader of a finalize has read
    listed,     \* the names a RemoveAll has still to remove
    faulted,    \* history: a crash or a failed write may have left a torn file
    requests, crashes

localVars == <<pc, total, at, got, listed>>
vars == <<dirAge, files, object, localVars, faulted, requests, crashes>>

Present == {name \in Names : files[name] # NoFile}

-----------------------------------------------------------------------------
Idle ==
    /\ pc' = [a \in Actors |-> "idle"]
    /\ total' = [p \in Requests |-> 0]
    /\ at' = [p \in Requests |-> 0]
    /\ got' = [p \in Requests |-> <<>>]
    /\ listed' = [a \in Actors |-> {}]

Init ==
    /\ dirAge = Absent
    /\ files = [name \in Names |-> NoFile]
    /\ object = <<>>
    /\ pc = [a \in Actors |-> "idle"]
    /\ total = [p \in Requests |-> 0]
    /\ at = [p \in Requests |-> 0]
    /\ got = [p \in Requests |-> <<>>]
    /\ listed = [a \in Actors |-> {}]
    /\ faulted = FALSE
    /\ requests = 0
    /\ crashes = 0

Arrive(p) ==
    /\ pc[p] = "idle"
    /\ requests < MaxRequests
    /\ requests' = requests + 1

Goto(a, label) == pc' = [pc EXCEPT ![a] = label]

\* The reply is written; nothing of the request is left.
Respond(p) ==
    /\ Goto(p, "idle")
    /\ total' = [total EXCEPT ![p] = 0]
    /\ at' = [at EXCEPT ![p] = 0]
    /\ got' = [got EXCEPT ![p] = <<>>]
    /\ UNCHANGED listed

-----------------------------------------------------------------------------
\* Mutant: an index one past the end is let in.
ChunkInRangeOffByOne(n, i) == i <= n

ChunkInRange(n, i) == i < n

\* Mutant: the chunk file is created before its body is awaited.
UploadChunkEager(p, n, i) ==
    /\ Arrive(p)
    /\ ChunkInRange(n, i)
    /\ dirAge' = 0
    /\ files' = [files EXCEPT ![i] = Empty]
    /\ Goto(p, "body")
    /\ total' = [total EXCEPT ![p] = n]
    /\ at' = [at EXCEPT ![p] = i]
    /\ UNCHANGED <<object, got, listed, faulted, crashes>>

\* handleUploadChunk with a valid token: MkdirAll, then the body is awaited.
UploadChunk(p, n, i) ==
    /\ Arrive(p)
    /\ ChunkInRange(n, i)
    /\ dirAge' = IF dirAge = Absent THEN 0 ELSE dirAge
    /\ Goto(p, "body")
    /\ total' = [total EXCEPT ![p] = n]
    /\ at' = [at EXCEPT ![p] = i]
    /\ UNCHANGED <<files, object, got, listed, faulted, crashes>>

\* The client gives up, or the body is empty.
BodyFails(p) ==
    /\ pc[p] = "body"
    /\ Respond(p)
    /\ UNCHANGED <<dirAge, files, object, faulted, requests, crashes>>

\* The open of os.WriteFile; only a new name changes the directory's mtime.
Open(name) ==
    /\ dirAge # Absent
    /\ files' = [files EXCEPT ![name] = Empty]
    /\ dirAge' = IF files[name] = NoFile THEN 0 ELSE dirAge

OpenChunk(p) ==
    /\ pc[p] = "body"
    /\ \/ /\ Open(at[p])
          /\ Goto(p, "write")
          /\ UNCHANGED <<total, at, got, listed>>
       \/ /\ dirAge = Absent \/ "io" \in Faults
          /\ Respond(p)
          /\ UNCHANGED <<dirAge, files>>
    /\ UNCHANGED <<object, faulted, requests, crashes>>

\* The write of os.WriteFile; to a file that was unlinked meanwhile ("write_lost")
\* it succeeds without a trace.
WriteChunk(p) ==
    /\ pc[p] \in {"write", "write_lost"}
    /\ \/ /\ files' = IF pc[p] = "write"
                      THEN [files EXCEPT ![at[p]] = <<total[p], at[p]>>] ELSE files
          /\ Goto(p, "meta")
          /\ UNCHANGED <<total, at, got, listed, faulted>>
       \/ /\ "io" \in Faults
          /\ Respond(p)
          /\ faulted' = TRUE
          /\ UNCHANGED files
    /\ UNCHANGED <<dirAge, object, requests, crashes>>

\* The meta file; a failure is ignored and the chunk acknowledged all the same.
OpenMeta(p) ==
    /\ pc[p] = "meta"
    /\ \/ /\ Open(Meta)
          /\ Goto(p, "write_meta")
          /\ UNCHANGED <<total, at, got, listed>>
       \/ /\ dirAge = Absent \/ "io" \in Faults
          /\ Respond(p)
          /\ UNCHANGED <<dirAge, files>>
    /\ UNCHANGED <<object, faulted, requests, crashes>>

WriteMeta(p) ==
    /\ pc[p] \in {"write_meta", "write_meta_lost"}
    /\ \/ /\ files' = IF pc[p] = "write_meta"
                      THEN [files EXCEPT ![Meta] = <<total[p], Meta>>] ELSE files
          /\ UNCHANGED faulted
       \/ /\ "io" \in Faults
          /\ faulted' = TRUE
          /\ UNCHANGED files
    /\ Respond(p)
    /\ UNCHANGED <<dirAge, object, requests, crashes>>

-----------------------------------------------------------------------------
\* RemoveAll begins; its listing is a step of its own.
BeginRemoveAll(a) ==
    /\ Goto(a, "remove")
    /\ UNCHANGED listed

\* handleUploadFinalize: the policy gate, then the chunk count from meta.  A
\* missing or unreadable meta is answered with a 400 and changes nothing.
UploadFinalize(p, contracted) ==
    /\ Arrive(p)
    /\ \/ /\ ~ contracted /\ ~ AcceptUncontracted
          /\ BeginRemoveAll(p)
          /\ UNCHANGED total
       \/ /\ contracted \/ AcceptUncontracted
          /\ files[Meta] \notin {NoFile, Empty}
          /\ total' = [total EXCEPT ![p] = files[Meta][1]]
          /\ Goto(p, "stat")
          /\ UNCHANGED listed
    /\ UNCHANGED <<dirAge, files, object, at, got, faulted, crashes>>

\* Mutant: the loop runs once too often.
AdvancePastEnd(p, loop, label) ==
    IF at[p] + 1 <= total[p]
    THEN at' = [at EXCEPT ![p] = @ + 1] /\ Goto(p, loop)
    ELSE at' = [at EXCEPT ![p] = 0] /\ Goto(p, label)

\* Step to the next chunk of the loop, or on to `label' after the last.
Advance(p, loop, label) ==
    IF at[p] + 1 < total[p]
    THEN at' = [at EXCEPT ![p] = @ + 1] /\ Goto(p, loop)
    ELSE at' = [at EXCEPT ![p] = 0] /\ Goto(p, label)

StatChunk(p) ==
    /\ pc[p] = "stat"
    /\ \/ /\ files[at[p]] = NoFile
          /\ Respond(p)
       \/ /\ files[at[p]] # NoFile
          /\ Advance(p, "stat", "read")
          /\ UNCHANGED <<total, got, listed>>
    /\ UNCHANGED <<dirAge, files, object, faulted, requests, crashes>>

\* stagedChunksReader.Read: the chunk's bytes as they are now.  A chunk that is
\* gone fails PutStream with a 500 that leaves staging alone.
ReadChunk(p) ==
    /\ pc[p] = "read"
    /\ \/ /\ files[at[p]] = NoFile \/ "io" \in Faults
          /\ Respond(p)
       \/ /\ files[at[p]] # NoFile
          /\ got' = [got EXCEPT ![p] = IF files[at[p]] = Empty THEN @
                                       ELSE Append(@, files[at[p]])]
          /\ Advance(p, "read", "assembled")
          /\ UNCHANGED <<total, listed>>
    /\ UNCHANGED <<dirAge, files, object, faulted, requests, crashes>>

Whole(n) == [j \in 1..n |-> <<n, j - 1>>]

\* The bytes hash to the root.
HashesToRoot(bytes) == \E n \in Totals : bytes = Whole(n)

\* PutStream's verdict.  An empty stream and a store error keep staging for a
\* retry, a wrong root drops it; so does a commit, once ownership is recorded.
FinishFinalize(p) ==
    /\ pc[p] = "assembled"
    /\ \/ /\ got[p] = <<>> \/ "io" \in Faults
          /\ Respond(p)
          /\ UNCHANGED object
       \/ /\ got[p] # <<>> /\ ~ HashesToRoot(got[p])
          /\ BeginRemoveAll(p)
          /\ UNCHANGED <<object, total, at, got>>
       \/ /\ HashesToRoot(got[p])
          /\ object' = got[p]
          /\ \/ BeginRemoveAll(p) /\ UNCHANGED <<total, at, got>>
             \/ "io" \in Faults /\ Respond(p)
    /\ UNCHANGED <<dirAge, files, faulted, requests, crashes>>

-----------------------------------------------------------------------------
Stale(age) == age >= StagingMaxAge

\* Mutant: a directory with a meta file is taken for a live upload.
SweepWithoutMeta ==
    /\ pc[Sweeper] = "idle"
    /\ dirAge # Absent
    /\ Stale(dirAge)
    /\ files[Meta] = NoFile
    /\ BeginRemoveAll(Sweeper)
    /\ UNCHANGED <<dirAge, files, object, total, at, got, faulted, requests, crashes>>

\* SweepStaleStaging: the Stat and its verdict.
SweepStaleStaging ==
    /\ pc[Sweeper] = "idle"
    /\ dirAge # Absent
    /\ Stale(dirAge)
    /\ BeginRemoveAll(Sweeper)
    /\ UNCHANGED <<dirAge, files, object, total, at, got, faulted, requests, crashes>>

\* os.RemoveAll lists the directory, ...
ListDir(a) ==
    /\ pc[a] = "remove"
    /\ listed' = [listed EXCEPT ![a] = Present]
    /\ Goto(a, "removing")
    /\ UNCHANGED <<dirAge, files, object, total, at, got, faulted, requests, crashes>>

\* ... unlinks each name, under whoever is about to write to it, ...
Unlink(a, name) ==
    /\ pc[a] = "removing"
    /\ name \in listed[a]
    /\ listed' = [listed EXCEPT ![a] = @ \ {name}]
    /\ files' = [files EXCEPT ![name] = NoFile]
    /\ dirAge' = IF files[name] = NoFile THEN dirAge ELSE 0
    /\ pc' = [q \in Actors |->
                IF pc[q] = "write" /\ at[q] = name THEN "write_lost"
                ELSE IF pc[q] = "write_meta" /\ name = Meta THEN "write_meta_lost"
                ELSE pc[q]]
    /\ UNCHANGED <<object, total, at, got, faulted, requests, crashes>>

\* The end of a RemoveAll is the end of its request, or of the sweep.
EndRemoveAll(a) ==
    /\ Goto(a, "idle")
    /\ listed' = [listed EXCEPT ![a] = {}]
    /\ \/ /\ a \in Requests
          /\ total' = [total EXCEPT ![a] = 0]
          /\ at' = [at EXCEPT ![a] = 0]
          /\ got' = [got EXCEPT ![a] = <<>>]
       \/ a = Sweeper /\ UNCHANGED <<total, at, got>>

\* ... and removes the directory, unless a file has been created since.
RemoveDir(a) ==
    /\ pc[a] = "removing"
    /\ listed[a] = {}
    /\ dirAge' = IF Present = {} THEN Absent ELSE dirAge
    /\ EndRemoveAll(a)
    /\ UNCHANGED <<files, object, faulted, requests, crashes>>

\* An unlink that fails ends the removal; the error is dropped or logged.
RemoveAllFails(a) ==
    /\ pc[a] = "removing"
    /\ "io" \in Faults
    /\ EndRemoveAll(a)
    /\ UNCHANGED <<dirAge, files, object, faulted, requests, crashes>>

-----------------------------------------------------------------------------
Older(age) == IF age \in {Absent, StagingMaxAge} THEN age ELSE age + 1

Tick ==
    /\ dirAge' = Older(dirAge)
    /\ UNCHANGED <<files, object, localVars, faulted, requests, crashes>>

Crash ==
    /\ crashes < MaxCrashes
    /\ crashes' = crashes + 1
    /\ Idle
    /\ faulted' = TRUE
    /\ UNCHANGED <<dirAge, files, object, requests>>

RemoveAll(a) ==
    \/ ListDir(a)
    \/ \E name \in Names : Unlink(a, name)
    \/ RemoveDir(a)
    \/ RemoveAllFails(a)

Serve(p) ==
    \/ \E n \in Totals, i \in Indices : UploadChunk(p, n, i)
    \/ BodyFails(p)
    \/ OpenChunk(p)
    \/ WriteChunk(p)
    \/ OpenMeta(p)
    \/ WriteMeta(p)
    \/ \E contracted \in BOOLEAN : UploadFinalize(p, contracted)
    \/ StatChunk(p)
    \/ ReadChunk(p)
    \/ FinishFinalize(p)
    \/ RemoveAll(p)

Sweep == SweepStaleStaging \/ RemoveAll(Sweeper)

Next == (\E p \in Requests : Serve(p)) \/ Sweep \/ Tick \/ Crash

Spec == Init /\ [][Next]_vars

\* Time passes, the sweeper's timer keeps firing, and a removal that is tried
\* again every hour does not fail every time; nothing is assumed of the requests,
\* whose bodies have no read timeout.
Fairness ==
    /\ WF_vars(Tick)
    /\ WF_vars(Sweep)
    /\ \A name \in Names : SF_vars(Unlink(Sweeper, name))
    /\ SF_vars(RemoveDir(Sweeper))

FairSpec == Spec /\ Fairness

-----------------------------------------------------------------------------
\* The type invariant: in particular a request never works on an index outside
\* its chunk count.
TypeOK ==
    /\ dirAge \in Age
    /\ files \in [Names -> Contents]
    /\ object \in Seq(Contents)
    /\ pc \in [Actors -> {"idle", "body", "write", "write_lost", "meta", "write_meta",
                          "write_meta_lost", "stat", "read", "assembled", "remove",
                          "removing"}]
    /\ total \in [Requests -> Totals \cup {0}]
    /\ at \in [Requests -> Nat]
    /\ \A p \in Requests : at[p] = 0 \/ at[p] \in 0..(total[p] - 1)
    /\ got \in [Requests -> Seq(Contents)]
    /\ listed \in [Actors -> SUBSET Names]
    /\ faulted \in BOOLEAN
    /\ requests \in 0..MaxRequests
    /\ crashes \in 0..MaxCrashes

\* As long as the process does not crash and no write fails, a truncated file is
\* always one that a request is about to fill: retries, clients that give up and
\* removals under a writer never leave a torn chunk or meta file for a resume or
\* a finalize to trip over.
TornOnlyWhileWriting ==
    ~ faulted => \A name \in Names : files[name] = Empty =>
        \E p \in Requests :
            \/ pc[p] = "write" /\ at[p] = name
            \/ pc[p] = "write_meta" /\ name = Meta

\* handleUploadStatus reports "complete" only if finalize finds every chunk, as
\* long as all clients cut the object the same way.
Complete ==
    /\ files[Meta] \notin {NoFile, Empty}
    /\ Cardinality(Present \ {Meta}) = files[Meta][1]

CompleteIsFinalizable ==
    Complete => \A i \in 0..(files[Meta][1] - 1) : files[i] # NoFile

\* Once the clients have stopped, whatever they left in staging is reclaimed for
\* good, even if the process crashed in the middle of a removal.
StagingReclaimed == <>[](dirAge = Absent)
=============================================================================
