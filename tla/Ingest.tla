------------------------------- MODULE Ingest -------------------------------
(***************************************************************************)
(* Single-shot uploads and replications (api/upload.go, api/replicate.go)  *)
(* through PutStream and PutOwnership, byte by byte and file by file:      *)
(* several requests at once for the same root, bodies that break off or do *)
(* not hash to the root, the sweep of .tmp-stream-* leftovers, a delete,   *)
(* failing system calls and crashes.                                       *)
(*                                                                         *)
(* A root is the hex form of the tree hash of the bytes it was computed    *)
(* from.  Tokens have been verified; what is left of one is the owner it   *)
(* claims, or NoOwner if it lacks either key.                              *)
(***************************************************************************)
EXTENDS Merkle, FiniteSets

CONSTANTS
    Requests,            \* request goroutines
    Roots,               \* the roots that tokens name
    Original,            \* the bytes that each of them was computed from
    Bodies,              \* what clients and source providers really send
    Owners,              \* owner keys in upload tokens
    NoOwner,
    NoTemp,
    NoRoot,
    NoRequest,
    TempMaxAge,          \* objTempMaxAge, in ticks
    AcceptUncontracted,  \* the accept_uncontracted_data policy
    Faults,              \* {"io"} if file operations fail
    MaxIngests,          \* bound: how many uploads and replications arrive
    MaxDeletes           \* bound: how many roots are deleted, once each

\* The tree hash that a root spells out, and the index of its bytes.
RootHash == [r \in Roots |-> BuildMerkleTree(Original[r])]
TrueIndex == [r \in Roots |-> ChunkHashes(Original[r], ChunkSize)]

Byte == 0..255
Temps == 1..MaxIngests
Absent == -1

ASSUME IngestAssumption ==
    /\ \A r \in Roots : Original[r] \in Seq(Byte) \ {<<>>}
    /\ Bodies \subseteq Seq(Byte)
    /\ NoOwner \notin Owners
    /\ NoTemp \notin Temps
    /\ TempMaxAge \in Nat \ {0}
    /\ AcceptUncontracted \in BOOLEAN
    /\ Faults \subseteq {"io"}
    /\ {MaxIngests, MaxDeletes} \subseteq Nat

VARIABLES
    objects,    \* objects/<root>: its bytes; <<>> if there is none
    index,      \* index/<root>.json: the chunk hashes; <<>> if there is none
    owner,      \* ownership/<root>.json: the owner, or NoOwner
    temps,      \* objects/.tmp-stream-*: age of the mtime, stopping at
                \* TempMaxAge; Absent
    pc,         \* where each request stands
    req,        \* its root, body, how much of it is spooled, its TreeBuilder, its
                \* temporary file, and the owner that its token claims
    swAt,       \* the temporary file the sweep is about to remove, or NoTemp
    delPc, delRoot,   \* the delete in progress
    acked,      \* history: <<root, whether an owner was claimed>> of acknowledged
                \* requests
    deleted,    \* history: roots of which a delete has begun
    ingests     \* how many have arrived

fileVars == <<objects, index, owner, temps>>
requestVars == <<pc, req>>
deleteVars == <<delPc, delRoot, deleted>>
ingestVars == <<fileVars, requestVars, swAt, deleteVars, acked, ingests>>

-----------------------------------------------------------------------------
IngestInit ==
    /\ objects = [r \in Roots |-> <<>>]
    /\ index = [r \in Roots |-> <<>>]
    /\ owner = [r \in Roots |-> NoOwner]
    /\ temps = [t \in Temps |-> Absent]
    /\ pc = [p \in Requests |-> "idle"]
    /\ req = [p \in Requests |-> NoRequest]
    /\ swAt = NoTemp
    /\ delPc = "idle" /\ delRoot = NoRoot
    /\ deleted = {}
    /\ acked = {}
    /\ ingests = 0

\* The files stay, with the temporary ones; everything else is lost.
IngestRestart ==
    /\ pc' = [p \in Requests |-> "idle"]
    /\ req' = [p \in Requests |-> NoRequest]
    /\ swAt' = NoTemp
    /\ delPc' = "idle" /\ delRoot' = NoRoot
    /\ UNCHANGED <<fileVars, deleted, acked, ingests>>

Goto(p, label) == pc' = [pc EXCEPT ![p] = label]

\* The reply is written; nothing of the request is left.
Respond(p) ==
    /\ Goto(p, "idle")
    /\ req' = [req EXCEPT ![p] = NoRequest]

Acknowledge(p, o) ==
    /\ acked' = acked \cup {<<req[p].root, o # NoOwner>>}
    /\ Respond(p)

\* The temporary file of a request; the rename needs it to be there still.
Linked(p) == temps[req[p].temp] # Absent

\* PutStream returns an error: its deferred clean-up, whose own error is ignored,
\* then a 4xx or 5xx.
Reject(p) ==
    /\ \/ temps' = [temps EXCEPT ![req[p].temp] = Absent]
       \/ "io" \in Faults /\ UNCHANGED temps
    /\ Respond(p)
    /\ UNCHANGED <<objects, index, owner, acked>>

-----------------------------------------------------------------------------
\* The request has been authorized and PutStream has created its temporary file.
\* A CreateTemp that fails is answered and changes nothing.
PutStream(p, r, bytes) ==
    /\ pc[p] = "idle"
    /\ ingests < MaxIngests
    /\ ingests' = ingests + 1
    /\ temps' = [temps EXCEPT ![ingests + 1] = 0]
    /\ Goto(p, "stream")
    /\ req' = [req EXCEPT ![p] =
                 [root |-> r, body |-> bytes, sent |-> 0, builder |-> NewTreeBuilder,
                  temp |-> ingests + 1, claim |-> NoOwner]]
    /\ UNCHANGED <<objects, index, owner, swAt, deleteVars, acked>>

\* handleUpload: the policy gate comes before the first byte.
Upload(p, r, bytes, contracted) ==
    /\ contracted \/ AcceptUncontracted
    /\ PutStream(p, r, bytes)

\* handleReplicate does not consult the policy.  The body is the source's answer
\* to a download; a source that does not have the object answers with no bytes.
Replicate(p, r, bytes) == PutStream(p, r, bytes)

\* One round of io.CopyBuffer: n bytes go to the temporary file (or, if it was
\* unlinked meanwhile, nowhere) and to the tree builder.
CopyBuffer(p, n) ==
    /\ pc[p] = "stream"
    /\ n <= Least(ChunkSize, Len(req[p].body) - req[p].sent)
    /\ req' = [req EXCEPT
                 ![p].sent = @ + n,
                 ![p].builder = Write(@, SubSeq(req[p].body, req[p].sent + 1, req[p].sent + n))]
    /\ temps' = IF Linked(p) THEN [temps EXCEPT ![req[p].temp] = 0] ELSE temps
    /\ UNCHANGED <<objects, index, owner, pc, swAt, deleteVars, acked, ingests>>

\* The client goes away, or a write fails.
CopyFails(p) ==
    /\ pc[p] = "stream"
    /\ Reject(p)
    /\ UNCHANGED <<swAt, deleteVars, ingests>>

\* Mutant: any stream will do that is not empty.
MatchesNonempty(p) == Finish(req[p].builder) # <<>>

\* The stream is not empty and its root is the expected one.
Matches(p) ==
    /\ Finish(req[p].builder) # <<>>
    /\ treeFromChunkHashes(Finish(req[p].builder)) = RootHash[req[p].root]

\* EOF: Finish, the comparison, Sync and Close.
FinishStream(p) ==
    /\ pc[p] = "stream"
    /\ req[p].sent = Len(req[p].body)
    /\ Matches(p)
    /\ Goto(p, "verified")
    /\ UNCHANGED <<fileVars, req, swAt, deleteVars, acked, ingests>>

\* Mutant: the object is made addressable before its index is written.
WriteIndexLate(p) ==
    /\ pc[p] = "verified"
    /\ Linked(p)
    /\ objects' = [objects EXCEPT ![req[p].root] = req[p].body]
    /\ Goto(p, "indexed")
    /\ UNCHANGED <<index, owner, temps, req, swAt, deleteVars, acked, ingests>>

\* The index goes first ...
WriteIndex(p) ==
    /\ pc[p] = "verified"
    /\ index' = [index EXCEPT ![req[p].root] = Finish(req[p].builder)]
    /\ Goto(p, "indexed")
    /\ UNCHANGED <<objects, owner, temps, req, swAt, deleteVars, acked, ingests>>

\* Mutant: a failed rename goes unnoticed.
CommitUnchecked(p) ==
    /\ pc[p] = "indexed"
    /\ objects' = IF Linked(p) THEN [objects EXCEPT ![req[p].root] = req[p].body]
                  ELSE objects
    /\ temps' = [temps EXCEPT ![req[p].temp] = Absent]
    /\ Goto(p, "committed")
    /\ UNCHANGED <<index, owner, req, swAt, deleteVars, acked, ingests>>

\* ... then the rename that makes the object addressable.
Commit(p) ==
    /\ pc[p] = "indexed"
    /\ Linked(p)
    /\ objects' = [objects EXCEPT ![req[p].root] = req[p].body]
    /\ temps' = [temps EXCEPT ![req[p].temp] = Absent]
    /\ Goto(p, "committed")
    /\ UNCHANGED <<index, owner, req, swAt, deleteVars, acked, ingests>>

\* One of those steps fails: the root does not match, a system call reports an
\* error, or the temporary file has been swept.
IngestFails(p) ==
    /\ \/ pc[p] = "stream" /\ req[p].sent = Len(req[p].body) /\ ~ Matches(p)
       \/ pc[p] = "indexed" /\ ~ Linked(p)
       \/ pc[p] \in {"verified", "indexed"} /\ "io" \in Faults
    /\ Reject(p)
    /\ UNCHANGED <<swAt, deleteVars, ingests>>

\* PutOwnership's Stat.  The token was verified before the body was read, and the
\* owner o that it claims is first looked at here.  A token without both keys skips
\* the record, and a record that is there already counts as success.  A Stat that
\* reports any error, of whatever kind, means that there is no record.
StatOwnership(p, o) ==
    /\ pc[p] = "committed"
    /\ \/ /\ o = NoOwner \/ owner[req[p].root] # NoOwner
          /\ Acknowledge(p, o)
       \/ /\ o # NoOwner
          /\ owner[req[p].root] = NoOwner \/ "io" \in Faults
          /\ Goto(p, "owning")
          /\ req' = [req EXCEPT ![p].claim = o]
          /\ UNCHANGED acked
    /\ UNCHANGED <<fileVars, swAt, deleteVars, ingests>>

\* PutOwnership's rename, over whatever is there by now, and chmod; if only the chmod
\* fails the record stays and the reply is a 500.
WriteOwnership(p) ==
    /\ pc[p] = "owning"
    /\ \/ /\ owner' = [owner EXCEPT ![req[p].root] = req[p].claim]
          /\ Acknowledge(p, req[p].claim)
       \/ /\ "io" \in Faults
          /\ owner' \in {owner, [owner EXCEPT ![req[p].root] = req[p].claim]}
          /\ Respond(p)
          /\ UNCHANGED acked
    /\ UNCHANGED <<objects, index, temps, swAt, deleteVars, ingests>>

-----------------------------------------------------------------------------
Stale(age) == age >= TempMaxAge

\* Mutant: the file of a request that is still running is passed over.
SweepOrphansOnly(t) ==
    /\ swAt = NoTemp
    /\ temps[t] # Absent
    /\ Stale(temps[t])
    /\ \A p \in Requests : pc[p] # "idle" => req[p].temp # t
    /\ swAt' = t
    /\ UNCHANGED <<fileVars, requestVars, deleteVars, acked, ingests>>

\* SweepStaleObjectTemps comes to the name of a stale file: the Stat and its
\* verdict.  A name that has gone or is fresh is passed over.
SweepStaleObjectTemps(t) ==
    /\ swAt = NoTemp
    /\ temps[t] # Absent
    /\ Stale(temps[t])
    /\ swAt' = t
    /\ UNCHANGED <<fileVars, requestVars, deleteVars, acked, ingests>>

\* Its Remove, of whatever the file is by now.
RemoveTemp(t) ==
    /\ swAt = t
    /\ temps' = [temps EXCEPT ![t] = Absent]
    /\ swAt' = NoTemp
    /\ UNCHANGED <<objects, index, owner, requestVars, deleteVars, acked, ingests>>

RemoveTempFails ==
    /\ swAt # NoTemp
    /\ "io" \in Faults
    /\ swAt' = NoTemp
    /\ UNCHANGED <<fileVars, requestVars, deleteVars, acked, ingests>>

-----------------------------------------------------------------------------
\* A signed delete: Store.Delete removes three of the files one by one, ignoring
\* errors (the coverage record is not read here).
Delete(r) ==
    /\ delPc = "idle"
    /\ owner[r] # NoOwner
    /\ Cardinality(deleted) < MaxDeletes
    /\ deleted' = deleted \cup {r}
    /\ delPc' = "object"
    /\ delRoot' = r
    /\ UNCHANGED <<fileVars, requestVars, swAt, acked, ingests>>

\* A file after a Remove whose outcome nobody looks at.
Removed(files, none) ==
    {[files EXCEPT ![delRoot] = none]} \cup (IF "io" \in Faults THEN {files} ELSE {})

DeleteObject ==
    /\ delPc = "object"
    /\ objects' \in Removed(objects, <<>>)
    /\ delPc' = "index"
    /\ UNCHANGED <<index, owner, temps, requestVars, swAt, delRoot, deleted, acked,
                   ingests>>

DeleteIndex ==
    /\ delPc = "index"
    /\ index' \in Removed(index, <<>>)
    /\ delPc' = "owner"
    /\ UNCHANGED <<objects, owner, temps, requestVars, swAt, delRoot, deleted, acked,
                   ingests>>

DeleteOwner ==
    /\ delPc = "owner"
    /\ owner' \in Removed(owner, NoOwner)
    /\ delPc' = "idle"
    /\ delRoot' = NoRoot
    /\ UNCHANGED <<objects, index, temps, requestVars, swAt, deleted, acked, ingests>>

-----------------------------------------------------------------------------
Aged(age) == IF age \in {Absent, TempMaxAge} THEN age ELSE age + 1

IngestTick ==
    /\ temps' = [t \in Temps |-> Aged(temps[t])]
    /\ UNCHANGED <<objects, index, owner, requestVars, swAt, deleteVars, acked,
                   ingests>>

Ingest(p) ==
    \/ \E r \in Roots, bytes \in Bodies :
         \/ \E contracted \in BOOLEAN : Upload(p, r, bytes, contracted)
         \/ Replicate(p, r, bytes)
    \/ \E n \in 1..ChunkSize : CopyBuffer(p, n)
    \/ CopyFails(p)
    \/ FinishStream(p)
    \/ WriteIndex(p)
    \/ Commit(p)
    \/ IngestFails(p)
    \/ \E o \in Owners \cup {NoOwner} : StatOwnership(p, o)
    \/ WriteOwnership(p)

SweepTemps ==
    \/ \E t \in Temps : SweepStaleObjectTemps(t) \/ RemoveTemp(t)
    \/ RemoveTempFails

DeleteFiles ==
    \/ \E r \in Roots : Delete(r)
    \/ DeleteObject
    \/ DeleteIndex
    \/ DeleteOwner

-----------------------------------------------------------------------------
\* A list of chunk hashes, and what there is of a request that is under way.
HashList == Seq({"chunk"} \X Nat \X Seq(Byte))

Request ==
    [root : Roots, body : Bodies, sent : Nat,
     builder : [hashes : HashList, chunk : Seq(Byte)],
     temp : Temps, claim : Owners \cup {NoOwner}]

IngestTypeOK ==
    /\ objects \in [Roots -> Bodies \cup {<<>>}]
    /\ index \in [Roots -> HashList]
    /\ owner \in [Roots -> Owners \cup {NoOwner}]
    /\ temps \in [Temps -> 0..TempMaxAge \cup {Absent}]
    /\ pc \in [Requests -> {"idle", "stream", "verified", "indexed", "committed", "owning"}]
    /\ DOMAIN req = Requests
    /\ \A p \in Requests :
         pc[p] # "idle" => req[p] \in Request /\ req[p].sent \in 0..Len(req[p].body)
    /\ swAt \in Temps \cup {NoTemp}
    /\ delPc \in {"idle", "object", "index", "owner"}
    /\ delPc # "idle" => delRoot \in Roots
    /\ acked \subseteq Roots \X BOOLEAN
    /\ ingests \in 0..MaxIngests

\* store/stream.go:36-45: whatever was streamed, in whatever pieces, by however
\* many requests at once, and whatever failed: a file in objects/ has the bytes
\* that hash to its name, and a file in index/ is the one of those bytes.
ContentAddressed ==
    \A r \in Roots :
        /\ objects[r] \in {<<>>, Original[r]}
        /\ index[r] \in {<<>>, TrueIndex[r]}

\* store/merkle.go:128-132: a complete stream is accepted if and only if it is the
\* object that the root names, wherever the reads cut it: the builder that hashes
\* the bytes as they come agrees with the tree over the buffered object.
BuilderAgrees ==
    \A p \in Requests :
        (pc[p] = "stream" /\ req[p].sent = Len(req[p].body))
            => (Matches(p) <=> req[p].body = Original[req[p].root])

\* store/stream.go:98-103: as long as nobody deletes the root, an object that can
\* be addressed has its index, through failures, crashes and swept uploads.
IndexedFirst ==
    \A r \in Roots \ deleted : objects[r] # <<>> => index[r] # <<>>

\* An upload that was acknowledged is stored, and if its token named an owner there
\* is an ownership record, unless the root is deleted: also when its temporary file
\* was swept under it, or another upload of the root fails.
AckedIsStored ==
    \A a \in acked : a[1] \notin deleted =>
        /\ objects[a[1]] # <<>>
        /\ a[2] => owner[a[1]] # NoOwner

\* store/stream.go:126-133: no temporary file stays in objects/, whether its
\* request failed, was killed or never comes to an end.
TempsReclaimed == \A t \in Temps : temps[t] # Absent ~> temps[t] = Absent
=============================================================================
