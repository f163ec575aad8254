------------------------------ MODULE Serving ------------------------------
(***************************************************************************)
(* What a provider does with the objects it holds, while Ingest changes the*)
(* files: the audit challenge (serveChallenge, api/challenge.go), for which*)
(* the index and the object are two files read one after the other, and the*)
(* download (api/download.go), which reads one.  Neither changes anything, *)
(* so one challenge at a time is enough, and a download is the operator    *)
(* that computes its reply from the file it has opened: a file in objects/ *)
(* is replaced or unlinked, never written to.                              *)
(***************************************************************************)
EXTENDS Ingest

VARIABLES
    chPc,      \* where the challenge stands
    chRoot,    \* the root that is challenged
    chIndex,   \* the index as read
    chBytes    \* the object as opened

challengeVars == <<chPc, chRoot, chIndex, chBytes>>
vars == <<ingestVars, challengeVars>>

Init ==
    /\ IngestInit
    /\ chPc = "idle" /\ chRoot = NoRoot /\ chIndex = <<>> /\ chBytes = <<>>

EndChallenge ==
    /\ chPc' = "idle" /\ chRoot' = NoRoot /\ chIndex' = <<>> /\ chBytes' = <<>>

-----------------------------------------------------------------------------
\* serveChallenge, after its checks of the request: the index is read.  There is
\* no index: 404.
GetIndex(r) ==
    /\ chPc = "idle"
    /\ index[r] # <<>>
    /\ chPc' = "open"
    /\ chRoot' = r
    /\ chIndex' = index[r]
    /\ UNCHANGED <<ingestVars, chBytes>>

\* Mutant: the object is taken to be there because its index was.
OpenObjectUnchecked ==
    /\ chPc = "open"
    /\ chPc' = "prove"
    /\ chBytes' = objects[chRoot]
    /\ UNCHANGED <<ingestVars, chRoot, chIndex>>

\* The object is opened, or has gone: 404.
OpenObject ==
    /\ chPc = "open"
    /\ \/ /\ objects[chRoot] # <<>>
          /\ chPc' = "prove"
          /\ chBytes' = objects[chRoot]
          /\ UNCHANGED <<chRoot, chIndex>>
       \/ /\ objects[chRoot] = <<>>
          /\ EndChallenge
    /\ UNCHANGED ingestVars

\* The proof is computed, signed and sent.
Answer ==
    /\ chPc = "prove"
    /\ EndChallenge
    /\ UNCHANGED ingestVars

\* The answer to a challenge of chunk i: its bytes, with the path that the index
\* gives.
RawProof(hashes, bytes, i) ==
    [data |-> Piece(bytes, ChunkSize, i),
     siblings |-> computeMerkleProof(Leaves(hashes), i)]

subChunkBlockCount(chunk) == PieceCount(Len(chunk), BlockSize)

\* The answer to a compact challenge of block b in chunk i: the path is rebuilt
\* from the bytes of the chunk.
CompactProof(bytes, i, b) ==
    LET chunk == Piece(bytes, ChunkSize, i)
        leaves == [k \in 1..subChunkBlockCount(chunk) |->
                     Leaf(ChunkHash(k - 1, Piece(chunk, BlockSize, k - 1)))]
    IN [data |-> Piece(chunk, BlockSize, b), siblings |-> computeMerkleProof(leaves, b)]

-----------------------------------------------------------------------------
\* A Range header: the two numbers of bytes=A-B, Missing where there is none.
\* Every other header, and none at all, is NoRange.
Missing == -1
NoRange == <<Missing, Missing>>

\* parseSingleByteRange: whether the reply is a range.
SingleByteRange(range) ==
    /\ range[1] # Missing
    /\ range[2] = Missing \/ range[2] >= range[1]

\* Mutant: the end of the range is not clamped to the last byte.
LastByteUnclamped(range, size) == IF range[2] = Missing THEN size - 1 ELSE range[2]

LastByte(range, size) ==
    IF range[2] = Missing \/ range[2] > size - 1 THEN size - 1 ELSE range[2]

\* serveRange on an open file: status, Content-Range, Content-Length and body.
serveRange(bytes, range) ==
    LET size == Len(bytes)
        last == LastByte(range, size)
    IN IF range[1] >= size
       THEN [status |-> 416, first |-> 0, last |-> 0, length |-> 0, body |-> <<>>]
       ELSE [status |-> 206, first |-> range[1], last |-> last,
             length |-> last - range[1] + 1,
             body |-> SubSeq(bytes, range[1] + 1, Least(last + 1, size))]

\* handleDownload of an open file.
Download(bytes, range) ==
    IF SingleByteRange(range) THEN serveRange(bytes, range)
    ELSE [status |-> 200, first |-> 0, last |-> Len(bytes) - 1, length |-> Len(bytes),
          body |-> bytes]

-----------------------------------------------------------------------------
\* The process dies and starts again.
Crash ==
    /\ IngestRestart
    /\ EndChallenge

Next ==
    \/ (\E p \in Requests : Ingest(p)) /\ UNCHANGED challengeVars
    \/ SweepTemps /\ UNCHANGED challengeVars
    \/ DeleteFiles /\ UNCHANGED challengeVars
    \/ IngestTick /\ UNCHANGED challengeVars
    \/ \E r \in Roots : GetIndex(r)
    \/ OpenObject
    \/ Answer
    \/ Crash

Spec == Init /\ [][Next]_vars

\* Time passes, the hourly sweep comes round, and a Remove that is tried again
\* every hour does not fail, nor meet a crash, every time.  Nothing is assumed of
\* the requests, whose bodies have no read timeout.
Fairness ==
    /\ WF_vars(IngestTick /\ UNCHANGED challengeVars)
    /\ WF_vars(SweepTemps /\ UNCHANGED challengeVars)
    /\ \A t \in Temps : SF_vars(RemoveTemp(t) /\ UNCHANGED challengeVars)

FairSpec == Spec /\ Fairness

-----------------------------------------------------------------------------
\* The type invariant.
TypeOK ==
    /\ IngestTypeOK
    /\ chPc \in {"idle", "open", "prove"}
    /\ chPc # "idle" => chRoot \in Roots
    /\ chPc = "prove" => chIndex # <<>> /\ chBytes # <<>>

\* api/challenge.go:64-70, 124-125, 154-158: a challenge that is answered is
\* answered with a proof that the verifier accepts, whichever chunk or block is
\* asked for, although the index and the object may have been written by different
\* uploads, and either may have been deleted since it was read.
ProofsVerify ==
    chPc = "prove" =>
        \A i \in 0..(PieceCount(Len(Original[chRoot]), ChunkSize) - 1) :
            LET proof == RawProof(chIndex, chBytes, i)
                chunk == Piece(Original[chRoot], ChunkSize, i)
            IN /\ PathRoot(Leaf(ChunkHash(i, proof.data)), i, proof.siblings)
                    = RootHash[chRoot]
               /\ \A b \in 0..(PieceCount(Len(chunk), BlockSize) - 1) :
                    LET compact == CompactProof(chBytes, i, b)
                    IN /\ b < subChunkBlockCount(Piece(chBytes, ChunkSize, i))
                       /\ PathRoot(Leaf(ChunkHash(b, compact.data)), b, compact.siblings)
                            = Seal(chunk)

\* api/download.go:60-67, 91-96: whatever range is asked for of an object that has
\* been opened, the body is exactly the requested bytes that the object has, the
\* headers agree with it, and 416 means that there are none.
RangesExact ==
    chPc = "prove" =>
        LET size == Len(Original[chRoot])
            Bounds == 0..size \cup {Missing}
        IN \A range \in Bounds \X Bounds :
             LET reply == Download(chBytes, range)
                 wanted == {j \in 0..(size - 1) :
                              SingleByteRange(range) =>
                                 j >= range[1] /\ (range[2] # Missing => j <= range[2])}
             IN /\ reply.length = Cardinality(wanted)
                /\ Len(reply.body) = reply.length
                /\ reply.status = 416 <=> wanted = {}
                /\ reply.status = 206 => reply.last = reply.first + reply.length - 1
                /\ \A k \in 1..Len(reply.body) :
                     /\ reply.first + k - 1 \in wanted
                     /\ reply.body[k] = Original[chRoot][reply.first + k]
=============================================================================
