--------------------------- MODULE ServingProofs ---------------------------
(***************************************************************************)
(* The safety properties of Serving, for every chunk and block size, any   *)
(* requests, roots, bodies and owners, and any number of uploads and       *)
(* deletes.                                                                *)
(*                                                                         *)
(* The files alone do not show that a commit is safe: ServingInv adds what *)
(* a request has behind it at each of its steps.  Its builder has been fed *)
(* exactly the bytes that it has spooled; past the comparison its body is  *)
(* the object the root names, so MerkleProofs gives that what Finish       *)
(* returned is the index of that object; and between two of its steps      *)
(* nothing but a delete takes away what the first of them wrote.           *)
(***************************************************************************)
EXTENDS Serving, MerkleProofs

-----------------------------------------------------------------------------
\* Where a request has passed the comparison of PutStream.
Compared == {"verified", "indexed", "committed", "owning"}

\* The builder has been fed what has been spooled.
InvBuilder ==
    \A p \in Requests : pc[p] # "idle" => Fed(req[p].builder, req[p].body, req[p].sent)

\* The comparison has made sure of the bytes.
InvCompared ==
    \A p \in Requests : pc[p] \in Compared =>
        /\ req[p].sent = Len(req[p].body)
        /\ req[p].body = Original[req[p].root]

\* What a request has written stays, unless the root is deleted.
InvWritten ==
    \A p \in Requests : (pc[p] # "idle" /\ req[p].root \notin deleted) =>
        /\ pc[p] = "indexed" => index[req[p].root] # <<>>
        /\ pc[p] \in {"committed", "owning"} => objects[req[p].root] # <<>>

\* What is about to be written names an owner.
InvOwner == \A p \in Requests : pc[p] = "owning" => req[p].claim # NoOwner

InvDelete == delPc # "idle" => delRoot \in deleted

\* What the challenge has read is the index and the bytes of the root.
InvChallenge ==
    /\ chPc # "idle" => chIndex = TrueIndex[chRoot]
    /\ chPc = "prove" => chBytes = Original[chRoot]

ServingInv ==
    /\ TypeOK
    /\ ContentAddressed
    /\ IndexedFirst
    /\ AckedIsStored
    /\ InvBuilder
    /\ InvCompared
    /\ InvWritten
    /\ InvOwner
    /\ InvDelete
    /\ InvChallenge

-----------------------------------------------------------------------------
\* The index of every root is a list of chunk hashes, and is not empty.
LEMMA IndexOfRoot ==
    ASSUME NEW bytes \in Seq(Byte)
    PROVE  ChunkHashes(bytes, ChunkSize) \in HashList
<1> DEFINE h == ChunkHashes(bytes, ChunkSize)
           H == {"chunk"} \X Nat \X Seq(Byte)
<1>1. ChunkSize \in Nat \ {0}
  BY MerkleAssumption
<1>2. Len(bytes) \in Nat
  OBVIOUS
<1>3. PieceCount(Len(bytes), ChunkSize) \in Nat
  BY <1>1, <1>2, CeilingDivision
<1> DEFINE c == PieceCount(Len(bytes), ChunkSize)
<1>4. \A i \in 1..c : ChunkHash(i - 1, Piece(bytes, ChunkSize, i - 1)) \in H
  <2>1. TAKE i \in 1..c
  <2>2. i - 1 \in 0..(c - 1)
    BY <1>3
  <2>3. Piece(bytes, ChunkSize, i - 1) \in Seq(Byte)
    BY <1>1, <2>2, PieceShape
  <2>4. i - 1 \in Nat
    BY <1>3
  <2>5. QED
    BY <2>3, <2>4 DEF ChunkHash
<1>5. h = [i \in 1..c |-> ChunkHash(i - 1, Piece(bytes, ChunkSize, i - 1))]
  BY DEF ChunkHashes
<1>6. h \in [1..c -> H]
  <2> HIDE DEF c, H
  <2>1. QED
    BY <1>4, <1>5
<1>7. QED
  <2> HIDE DEF c, H, h
  <2>1. \E n \in Nat : h \in [1..n -> H]
    BY <1>3, <1>6 DEF c
  <2>2. h \in Seq(H)
    BY <2>1
  <2>3. QED
    BY <2>2 DEF h, H, HashList

LEMMA FedTyped ==
    ASSUME NEW bytes \in Seq(Byte), NEW k \in 0..Len(bytes), NEW tb, Fed(tb, bytes, k)
    PROVE  tb \in [hashes : HashList, chunk : Seq(Byte)]
<1>1. PICK q \in Nat :
        /\ q * ChunkSize <= k /\ k < q * ChunkSize + ChunkSize
        /\ tb = [hashes |-> FirstHashes(bytes, q),
                 chunk |-> SubSeq(bytes, q * ChunkSize + 1, k)]
  BY DEF Fed
<1> DEFINE x == q * ChunkSize
           H == {"chunk"} \X Nat \X Seq(Byte)
           h == FirstHashes(bytes, q)
<1>2. ChunkSize \in Nat \ {0} /\ x \in Nat /\ x <= k
  BY <1>1, MerkleAssumption
<1>3. SubSeq(bytes, x + 1, k) \in Seq(Byte)
  <2> HIDE DEF x
  <2>1. QED
    BY <1>2
<1>4. \A i \in 1..q : ChunkHash(i - 1, Piece(bytes, ChunkSize, i - 1)) \in H
  <2>1. TAKE i \in 1..q
  <2>2. i - 1 \in 0..(PieceCount(Len(bytes), ChunkSize) - 1)
    <3>1. q <= PieceCount(Len(bytes), ChunkSize) /\ PieceCount(Len(bytes), ChunkSize) \in Nat
      <4>1. Len(bytes) \in Nat /\ q * ChunkSize <= Len(bytes)
        BY <1>2
      <4>2. QED
        BY <1>2, <4>1, FullChunks, Zenon
    <3>2. QED
      BY <3>1
  <2>3. Piece(bytes, ChunkSize, i - 1) \in Seq(Byte)
    BY <1>2, <2>2, PieceShape
  <2>4. i - 1 \in Nat
    OBVIOUS
  <2>5. QED
    BY <2>3, <2>4 DEF ChunkHash
<1>5. h \in [1..q -> H]
  <2>1. h = [i \in 1..q |-> ChunkHash(i - 1, Piece(bytes, ChunkSize, i - 1))]
    BY DEF FirstHashes
  <2> HIDE DEF h, H
  <2>2. QED
    BY <1>4, <2>1
<1>6. h \in HashList
  <2> HIDE DEF H, h
  <2>1. h \in Seq(H)
    BY <1>5
  <2>2. QED
    BY <2>1 DEF H, HashList
<1>7. tb = [hashes |-> h, chunk |-> SubSeq(bytes, x + 1, k)]
  BY <1>1
<1>8. QED
  <2> HIDE DEF h, x
  <2>1. QED
    BY <1>3, <1>6, <1>7

-----------------------------------------------------------------------------
\* What the proofs use of a root.
LEMMA RootFacts ==
    ASSUME NEW r \in Roots
    PROVE  /\ Original[r] \in Seq(Byte) /\ Original[r] # <<>>
           /\ TrueIndex[r] = ChunkHashes(Original[r], ChunkSize)
           /\ TrueIndex[r] \in HashList /\ TrueIndex[r] # <<>>
           /\ RootHash[r] = BuildMerkleTree(Original[r])
<1>1. Original[r] \in Seq(Byte) /\ Original[r] # <<>>
  BY IngestAssumption
<1>2. /\ TrueIndex[r] = ChunkHashes(Original[r], ChunkSize)
      /\ RootHash[r] = BuildMerkleTree(Original[r])
  BY DEF TrueIndex, RootHash
<1>3. ChunkSize \in Nat \ {0}
  BY MerkleAssumption
<1>4. QED
  BY <1>1, <1>2, <1>3, IndexOfRoot, HashesOfNonempty

\* store/stream.go:81-89: the comparison lets a complete stream pass if and only if
\* it is the object, and what Finish returned is then the index of the object.
LEMMA Comparison ==
    ASSUME ServingInv, NEW p \in Requests, pc[p] # "idle", req[p].sent = Len(req[p].body)
    PROVE  /\ Matches(p) <=> req[p].body = Original[req[p].root]
           /\ Finish(req[p].builder) = ChunkHashes(req[p].body, ChunkSize)
<1> DEFINE body == req[p].body
           r == req[p].root
<1>1. body \in Seq(Byte) /\ r \in Roots
  BY IngestAssumption DEF ServingInv, TypeOK, IngestTypeOK, Request
<1>2. Fed(req[p].builder, body, Len(body))
  BY DEF ServingInv, InvBuilder
<1>3. Finish(req[p].builder) = ChunkHashes(body, ChunkSize)
  <2> HIDE DEF body
  <2>1. QED
    BY <1>1, <1>2, FedFinish
<1>4. ChunkSize \in Nat \ {0}
  BY MerkleAssumption
<1>5. body # <<>> <=> ChunkHashes(body, ChunkSize) # <<>>
  <2> HIDE DEF body
  <2>1. QED
    BY <1>1, <1>4, HashesOfNonempty
<1>6. treeFromChunkHashes(Finish(req[p].builder)) = BuildMerkleTree(body)
  BY <1>3 DEF BuildMerkleTree
<1>7. Matches(p) <=> body # <<>> /\ BuildMerkleTree(body) = BuildMerkleTree(Original[r])
  BY <1>1, <1>3, <1>5, <1>6, RootFacts DEF Matches
<1>8. ASSUME Matches(p) PROVE body = Original[r]
  <2> HIDE DEF body
  <2>1. QED
    BY <1>1, <1>7, <1>8, RootFacts, RootNamesOneObject
<1>9. ASSUME body = Original[r] PROVE Matches(p)
  BY <1>1, <1>7, <1>9, RootFacts
<1>10. QED
  BY <1>3, <1>8, <1>9

-----------------------------------------------------------------------------
\* store/stream.go:55-72: a request arrives and its temporary file is created.
LEMMA PutStreamKeeps ==
    ASSUME ServingInv, NEW p \in Requests, NEW r \in Roots, NEW bytes \in Bodies,
           PutStream(p, r, bytes), UNCHANGED challengeVars
    PROVE  ServingInv'
<1>0. /\ req'[p] = [root |-> r, body |-> bytes, sent |-> 0, builder |-> NewTreeBuilder,
                      temp |-> ingests + 1, claim |-> NoOwner]
      /\ \A q \in Requests \ {p} : req'[q] = req[q] /\ pc'[q] = pc[q]
      /\ DOMAIN req' = Requests /\ pc'[p] = "stream"
  BY DEF ServingInv, TypeOK, IngestTypeOK, PutStream, Goto
<1>1. TypeOK'
  <2>1. ingests + 1 \in Temps /\ ingests + 1 \in 0..MaxIngests
    BY IngestAssumption DEF ServingInv, TypeOK, IngestTypeOK, PutStream, Temps
  <2>2. NewTreeBuilder \in [hashes : HashList, chunk : Seq(Byte)]
    BY DEF NewTreeBuilder, HashList
  <2>3. req'[p] \in Request /\ req'[p].sent \in 0..Len(req'[p].body)
    <3>1. bytes \in Seq(Byte)
      BY IngestAssumption
    <3>2. QED
      BY <1>0, <2>1, <2>2, <3>1 DEF Request
  <2>4. \A q \in Requests :
          pc'[q] # "idle" => req'[q] \in Request /\ req'[q].sent \in 0..Len(req'[q].body)
    BY <1>0, <2>3 DEF ServingInv, TypeOK, IngestTypeOK
  <2>5. QED
    BY <1>0, <2>1, <2>4, IngestAssumption
    DEF ServingInv, TypeOK, IngestTypeOK, PutStream, Goto, fileVars, deleteVars, challengeVars
<1>2. InvBuilder'
  <2>1. Fed(NewTreeBuilder, bytes, 0)
    BY IngestAssumption, FedNew
  <2>2. QED
    BY <1>0, <2>1 DEF ServingInv, InvBuilder
<1>3. InvCompared'
  BY DEF ServingInv, TypeOK, IngestTypeOK, InvCompared, Compared, PutStream, Goto,
     deleteVars
<1>4. InvWritten'
  BY DEF ServingInv, TypeOK, IngestTypeOK, InvWritten, PutStream, Goto, deleteVars
<1>5. InvOwner'
  BY DEF ServingInv, TypeOK, IngestTypeOK, InvOwner, PutStream, Goto, deleteVars
<1>6. ContentAddressed' /\ IndexedFirst' /\ AckedIsStored' /\ InvDelete'
      /\ InvChallenge'
  BY DEF ServingInv, ContentAddressed, IndexedFirst, AckedIsStored, InvDelete,
     InvChallenge, PutStream, Goto, deleteVars, challengeVars
<1>7. QED
  BY <1>1, <1>2, <1>3, <1>4, <1>5, <1>6 DEF ServingInv

\* store/stream.go:72-76: the builder is fed what is spooled.
LEMMA CopyBufferKeeps ==
    ASSUME ServingInv, NEW p \in Requests, NEW n \in 1..ChunkSize,
           CopyBuffer(p, n), UNCHANGED challengeVars
    PROVE  ServingInv'
<1>0. /\ pc[p] # "idle" /\ req[p] \in Request /\ req[p].root \in Roots
      /\ req[p].body \in Bodies /\ req[p].temp \in Temps
  BY DEF ServingInv, TypeOK, IngestTypeOK, Request, CopyBuffer
<1> DEFINE s == req[p].sent
           tb == Write(req[p].builder, SubSeq(req[p].body, s + 1, s + n))
<1>a. s \in Nat /\ s + n \in Nat /\ s + n <= Len(req[p].body) /\ n \in Nat
      /\ req[p].body \in Seq(Byte)
  <2>1. Len(req[p].body) \in Nat /\ req[p].body \in Seq(Byte)
    BY <1>0, IngestAssumption
  <2>2. s \in 0..Len(req[p].body)
    BY <1>0 DEF ServingInv, TypeOK, IngestTypeOK
  <2>3. n <= Least(ChunkSize, Len(req[p].body) - s) /\ ChunkSize \in Nat
    BY MerkleAssumption DEF CopyBuffer
  <2> HIDE DEF s
  <2>4. QED
    BY <2>1, <2>2, <2>3 DEF Least
<1>b. Fed(tb, req[p].body, s + n)
  <2>1. Fed(req[p].builder, req[p].body, s)
    BY <1>0 DEF ServingInv, InvBuilder
  <2> HIDE DEF s
  <2>2. QED
    BY <1>a, <2>1, FedWrite
<1>c. /\ req'[p] = [req[p] EXCEPT !.sent = s + n, !.builder = tb]
      /\ \A q \in Requests \ {p} : req'[q] = req[q]
      /\ DOMAIN req' = Requests /\ pc' = pc
  BY DEF ServingInv, TypeOK, IngestTypeOK, CopyBuffer
<1>d. tb \in [hashes : HashList, chunk : Seq(Byte)]
  <2> HIDE DEF s, tb
  <2>1. s + n \in 0..Len(req[p].body)
    BY <1>a
  <2>2. QED
    BY <1>a, <1>b, <2>1, FedTyped
<1> HIDE DEF s, tb
<1>e. /\ req'[p] \in Request /\ req'[p].sent = s + n /\ req'[p].builder = tb
      /\ req'[p].root = req[p].root /\ req'[p].body = req[p].body
      /\ req'[p].claim = req[p].claim
  BY <1>0, <1>a, <1>c, <1>d DEF Request
<1>1. TypeOK'
  <2>1. \A q \in Requests :
          pc'[q] # "idle" => req'[q] \in Request /\ req'[q].sent \in 0..Len(req'[q].body)
    <3>1. req'[p].sent \in 0..Len(req'[p].body)
      <4>1. Len(req[p].body) \in Nat
        BY <1>a
      <4>2. QED
        BY <1>a, <1>e, <4>1
    <3>2. QED
      BY <1>c, <1>e, <3>1 DEF ServingInv, TypeOK, IngestTypeOK
  <2>2. temps' \in [Temps -> 0..TempMaxAge \cup {Absent}]
    BY <1>0, IngestAssumption DEF ServingInv, TypeOK, IngestTypeOK, CopyBuffer
  <2>3. IngestTypeOK'
    BY <1>c, <2>1, <2>2
    DEF ServingInv, TypeOK, IngestTypeOK, CopyBuffer, fileVars, deleteVars
  <2>4. QED
    BY <2>3 DEF ServingInv, TypeOK, challengeVars
<1>2. InvBuilder'
  <2>1. Fed(req'[p].builder, req'[p].body, req'[p].sent)
    BY <1>b, <1>e, Zenon
  <2>2. \A q \in Requests \ {p} : pc'[q] # "idle" => Fed(req'[q].builder, req'[q].body, req'[q].sent)
    BY <1>c, Zenon DEF ServingInv, InvBuilder
  <2>3. QED
    BY <2>1, <2>2, Zenon DEF InvBuilder
<1>3. InvCompared'
  BY <1>c DEF ServingInv, InvCompared, Compared, CopyBuffer
<1>4. InvWritten'
  BY <1>c, <1>e DEF ServingInv, InvWritten, CopyBuffer, deleteVars
<1>5. InvOwner'
  BY <1>c, <1>e DEF ServingInv, InvOwner, CopyBuffer
<1>6. ContentAddressed' /\ IndexedFirst' /\ AckedIsStored' /\ InvDelete'
      /\ InvChallenge'
  BY DEF ServingInv, ContentAddressed, IndexedFirst, AckedIsStored, InvDelete,
     InvChallenge, CopyBuffer, deleteVars, challengeVars
<1>7. QED
  BY <1>1, <1>2, <1>3, <1>4, <1>5, <1>6 DEF ServingInv

\* store/stream.go:62-79: the stream breaks off.
LEMMA CopyFailsKeeps ==
    ASSUME ServingInv, NEW p \in Requests, CopyFails(p), UNCHANGED challengeVars
    PROVE  ServingInv'
<1>1. TypeOK'
  BY IngestAssumption DEF ServingInv, TypeOK, IngestTypeOK, CopyFails, Reject,
     Respond, Goto, deleteVars, challengeVars
<1>2. InvBuilder'
  BY DEF ServingInv, TypeOK, IngestTypeOK, InvBuilder, CopyFails, Reject, Respond,
     Goto, deleteVars
<1>3. InvCompared'
  BY DEF ServingInv, TypeOK, IngestTypeOK, InvCompared, Compared, CopyFails, Reject,
     Respond, Goto, deleteVars
<1>4. InvWritten'
  BY DEF ServingInv, TypeOK, IngestTypeOK, InvWritten, CopyFails, Reject, Respond,
     Goto, deleteVars
<1>5. InvOwner'
  BY DEF ServingInv, TypeOK, IngestTypeOK, InvOwner, CopyFails, Reject, Respond,
     Goto, deleteVars
<1>6. ContentAddressed' /\ IndexedFirst' /\ AckedIsStored' /\ InvDelete'
      /\ InvChallenge'
  BY DEF ServingInv, ContentAddressed, IndexedFirst, AckedIsStored, InvDelete,
     InvChallenge, CopyFails, Reject, Respond, Goto, deleteVars, challengeVars
<1>7. QED
  BY <1>1, <1>2, <1>3, <1>4, <1>5, <1>6 DEF ServingInv

\* store/stream.go:81-96: the comparison.
LEMMA FinishStreamKeeps ==
    ASSUME ServingInv, NEW p \in Requests,
           FinishStream(p), UNCHANGED challengeVars
    PROVE  ServingInv'
<1>0. /\ pc[p] # "idle" /\ req[p] \in Request /\ req[p].root \in Roots
      /\ req[p].body \in Bodies /\ req[p].temp \in Temps
  BY DEF ServingInv, TypeOK, IngestTypeOK, Request, FinishStream
<1>a. req[p].sent = Len(req[p].body) /\ req[p].body = Original[req[p].root]
  BY <1>0, Comparison DEF FinishStream
<1>1. TypeOK'
  BY IngestAssumption DEF ServingInv, TypeOK, IngestTypeOK, FinishStream, Goto,
     fileVars, deleteVars, challengeVars
<1>2. InvBuilder'
  BY DEF ServingInv, TypeOK, IngestTypeOK, InvBuilder, FinishStream, Goto, fileVars,
     deleteVars
<1>3. InvCompared'
  BY <1>0, <1>a DEF ServingInv, TypeOK, IngestTypeOK, InvCompared, Compared, FinishStream, Goto,
       fileVars
<1>4. InvWritten'
  BY DEF ServingInv, TypeOK, IngestTypeOK, InvWritten, FinishStream, Goto, fileVars,
     deleteVars
<1>5. InvOwner'
  BY DEF ServingInv, TypeOK, IngestTypeOK, InvOwner, FinishStream, Goto, fileVars,
     deleteVars
<1>6. ContentAddressed' /\ IndexedFirst' /\ AckedIsStored' /\ InvDelete'
      /\ InvChallenge'
  BY DEF ServingInv, ContentAddressed, IndexedFirst, AckedIsStored, InvDelete,
     InvChallenge, FinishStream, Goto, fileVars, deleteVars, challengeVars
<1>7. QED
  BY <1>1, <1>2, <1>3, <1>4, <1>5, <1>6 DEF ServingInv

\* store/stream.go:98-115: the index that is written is the one of the root.
LEMMA WriteIndexKeeps ==
    ASSUME ServingInv, NEW p \in Requests,
           WriteIndex(p), UNCHANGED challengeVars
    PROVE  ServingInv'
<1>0. /\ pc[p] # "idle" /\ req[p] \in Request /\ req[p].root \in Roots
      /\ req[p].body \in Bodies /\ req[p].temp \in Temps
  BY DEF ServingInv, TypeOK, IngestTypeOK, Request, WriteIndex
<1>a. index' = [index EXCEPT ![req[p].root] = TrueIndex[req[p].root]]
  <2>1. req[p].sent = Len(req[p].body) /\ req[p].body = Original[req[p].root]
    BY DEF ServingInv, InvCompared, Compared, WriteIndex
  <2>2. Finish(req[p].builder) = TrueIndex[req[p].root]
    BY <1>0, <2>1, Comparison, RootFacts
  <2>3. QED
    BY <2>2 DEF WriteIndex
<1>b. TrueIndex[req[p].root] \in HashList /\ TrueIndex[req[p].root] # <<>>
  BY <1>0, RootFacts
<1>1. TypeOK'
  <2>1. index' \in [Roots -> HashList]
    BY <1>0, <1>a, <1>b DEF ServingInv, TypeOK, IngestTypeOK
  <2>2. QED
    BY <2>1
    DEF ServingInv, TypeOK, IngestTypeOK, WriteIndex, Goto, deleteVars, challengeVars
<1>2. ContentAddressed'
  BY <1>0, <1>a DEF ServingInv, TypeOK, IngestTypeOK, ContentAddressed, WriteIndex
<1>3. IndexedFirst'
  BY <1>0, <1>a, <1>b
  DEF ServingInv, TypeOK, IngestTypeOK, IndexedFirst, WriteIndex, deleteVars
<1>4. InvBuilder'
  BY DEF ServingInv, TypeOK, IngestTypeOK, InvBuilder, WriteIndex, Goto, deleteVars
<1>5. InvCompared'
  BY DEF ServingInv, TypeOK, IngestTypeOK, InvCompared, Compared, WriteIndex, Goto,
     deleteVars
<1>6. InvWritten'
  BY <1>0, <1>a, <1>b
  DEF ServingInv, TypeOK, IngestTypeOK, InvWritten, WriteIndex, Goto, deleteVars
<1>7. InvOwner'
  BY DEF ServingInv, TypeOK, IngestTypeOK, InvOwner, WriteIndex, Goto, deleteVars
<1>8. AckedIsStored' /\ InvDelete' /\ InvChallenge'
  BY DEF ServingInv, AckedIsStored, InvDelete, InvChallenge, WriteIndex, Goto,
     deleteVars, challengeVars
<1>9. QED
  BY <1>1, <1>2, <1>3, <1>4, <1>5, <1>6, <1>7, <1>8 DEF ServingInv

\* store/stream.go:117-122: the object that is made addressable is the one of the root,
\* and its index is there.
LEMMA CommitKeeps ==
    ASSUME ServingInv, NEW p \in Requests, Commit(p), UNCHANGED challengeVars
    PROVE  ServingInv'
<1>0. /\ pc[p] # "idle" /\ req[p] \in Request /\ req[p].root \in Roots
      /\ req[p].body \in Bodies /\ req[p].temp \in Temps
  BY DEF ServingInv, TypeOK, IngestTypeOK, Request, Commit
<1>a. req[p].body = Original[req[p].root] /\ req[p].body # <<>>
  <2>1. req[p].body = Original[req[p].root]
    BY DEF ServingInv, InvCompared, Compared, Commit
  <2>2. QED
    BY <1>0, <2>1, RootFacts
<1>1. TypeOK'
  <2>1. objects' \in [Roots -> Bodies \cup {<<>>}]
    BY <1>0 DEF ServingInv, TypeOK, IngestTypeOK, Commit
  <2>2. temps' \in [Temps -> 0..TempMaxAge \cup {Absent}]
    BY <1>0 DEF ServingInv, TypeOK, IngestTypeOK, Commit
  <2>3. QED
    BY <2>1, <2>2
    DEF ServingInv, TypeOK, IngestTypeOK, Commit, Goto, deleteVars, challengeVars
<1>2. ContentAddressed'
  BY <1>0, <1>a DEF ServingInv, TypeOK, IngestTypeOK, ContentAddressed, Commit
<1>3. IndexedFirst'
  BY <1>0 DEF ServingInv, TypeOK, IngestTypeOK, IndexedFirst, InvWritten, Commit, deleteVars
<1>4. AckedIsStored'
  BY <1>0, <1>a DEF ServingInv, TypeOK, IngestTypeOK, AckedIsStored, Commit, deleteVars
<1>5. InvBuilder'
  BY DEF ServingInv, TypeOK, IngestTypeOK, InvBuilder, Commit, Goto, deleteVars
<1>6. InvCompared'
  BY DEF ServingInv, TypeOK, IngestTypeOK, InvCompared, Compared, Commit, Goto,
     deleteVars
<1>7. InvWritten'
  BY <1>0, <1>a
  DEF ServingInv, TypeOK, IngestTypeOK, InvWritten, Commit, Goto, deleteVars
<1>8. InvOwner'
  BY DEF ServingInv, TypeOK, IngestTypeOK, InvOwner, Commit, Goto, deleteVars
<1>9. InvDelete' /\ InvChallenge'
  BY DEF ServingInv, InvDelete, InvChallenge, Commit, Goto, deleteVars,
     challengeVars
<1>10. QED
  BY <1>1, <1>2, <1>3, <1>4, <1>5, <1>6, <1>7, <1>8, <1>9 DEF ServingInv

\* store/stream.go:62-70: the clean-up after an error.
LEMMA IngestFailsKeeps ==
    ASSUME ServingInv, NEW p \in Requests,
           IngestFails(p), UNCHANGED challengeVars
    PROVE  ServingInv'
<1>1. TypeOK'
  BY IngestAssumption DEF ServingInv, TypeOK, IngestTypeOK, IngestFails, Reject,
     Respond, Goto, deleteVars, challengeVars
<1>2. InvBuilder'
  BY DEF ServingInv, TypeOK, IngestTypeOK, InvBuilder, IngestFails, Reject, Respond,
     Goto, deleteVars
<1>3. InvCompared'
  BY DEF ServingInv, TypeOK, IngestTypeOK, InvCompared, Compared, IngestFails,
     Reject, Respond, Goto, deleteVars
<1>4. InvWritten'
  BY DEF ServingInv, TypeOK, IngestTypeOK, InvWritten, IngestFails, Reject, Respond,
     Goto, deleteVars
<1>5. InvOwner'
  BY DEF ServingInv, TypeOK, IngestTypeOK, InvOwner, IngestFails, Reject, Respond,
     Goto, deleteVars
<1>6. ContentAddressed' /\ IndexedFirst' /\ AckedIsStored' /\ InvDelete'
      /\ InvChallenge'
  BY DEF ServingInv, ContentAddressed, IndexedFirst, AckedIsStored, InvDelete,
     InvChallenge, IngestFails, Reject, Respond, Goto, deleteVars, challengeVars
<1>7. QED
  BY <1>1, <1>2, <1>3, <1>4, <1>5, <1>6 DEF ServingInv

\* store/store.go:238-245: the acknowledgement without a new record.
LEMMA StatOwnershipKeeps ==
    ASSUME ServingInv, NEW p \in Requests, NEW o \in Owners \cup {NoOwner},
           StatOwnership(p, o), UNCHANGED challengeVars
    PROVE  ServingInv'
<1>0. /\ pc[p] # "idle" /\ req[p] \in Request /\ req[p].root \in Roots
      /\ req[p].body \in Bodies /\ req[p].temp \in Temps
  BY DEF ServingInv, TypeOK, IngestTypeOK, Request, StatOwnership
<1> DEFINE Skips == /\ o = NoOwner \/ owner[req[p].root] # NoOwner
                    /\ Acknowledge(p, o)
           Writes == /\ o # NoOwner
                     /\ owner[req[p].root] = NoOwner \/ "io" \in Faults
                     /\ Goto(p, "owning")
                     /\ req' = [req EXCEPT ![p].claim = o]
                     /\ UNCHANGED acked
<1>a. /\ Skips \/ Writes
      /\ pc[p] = "committed"
      /\ UNCHANGED <<fileVars, swAt, deleteVars, ingests>>
  BY DEF StatOwnership
<1>b. /\ DOMAIN req' = Requests
      /\ pc' \in [Requests -> {"idle", "stream", "verified", "indexed", "committed", "owning"}]
      /\ \A q \in Requests \ {p} : req'[q] = req[q] /\ pc'[q] = pc[q]
      /\ Skips => pc'[p] = "idle"
      /\ Writes => /\ pc'[p] = "owning"
                   /\ req'[p] = [req[p] EXCEPT !.claim = o]
  BY <1>a DEF ServingInv, TypeOK, IngestTypeOK, Acknowledge, Respond, Goto
<1>c. Writes => /\ req'[p] \in Request /\ req'[p].claim = o
                /\ req'[p].root = req[p].root /\ req'[p].body = req[p].body
                /\ req'[p].sent = req[p].sent /\ req'[p].builder = req[p].builder
  BY <1>0, <1>b DEF Request
<1>d. /\ objects' = objects /\ index' = index /\ owner' = owner /\ temps' = temps
      /\ swAt' = swAt /\ delPc' = delPc /\ delRoot' = delRoot /\ deleted' = deleted
      /\ ingests' = ingests /\ chPc' = chPc /\ chRoot' = chRoot
      /\ chIndex' = chIndex /\ chBytes' = chBytes
  BY <1>a DEF fileVars, deleteVars, challengeVars
<1>e. /\ Skips => acked' = acked \cup {<<req[p].root, o # NoOwner>>}
      /\ Writes => acked' = acked
  BY DEF Acknowledge
<1> HIDE DEF Skips, Writes
<1>1. TypeOK'
  <2>1. \A q \in Requests :
          pc'[q] # "idle" => req'[q] \in Request /\ req'[q].sent \in 0..Len(req'[q].body)
    BY <1>0, <1>a, <1>b, <1>c DEF ServingInv, TypeOK, IngestTypeOK
  <2>2. acked' \subseteq Roots \X BOOLEAN
    <3> DEFINE claimed == o # NoOwner
    <3>1. claimed \in BOOLEAN
      OBVIOUS
    <3>2. <<req[p].root, claimed>> \in Roots \X BOOLEAN
      <4> HIDE DEF claimed
      <4>1. QED
        BY <1>0, <3>1
    <3>3. acked \subseteq Roots \X BOOLEAN
      BY DEF ServingInv, TypeOK, IngestTypeOK
    <3>4. acked' = acked \/ acked' = acked \cup {<<req[p].root, claimed>>}
      BY <1>a, <1>e
    <3> HIDE DEF claimed
    <3>5. QED
      BY <3>2, <3>3, <3>4
  <2>3. QED
    BY <1>b, <1>d, <2>1, <2>2 DEF ServingInv, TypeOK, IngestTypeOK
<1>2. AckedIsStored'
  <2>1. req[p].root \notin deleted => objects[req[p].root] # <<>>
    BY <1>a DEF ServingInv, InvWritten
  <2>2. Skips => (o # NoOwner => owner[req[p].root] # NoOwner)
    BY DEF Skips
  <2>3. QED
    <3> DEFINE claimed == o # NoOwner
               Stored(a) == a[1] \notin deleted => /\ objects[a[1]] # <<>>
                                                   /\ a[2] => owner[a[1]] # NoOwner
    <3>1. Skips => Stored(<<req[p].root, claimed>>)
      <4>1. <<req[p].root, claimed>>[1] = req[p].root /\ (<<req[p].root, claimed>>[2] <=> claimed)
        BY Zenon
      <4>2. QED
        BY <2>1, <2>2, <4>1, Zenon
    <3>2. \A a \in acked : Stored(a)
      BY DEF ServingInv, AckedIsStored
    <3>3. /\ Skips \/ Writes
          /\ Skips => acked' = acked \cup {<<req[p].root, claimed>>}
          /\ Writes => acked' = acked
      BY <1>a, <1>e
    <3> HIDE DEF claimed, Stored
    <3>4. \A a \in acked' : Stored(a)
      BY <3>1, <3>2, <3>3
    <3>5. QED
      BY <1>d, <3>4, Zenon DEF AckedIsStored, Stored
<1>3. InvBuilder'
  BY <1>0, <1>a, <1>b, <1>c DEF ServingInv, InvBuilder
<1>4. InvCompared'
  BY <1>0, <1>a, <1>b, <1>c DEF ServingInv, InvCompared, Compared
<1>5. InvWritten'
  BY <1>0, <1>a, <1>b, <1>c, <1>d DEF ServingInv, InvWritten
<1>6. InvOwner'
  <2>1. Writes => o # NoOwner
    BY DEF Writes
  <2>2. QED
    BY <1>0, <1>a, <1>b, <1>c, <1>d, <2>1 DEF ServingInv, InvOwner
<1>7. ContentAddressed' /\ IndexedFirst' /\ InvDelete' /\ InvChallenge'
  BY DEF ServingInv, ContentAddressed, IndexedFirst, InvDelete, InvChallenge,
     StatOwnership, Acknowledge, Respond, Goto, fileVars, deleteVars, challengeVars
<1>8. QED
  BY <1>1, <1>2, <1>3, <1>4, <1>5, <1>6, <1>7 DEF ServingInv

\* store/store.go:246-258: the acknowledgement after a new record.
LEMMA WriteOwnershipKeeps ==
    ASSUME ServingInv, NEW p \in Requests,
           WriteOwnership(p), UNCHANGED challengeVars
    PROVE  ServingInv'
<1>0. /\ pc[p] # "idle" /\ req[p] \in Request /\ req[p].root \in Roots
      /\ req[p].body \in Bodies /\ req[p].temp \in Temps
  BY DEF ServingInv, TypeOK, IngestTypeOK, Request, WriteOwnership
<1>a. /\ pc[p] = "owning" /\ pc'[p] = "idle" /\ DOMAIN req' = Requests
      /\ pc' \in [Requests -> {"idle", "stream", "verified", "indexed", "committed", "owning"}]
      /\ \A q \in Requests \ {p} : req'[q] = req[q] /\ pc'[q] = pc[q]
  BY DEF ServingInv, TypeOK, IngestTypeOK, WriteOwnership, Acknowledge, Respond, Goto
<1>b. /\ objects' = objects /\ index' = index /\ temps' = temps
      /\ swAt' = swAt /\ delPc' = delPc /\ delRoot' = delRoot /\ deleted' = deleted
      /\ ingests' = ingests /\ chPc' = chPc /\ chRoot' = chRoot
      /\ chIndex' = chIndex /\ chBytes' = chBytes
  BY DEF WriteOwnership, deleteVars, challengeVars
<1>c. req[p].claim \in Owners /\ req[p].claim # NoOwner
  BY <1>0, <1>a DEF ServingInv, InvOwner, Request
<1>d. \/ /\ owner' = [owner EXCEPT ![req[p].root] = req[p].claim]
         /\ acked' \in {acked, acked \cup {<<req[p].root, TRUE>>}}
      \/ owner' = owner /\ acked' = acked
  BY <1>c DEF WriteOwnership, Acknowledge
<1>e. /\ owner' \in [Roots -> Owners \cup {NoOwner}]
      /\ \A r \in Roots : owner[r] # NoOwner => owner'[r] # NoOwner
      /\ acked' \subseteq Roots \X BOOLEAN
      /\ acked' # acked => owner'[req[p].root] # NoOwner
  <2>1. <<req[p].root, TRUE>> \in Roots \X BOOLEAN
    BY <1>0, Zenon
  <2>2. acked' \subseteq Roots \X BOOLEAN
    <3> DEFINE new == <<req[p].root, TRUE>>
    <3>1. acked' = acked \/ acked' = acked \cup {new}
      BY <1>d
    <3>2. acked \subseteq Roots \X BOOLEAN
      BY DEF ServingInv, TypeOK, IngestTypeOK
    <3> HIDE DEF new
    <3>3. QED
      BY <2>1, <3>1, <3>2 DEF new
  <2>3. \/ owner' = owner /\ acked' = acked
        \/ owner' = [owner EXCEPT ![req[p].root] = req[p].claim]
    BY <1>d
  <2>4. QED
    BY <1>0, <1>c, <2>2, <2>3 DEF ServingInv, TypeOK, IngestTypeOK
<1>1. TypeOK'
  BY <1>a, <1>b, <1>e DEF ServingInv, TypeOK, IngestTypeOK
<1>2. AckedIsStored'
  <2>1. req[p].root \notin deleted => objects[req[p].root] # <<>>
    BY <1>a DEF ServingInv, InvWritten
  <2>2. \A a \in acked : a[1] \in Roots
    BY DEF ServingInv, TypeOK, IngestTypeOK
  <2>3. acked' = acked \/ acked' = acked \cup {<<req[p].root, TRUE>>}
    BY <1>d
  <2>4. QED
    <3> DEFINE new == <<req[p].root, TRUE>>
               Stored(a) == a[1] \notin deleted => /\ objects[a[1]] # <<>>
                                                   /\ a[2] => owner'[a[1]] # NoOwner
    <3>1. acked' # acked => Stored(new)
      <4>1. new[1] = req[p].root
        BY Zenon
      <4>2. QED
        BY <1>e, <2>1, <4>1, Zenon
    <3>2. \A a \in acked : Stored(a)
      BY <1>e, <2>2 DEF ServingInv, AckedIsStored
    <3>3. acked' = acked \/ acked' = acked \cup {new}
      BY <2>3
    <3> HIDE DEF new, Stored
    <3>4. \A a \in acked' : Stored(a)
      BY <3>1, <3>2, <3>3
    <3>5. QED
      BY <1>b, <3>4, Zenon DEF AckedIsStored, Stored
<1>3. InvBuilder'
  BY DEF ServingInv, TypeOK, IngestTypeOK, InvBuilder, WriteOwnership, Acknowledge,
     Respond, Goto, deleteVars
<1>4. InvCompared'
  BY DEF ServingInv, TypeOK, IngestTypeOK, InvCompared, Compared, WriteOwnership,
     Acknowledge, Respond, Goto, deleteVars
<1>5. InvWritten'
  BY DEF ServingInv, TypeOK, IngestTypeOK, InvWritten, WriteOwnership, Acknowledge,
     Respond, Goto, deleteVars
<1>6. InvOwner'
  BY <1>a DEF ServingInv, InvOwner
<1>7. ContentAddressed' /\ IndexedFirst' /\ InvDelete' /\ InvChallenge'
  BY DEF ServingInv, ContentAddressed, IndexedFirst, InvDelete, InvChallenge,
     WriteOwnership, Acknowledge, Respond, Goto, deleteVars, challengeVars
<1>8. QED
  BY <1>1, <1>2, <1>3, <1>4, <1>5, <1>6, <1>7 DEF ServingInv

\* store/stream.go:137-175: the sweep touches nothing but temporary files.
LEMMA SweepTempsKeeps ==
    ASSUME ServingInv, SweepTemps, UNCHANGED challengeVars
    PROVE  ServingInv'
<1>1. TypeOK'
  BY IngestAssumption DEF ServingInv, TypeOK, IngestTypeOK, SweepTemps,
     SweepStaleObjectTemps, RemoveTemp, RemoveTempFails, fileVars, requestVars,
     deleteVars, challengeVars
<1>2. ContentAddressed' /\ IndexedFirst' /\ AckedIsStored' /\ InvBuilder'
      /\ InvCompared' /\ InvWritten' /\ InvOwner' /\ InvDelete' /\ InvChallenge'
  BY DEF ServingInv, ContentAddressed, IndexedFirst, AckedIsStored, InvBuilder,
     InvCompared, InvWritten, InvOwner, InvDelete, InvChallenge, SweepTemps,
     SweepStaleObjectTemps, RemoveTemp, RemoveTempFails, fileVars, requestVars,
     deleteVars, challengeVars
<1>3. QED
  BY <1>1, <1>2 DEF ServingInv

\* store/store.go:189: a delete begins.
LEMMA DeleteKeeps ==
    ASSUME ServingInv, NEW r \in Roots, Delete(r), UNCHANGED challengeVars
    PROVE  ServingInv'
<1>1. TypeOK'
  BY IngestAssumption DEF ServingInv, TypeOK, IngestTypeOK, Delete, fileVars,
     requestVars, challengeVars
<1>2. IndexedFirst'
  BY DEF ServingInv, TypeOK, IngestTypeOK, IndexedFirst, Delete, fileVars,
     requestVars
<1>3. AckedIsStored'
  BY DEF ServingInv, TypeOK, IngestTypeOK, AckedIsStored, Delete, fileVars,
     requestVars
<1>4. InvWritten'
  BY DEF ServingInv, TypeOK, IngestTypeOK, InvWritten, Delete, fileVars, requestVars
<1>5. InvDelete'
  BY DEF ServingInv, TypeOK, IngestTypeOK, InvDelete, Delete, fileVars, requestVars
<1>6. ContentAddressed' /\ InvBuilder' /\ InvCompared' /\ InvOwner' /\ InvChallenge'
  BY DEF ServingInv, ContentAddressed, InvBuilder, InvCompared, InvOwner,
     InvChallenge, Delete, fileVars, requestVars, challengeVars
<1>7. QED
  BY <1>1, <1>2, <1>3, <1>4, <1>5, <1>6 DEF ServingInv

\* store/store.go:190: the object of a deleted root goes.
LEMMA DeleteObjectKeeps ==
    ASSUME ServingInv, DeleteObject, UNCHANGED challengeVars
    PROVE  ServingInv'
<1>0. /\ delRoot \in Roots /\ delRoot \in deleted
      /\ objects' = objects \/ objects' = [objects EXCEPT ![delRoot] = <<>>]
  BY DEF ServingInv, TypeOK, IngestTypeOK, InvDelete, DeleteObject, Removed
<1>a. \A r \in Roots : objects'[r] = objects[r] \/ (r = delRoot /\ objects'[r] = <<>>)
  BY <1>0 DEF ServingInv, TypeOK, IngestTypeOK
<1>b. \A q \in Requests : pc[q] # "idle" => req[q].root \in Roots
  BY DEF ServingInv, TypeOK, IngestTypeOK, Request
<1>1. TypeOK'
  BY IngestAssumption DEF ServingInv, TypeOK, IngestTypeOK, DeleteObject, Removed,
     requestVars, challengeVars
<1>2. ContentAddressed'
  BY DEF ServingInv, TypeOK, IngestTypeOK, ContentAddressed, DeleteObject, Removed,
     requestVars
<1>3. IndexedFirst'
  BY DEF ServingInv, TypeOK, IngestTypeOK, IndexedFirst, DeleteObject, Removed,
     requestVars
<1>4. AckedIsStored'
  <2>1. \A a \in acked : a[1] \in Roots
    BY DEF ServingInv, TypeOK, IngestTypeOK
  <2>2. QED
    BY <1>0, <1>a, <2>1 DEF ServingInv, AckedIsStored, DeleteObject
<1>5. InvWritten'
  BY <1>0, <1>a, <1>b DEF ServingInv, InvWritten, DeleteObject, requestVars
<1>6. InvDelete'
  BY DEF ServingInv, TypeOK, IngestTypeOK, InvDelete, DeleteObject, Removed,
     requestVars
<1>7. InvBuilder' /\ InvCompared' /\ InvOwner' /\ InvChallenge'
  BY DEF ServingInv, InvBuilder, InvCompared, InvOwner, InvChallenge, DeleteObject,
     Removed, requestVars, challengeVars
<1>8. QED
  BY <1>1, <1>2, <1>3, <1>4, <1>5, <1>6, <1>7 DEF ServingInv

\* store/store.go:191: the index of a deleted root goes.
LEMMA DeleteIndexKeeps ==
    ASSUME ServingInv, DeleteIndex, UNCHANGED challengeVars
    PROVE  ServingInv'
<1>0. /\ delRoot \in Roots /\ delRoot \in deleted
      /\ index' = index \/ index' = [index EXCEPT ![delRoot] = <<>>]
  BY DEF ServingInv, TypeOK, IngestTypeOK, InvDelete, DeleteIndex, Removed
<1>a. \A r \in Roots : index'[r] = index[r] \/ (r = delRoot /\ index'[r] = <<>>)
  BY <1>0 DEF ServingInv, TypeOK, IngestTypeOK
<1>b. \A q \in Requests : pc[q] # "idle" => req[q].root \in Roots
  BY DEF ServingInv, TypeOK, IngestTypeOK, Request
<1>1. TypeOK'
  <2>1. index' \in [Roots -> HashList]
    <3>1. <<>> \in HashList
      BY DEF HashList
    <3>2. QED
      BY <1>0, <3>1 DEF ServingInv, TypeOK, IngestTypeOK
  <2>2. QED
    BY <2>1
    DEF ServingInv, TypeOK, IngestTypeOK, DeleteIndex, requestVars, challengeVars
<1>2. ContentAddressed'
  BY DEF ServingInv, TypeOK, IngestTypeOK, ContentAddressed, DeleteIndex, Removed,
     requestVars
<1>3. IndexedFirst'
  BY <1>0, <1>a DEF ServingInv, IndexedFirst, DeleteIndex
<1>4. InvWritten'
  BY <1>0, <1>a, <1>b DEF ServingInv, InvWritten, DeleteIndex, requestVars
<1>5. InvDelete'
  BY DEF ServingInv, TypeOK, IngestTypeOK, InvDelete, DeleteIndex, Removed,
     requestVars
<1>6. AckedIsStored' /\ InvBuilder' /\ InvCompared' /\ InvOwner' /\ InvChallenge'
  BY DEF ServingInv, AckedIsStored, InvBuilder, InvCompared, InvOwner, InvChallenge,
     DeleteIndex, Removed, requestVars, challengeVars
<1>7. QED
  BY <1>1, <1>2, <1>3, <1>4, <1>5, <1>6 DEF ServingInv

\* store/store.go:192-200: the ownership record of a deleted root goes.
LEMMA DeleteOwnerKeeps ==
    ASSUME ServingInv, DeleteOwner, UNCHANGED challengeVars
    PROVE  ServingInv'
<1>0. /\ delRoot \in Roots /\ delRoot \in deleted
      /\ owner' = owner \/ owner' = [owner EXCEPT ![delRoot] = NoOwner]
  BY DEF ServingInv, TypeOK, IngestTypeOK, InvDelete, DeleteOwner, Removed
<1>a. /\ owner' \in [Roots -> Owners \cup {NoOwner}]
      /\ \A r \in Roots : owner'[r] = owner[r] \/ (r = delRoot /\ owner'[r] = NoOwner)
  BY <1>0 DEF ServingInv, TypeOK, IngestTypeOK
<1>1. TypeOK'
  BY <1>a DEF ServingInv, TypeOK, IngestTypeOK, DeleteOwner, requestVars, challengeVars
<1>2. AckedIsStored'
  <2>1. \A a \in acked : a[1] \in Roots
    BY DEF ServingInv, TypeOK, IngestTypeOK
  <2>2. QED
    BY <1>0, <1>a, <2>1 DEF ServingInv, AckedIsStored, DeleteOwner
<1>3. InvBuilder' /\ InvCompared' /\ InvWritten' /\ InvOwner'
  BY DEF ServingInv, InvBuilder, InvCompared, InvWritten, InvOwner, DeleteOwner, requestVars
<1>4. ContentAddressed' /\ IndexedFirst' /\ InvDelete' /\ InvChallenge'
  BY DEF ServingInv, ContentAddressed, IndexedFirst, InvDelete, InvChallenge, DeleteOwner,
     challengeVars
<1>5. QED
  BY <1>1, <1>2, <1>3, <1>4 DEF ServingInv

\* Time passes.
LEMMA IngestTickKeeps ==
    ASSUME ServingInv, IngestTick, UNCHANGED challengeVars
    PROVE  ServingInv'
<1>1. TypeOK'
  BY IngestAssumption DEF ServingInv, TypeOK, IngestTypeOK, IngestTick, Aged,
     requestVars, deleteVars, challengeVars
<1>2. ContentAddressed' /\ IndexedFirst' /\ AckedIsStored' /\ InvBuilder'
      /\ InvCompared' /\ InvWritten' /\ InvOwner' /\ InvDelete' /\ InvChallenge'
  BY DEF ServingInv, ContentAddressed, IndexedFirst, AckedIsStored, InvBuilder,
     InvCompared, InvWritten, InvOwner, InvDelete, InvChallenge, IngestTick, Aged,
     requestVars, deleteVars, challengeVars
<1>3. QED
  BY <1>1, <1>2 DEF ServingInv

\* api/challenge.go:64-70: the index as read.
LEMMA GetIndexKeeps ==
    ASSUME ServingInv, NEW r \in Roots, GetIndex(r)
    PROVE  ServingInv'
<1>1. TypeOK'
  BY IngestAssumption DEF ServingInv, TypeOK, IngestTypeOK, GetIndex, ingestVars,
     fileVars, requestVars, deleteVars
<1>2. InvChallenge'
  BY DEF ServingInv, ContentAddressed, InvChallenge, GetIndex
<1>3. ContentAddressed' /\ IndexedFirst' /\ AckedIsStored' /\ InvBuilder'
      /\ InvCompared' /\ InvWritten' /\ InvOwner' /\ InvDelete'
  BY DEF ServingInv, ContentAddressed, IndexedFirst, AckedIsStored, InvBuilder,
     InvCompared, InvWritten, InvOwner, InvDelete, GetIndex, ingestVars, fileVars,
     requestVars, deleteVars
<1>4. QED
  BY <1>1, <1>2, <1>3 DEF ServingInv

\* api/challenge.go:124-130: the object as opened.
LEMMA OpenObjectKeeps ==
    ASSUME ServingInv, OpenObject
    PROVE  ServingInv'
<1>1. TypeOK'
  <2>1. chPc' = "prove" => chIndex # <<>>
    <3>1. chRoot \in Roots /\ chIndex = TrueIndex[chRoot]
      BY DEF ServingInv, TypeOK, InvChallenge, OpenObject
    <3>2. QED
      BY <3>1, RootFacts
  <2>2. QED
    BY <2>1 DEF ServingInv, TypeOK, IngestTypeOK, OpenObject, EndChallenge, ingestVars,
       fileVars, requestVars, deleteVars
<1>2. InvChallenge'
  BY DEF ServingInv, TypeOK, ContentAddressed, InvChallenge, OpenObject, EndChallenge
<1>3. ContentAddressed' /\ IndexedFirst' /\ AckedIsStored' /\ InvBuilder'
      /\ InvCompared' /\ InvWritten' /\ InvOwner' /\ InvDelete'
  BY DEF ServingInv, ContentAddressed, IndexedFirst, AckedIsStored, InvBuilder,
     InvCompared, InvWritten, InvOwner, InvDelete, OpenObject, EndChallenge,
     ingestVars, fileVars, requestVars, deleteVars
<1>4. QED
  BY <1>1, <1>2, <1>3 DEF ServingInv

\* api/challenge.go:154-158: the answer.
LEMMA AnswerKeeps ==
    ASSUME ServingInv, Answer
    PROVE  ServingInv'
<1>1. TypeOK'
  BY IngestAssumption DEF ServingInv, TypeOK, IngestTypeOK, Answer, EndChallenge,
     ingestVars, fileVars, requestVars, deleteVars
<1>2. InvChallenge'
  BY DEF ServingInv, InvChallenge, Answer, EndChallenge, ingestVars, fileVars,
     requestVars, deleteVars
<1>3. ContentAddressed' /\ IndexedFirst' /\ AckedIsStored' /\ InvBuilder'
      /\ InvCompared' /\ InvWritten' /\ InvOwner' /\ InvDelete'
  BY DEF ServingInv, ContentAddressed, IndexedFirst, AckedIsStored, InvBuilder,
     InvCompared, InvWritten, InvOwner, InvDelete, Answer, EndChallenge, ingestVars,
     fileVars, requestVars, deleteVars
<1>4. QED
  BY <1>1, <1>2, <1>3 DEF ServingInv

\* A crash loses the requests and leaves the files.
LEMMA CrashKeeps ==
    ASSUME ServingInv, Crash
    PROVE  ServingInv'
<1>1. TypeOK'
  BY IngestAssumption DEF ServingInv, TypeOK, IngestTypeOK, Crash, EndChallenge,
     IngestRestart, fileVars
<1>2. InvBuilder'
  BY DEF ServingInv, TypeOK, IngestTypeOK, InvBuilder, Crash, EndChallenge,
     IngestRestart, fileVars
<1>3. InvCompared'
  BY DEF ServingInv, TypeOK, IngestTypeOK, InvCompared, Compared, Crash,
     EndChallenge, IngestRestart, fileVars
<1>4. InvWritten'
  BY DEF ServingInv, TypeOK, IngestTypeOK, InvWritten, Crash, EndChallenge,
     IngestRestart, fileVars
<1>5. InvOwner'
  BY DEF ServingInv, TypeOK, IngestTypeOK, InvOwner, Crash, EndChallenge,
     IngestRestart, fileVars
<1>6. InvDelete'
  BY DEF ServingInv, TypeOK, IngestTypeOK, InvDelete, Crash, EndChallenge,
     IngestRestart, fileVars
<1>7. InvChallenge'
  BY DEF ServingInv, InvChallenge, Crash, EndChallenge, IngestRestart, fileVars
<1>8. ContentAddressed' /\ IndexedFirst' /\ AckedIsStored'
  BY DEF ServingInv, ContentAddressed, IndexedFirst, AckedIsStored, Crash,
     EndChallenge, IngestRestart, fileVars
<1>9. QED
  BY <1>1, <1>2, <1>3, <1>4, <1>5, <1>6, <1>7, <1>8 DEF ServingInv

-----------------------------------------------------------------------------
\* The initial state satisfies the invariant.
LEMMA ServingInit == Init => ServingInv
<1> SUFFICES ASSUME Init PROVE ServingInv
  OBVIOUS
<1> USE DEF Init, IngestInit
<1>1. TypeOK
  <2>1. <<>> \in HashList
    BY DEF HashList
  <2>2. QED
    BY <2>1, IngestAssumption DEF TypeOK, IngestTypeOK
<1>2. ContentAddressed /\ IndexedFirst /\ AckedIsStored
  BY DEF ContentAddressed, IndexedFirst, AckedIsStored
<1>3. InvBuilder /\ InvCompared /\ InvWritten /\ InvOwner /\ InvDelete /\ InvChallenge
  BY DEF InvBuilder, InvCompared, Compared, InvWritten, InvOwner, InvDelete, InvChallenge
<1>4. QED
  BY <1>1, <1>2, <1>3 DEF ServingInv

\* Every step keeps the invariant.
LEMMA ServingStep == ServingInv /\ [Next]_vars => ServingInv'
<1> SUFFICES ASSUME ServingInv, [Next]_vars PROVE ServingInv'
  OBVIOUS
<1>1. CASE \E p \in Requests : Ingest(p) /\ UNCHANGED challengeVars
  <2>1. PICK p \in Requests : Ingest(p) /\ UNCHANGED challengeVars
    BY <1>1
  <2>2. CASE \E r \in Roots, bytes \in Bodies : PutStream(p, r, bytes)
    BY <2>1, <2>2, PutStreamKeeps
  <2>3. CASE \E n \in 1..ChunkSize : CopyBuffer(p, n)
    BY <2>1, <2>3, CopyBufferKeeps
  <2>4. CASE CopyFails(p)
    BY <2>1, <2>4, CopyFailsKeeps
  <2>5. CASE FinishStream(p)
    BY <2>1, <2>5, FinishStreamKeeps
  <2>6. CASE WriteIndex(p)
    BY <2>1, <2>6, WriteIndexKeeps
  <2>7. CASE Commit(p)
    BY <2>1, <2>7, CommitKeeps
  <2>8. CASE IngestFails(p)
    BY <2>1, <2>8, IngestFailsKeeps
  <2>9. CASE \E o \in Owners \cup {NoOwner} : StatOwnership(p, o)
    BY <2>1, <2>9, StatOwnershipKeeps
  <2>10. CASE WriteOwnership(p)
    BY <2>1, <2>10, WriteOwnershipKeeps
  <2>11. QED
    BY <2>1, <2>2, <2>3, <2>4, <2>5, <2>6, <2>7, <2>8, <2>9, <2>10, Zenon
    DEF Ingest, Upload, Replicate
<1>2. CASE SweepTemps /\ UNCHANGED challengeVars
  BY <1>2, SweepTempsKeeps
<1>3. CASE DeleteFiles /\ UNCHANGED challengeVars
  <2>1. CASE \E r \in Roots : Delete(r)
    BY <1>3, <2>1, DeleteKeeps
  <2>2. CASE DeleteObject
    BY <1>3, <2>2, DeleteObjectKeeps
  <2>3. CASE DeleteIndex
    BY <1>3, <2>3, DeleteIndexKeeps
  <2>4. CASE DeleteOwner
    BY <1>3, <2>4, DeleteOwnerKeeps
  <2>5. QED
    BY <1>3, <2>1, <2>2, <2>3, <2>4 DEF DeleteFiles
<1>4. CASE IngestTick /\ UNCHANGED challengeVars
  BY <1>4, IngestTickKeeps
<1>5. CASE \E r \in Roots : GetIndex(r)
  BY <1>5, GetIndexKeeps
<1>6. CASE OpenObject
  BY <1>6, OpenObjectKeeps
<1>7. CASE Answer
  BY <1>7, AnswerKeeps
<1>8. CASE Crash
  BY <1>8, CrashKeeps
<1>9. CASE UNCHANGED vars
  <2>1. /\ TypeOK' /\ ContentAddressed' /\ IndexedFirst' /\ AckedIsStored'
    BY <1>9 DEF ServingInv, TypeOK, IngestTypeOK, ContentAddressed, IndexedFirst,
       AckedIsStored, vars, ingestVars, fileVars, requestVars, deleteVars, challengeVars
  <2>2. InvBuilder' /\ InvCompared' /\ InvWritten' /\ InvOwner' /\ InvDelete' /\ InvChallenge'
    BY <1>9 DEF ServingInv, InvBuilder, InvCompared, InvWritten, InvOwner, InvDelete,
       InvChallenge, vars, ingestVars, fileVars, requestVars, deleteVars, challengeVars
  <2>3. QED
    BY <2>1, <2>2 DEF ServingInv
<1>10. QED
  BY <1>1, <1>2, <1>3, <1>4, <1>5, <1>6, <1>7, <1>8, <1>9, Zenon DEF Next

-----------------------------------------------------------------------------
\* The inductive invariant holds in every reachable state.
THEOREM ServingInvariant == Spec => []ServingInv
<1>1. QED
  BY ServingInit, ServingStep, PTL DEF Spec

\* The type invariant.
THEOREM ServingTypeCorrect == Spec => []TypeOK
<1>1. ServingInv => TypeOK
  BY DEF ServingInv
<1>2. QED
  BY <1>1, ServingInvariant, PTL

\* store/stream.go:36-45: a file in objects/ has the bytes that hash to its name and
\* a file in index/ is the one of those bytes, whoever wrote them.
THEOREM ObjectsAreContentAddressed == Spec => []ContentAddressed
<1>1. ServingInv => ContentAddressed
  BY DEF ServingInv
<1>2. QED
  BY <1>1, ServingInvariant, PTL

\* store/stream.go:98-103: an object that can be addressed has its index.
THEOREM IndexComesFirst == Spec => []IndexedFirst
<1>1. ServingInv => IndexedFirst
  BY DEF ServingInv
<1>2. QED
  BY <1>1, ServingInvariant, PTL

\* An upload that was acknowledged is stored, with an ownership record if its token
\* named an owner, until the root is deleted.
THEOREM AcknowledgedIsStored == Spec => []AckedIsStored
<1>1. ServingInv => AckedIsStored
  BY DEF ServingInv
<1>2. QED
  BY <1>1, ServingInvariant, PTL

\* store/merkle.go:128-132: a complete stream is accepted if and only if it is the
\* object that the root names, wherever the reads cut it.
THEOREM StreamingAgrees == Spec => []BuilderAgrees
<1>1. ServingInv => BuilderAgrees
  BY Comparison DEF BuilderAgrees
<1>2. QED
  BY <1>1, ServingInvariant, PTL

-----------------------------------------------------------------------------
\* api/challenge.go:124-158: with the index and the bytes of one root, the raw and the
\* compact proofs of every chunk and block verify.
LEMMA ProofsOfRoot ==
    ASSUME NEW r \in Roots,
           NEW i \in 0..(PieceCount(Len(Original[r]), ChunkSize) - 1)
    PROVE  LET proof == RawProof(TrueIndex[r], Original[r], i)
               chunk == Piece(Original[r], ChunkSize, i)
           IN /\ PathRoot(Leaf(ChunkHash(i, proof.data)), i, proof.siblings) = RootHash[r]
              /\ \A b \in 0..(PieceCount(Len(chunk), BlockSize) - 1) :
                   LET compact == CompactProof(Original[r], i, b)
                   IN /\ b < subChunkBlockCount(Piece(Original[r], ChunkSize, i))
                      /\ PathRoot(Leaf(ChunkHash(b, compact.data)), b, compact.siblings)
                           = Seal(chunk)
<1> DEFINE bytes == Original[r]
           proof == RawProof(TrueIndex[r], bytes, i)
           chunk == Piece(bytes, ChunkSize, i)
           blocks == Leaves(ChunkHashes(chunk, BlockSize))
<1>1. /\ bytes \in Seq(Byte) /\ ChunkSize \in Nat \ {0} /\ BlockSize \in Nat \ {0}
      /\ i \in 0..(PieceCount(Len(bytes), ChunkSize) - 1)
  BY RootFacts, MerkleAssumption
<1>2. TrueIndex[r] = ChunkHashes(bytes, ChunkSize)
      /\ RootHash[r] = RootOfLeaves(Leaves(ChunkHashes(bytes, ChunkSize)))
  BY RootFacts DEF BuildMerkleTree, treeFromChunkHashes
<1>3. /\ proof.data = chunk
      /\ proof.siblings = computeMerkleProof(Leaves(ChunkHashes(bytes, ChunkSize)), i)
  BY <1>2 DEF RawProof
<1> HIDE DEF bytes, proof
<1>4. PathRoot(Leaf(ChunkHash(i, proof.data)), i, proof.siblings) = RootHash[r]
  BY <1>1, <1>2, <1>3, PieceLeadsToRoot
<1>5. chunk \in Seq(Byte)
  BY <1>1, PieceShape
<1> HIDE DEF chunk
<1>6. ASSUME NEW b \in 0..(PieceCount(Len(chunk), BlockSize) - 1)
      PROVE  LET compact == CompactProof(bytes, i, b)
             IN /\ b < subChunkBlockCount(chunk)
                /\ PathRoot(Leaf(ChunkHash(b, compact.data)), b, compact.siblings)
                     = Seal(chunk)
  <2> DEFINE compact == CompactProof(bytes, i, b)
             c == PieceCount(Len(chunk), BlockSize)
             leaves == [k \in 1..c |-> Leaf(ChunkHash(k - 1, Piece(chunk, BlockSize, k - 1)))]
  <2>1. c \in Nat
    <3>1. Len(chunk) \in Nat
      BY <1>5
    <3>2. QED
      BY <1>1, <3>1, CeilingDivision
  <2>2. b < subChunkBlockCount(chunk)
    BY <2>1 DEF subChunkBlockCount
  <2>3. leaves = blocks
    <3>1. Len(ChunkHashes(chunk, BlockSize)) = c
      BY <1>1, <1>5, ChunkHashesShape
    <3>2. \A k \in 1..c :
            ChunkHashes(chunk, BlockSize)[k] = ChunkHash(k - 1, Piece(chunk, BlockSize, k - 1))
      BY <1>1, <1>5, ChunkHashesShape
    <3> HIDE DEF c
    <3>3. QED
      BY <3>1, <3>2 DEF Leaves
  <2>4. /\ compact.data = Piece(chunk, BlockSize, b)
        /\ compact.siblings = computeMerkleProof(leaves, b)
    BY DEF CompactProof, subChunkBlockCount, chunk
  <2> HIDE DEF compact, leaves
  <2>5. PathRoot(Leaf(ChunkHash(b, compact.data)), b, compact.siblings) = RootOfLeaves(blocks)
    BY <1>1, <1>5, <2>3, <2>4, PieceLeadsToRoot
  <2>6. QED
    BY <2>2, <2>5 DEF Seal, compact
<1>7. QED
  BY <1>4, <1>6 DEF proof, chunk, bytes

\* api/challenge.go:64-70, 124-125, 154-158: every challenge that is answered is answered
\* with proofs that the verifier accepts, whatever changed the files meanwhile.
THEOREM AnsweredProofsVerify == Spec => []ProofsVerify
<1>1. ServingInv => ProofsVerify
  <2>1. SUFFICES ASSUME ServingInv, chPc = "prove" PROVE ProofsVerify
    BY DEF ProofsVerify
  <2>2. chRoot \in Roots /\ chIndex = TrueIndex[chRoot] /\ chBytes = Original[chRoot]
    BY <2>1 DEF ServingInv, TypeOK, InvChallenge
  <2>3. QED
    BY <2>2, ProofsOfRoot, Zenon DEF ProofsVerify
<1>2. QED
  BY <1>1, ServingInvariant, PTL

\* The offsets that a reply to this range has to hold.
Wanted(range, size) ==
    {j \in 0..(size - 1) :
       SingleByteRange(range) => j >= range[1] /\ (range[2] # Missing => j <= range[2])}

\* api/download.go:60-131: the reply to a range, for any two numbers in the header.
THEOREM ReplyToRange ==
    ASSUME NEW bytes \in Seq(Byte), bytes # <<>>, NEW range,
           range[1] \in Nat \cup {Missing}, range[2] \in Nat \cup {Missing}
    PROVE  LET reply == Download(bytes, range)
               wanted == Wanted(range, Len(bytes))
           IN /\ reply.length = Cardinality(wanted)
              /\ Len(reply.body) = reply.length
              /\ reply.status = 416 <=> wanted = {}
              /\ reply.status = 206 => reply.last = reply.first + reply.length - 1
              /\ \A k \in 1..Len(reply.body) :
                   /\ reply.first + k - 1 \in wanted
                   /\ reply.body[k] = bytes[reply.first + k]
<1> DEFINE size == Len(bytes)
           a == range[1]
           last == LastByte(range, size)
           wanted == Wanted(range, size)
           reply == Download(bytes, range)
<1>1. size \in Nat /\ size > 0
  OBVIOUS
<1> HIDE DEF size
<1>2. CASE ~ SingleByteRange(range)
  <2>1. reply = [status |-> 200, first |-> 0, last |-> size - 1, length |-> size, body |-> bytes]
    BY <1>2 DEF Download, size
  <2>2. wanted = 0..(size - 1)
    BY <1>2 DEF Wanted
  <2>3. Cardinality(0..(size - 1)) = size
    BY <1>1, FS_Interval
  <2> HIDE DEF reply, wanted
  <2>4. 0 \in wanted /\ \A k \in 1..size : 0 + k - 1 \in wanted /\ 0 + k = k
    BY <1>1, <2>2
  <2>5. reply.status = 200 /\ reply.first = 0 /\ reply.length = size /\ reply.body = bytes
    BY <2>1
  <2>6. /\ reply.length = Cardinality(wanted)
        /\ Len(reply.body) = reply.length
        /\ reply.status = 416 <=> wanted = {}
        /\ reply.status = 206 => reply.last = reply.first + reply.length - 1
        /\ \A k \in 1..Len(reply.body) :
             /\ reply.first + k - 1 \in wanted
             /\ reply.body[k] = bytes[reply.first + k]
    <3>1. Len(reply.body) = size /\ wanted # {}
      BY <2>4, <2>5 DEF size
    <3>2. QED
      BY <2>2, <2>3, <2>4, <2>5, <3>1
  <2>7. QED
    BY <2>6, Zenon DEF reply, wanted, size
<1>3. CASE SingleByteRange(range) /\ a >= size
  <2>1. reply.status = 416 /\ reply.length = 0 /\ reply.body = <<>>
    BY <1>3 DEF Download, serveRange, size
  <2>2. a \in Nat
    BY <1>3 DEF SingleByteRange
  <2>3. wanted = {}
    BY <1>1, <1>3, <2>2 DEF Wanted
  <2>4. Cardinality({}) = 0 /\ Len(<<>>) = 0
    BY FS_EmptySet
  <2> HIDE DEF reply, wanted
  <2>5. QED
    BY <2>1, <2>3, <2>4 DEF reply, wanted, size
<1>4. CASE SingleByteRange(range) /\ ~ (a >= size)
  <2>1. a \in Nat /\ a < size /\ (range[2] # Missing => range[2] \in Nat /\ a <= range[2])
    BY <1>1, <1>4 DEF SingleByteRange, Missing
  <2>2. last \in a..(size - 1) /\ Least(last + 1, size) = last + 1
    BY <1>1, <2>1 DEF LastByte, Least
  <2>3. reply = [status |-> 206, first |-> a, last |-> last, length |-> last - a + 1,
                 body |-> SubSeq(bytes, a + 1, last + 1)]
    BY <1>4, <2>2 DEF Download, serveRange, size
  <2>4. wanted = a..last
    BY <1>1, <1>4, <2>1 DEF Wanted, LastByte
  <2> HIDE DEF last, wanted, reply, a
  <2>5. Cardinality(a..last) = last - a + 1
    BY <1>1, <2>1, <2>2, FS_Interval
  <2>6. /\ Len(SubSeq(bytes, a + 1, last + 1)) = last - a + 1
        /\ \A k \in 1..(last - a + 1) : SubSeq(bytes, a + 1, last + 1)[k] = bytes[a + k]
    <3>1. SubSeq(bytes, a + 1, last + 1) = [k \in 1..(last - a + 1) |-> bytes[a + k]]
      BY <1>1, <2>1, <2>2 DEF SubSeq
    <3>2. QED
      BY <1>1, <2>1, <2>2, <3>1, LenOfFunction
  <2>7. wanted # {} /\ \A k \in 1..(last - a + 1) : a + k - 1 \in wanted
    <3>1. a \in wanted
      BY <1>1, <2>1, <2>2, <2>4
    <3>2. \A k \in 1..(last - a + 1) : a + k - 1 \in a..last
      BY <1>1, <2>1, <2>2
    <3>3. QED
      BY <2>4, <3>1, <3>2
  <2>8. /\ reply.status = 206 /\ reply.first = a /\ reply.length = last - a + 1
        /\ reply.last = last /\ reply.body = SubSeq(bytes, a + 1, last + 1)
    BY <2>3
  <2>9. /\ reply.length = Cardinality(wanted)
        /\ Len(reply.body) = reply.length
        /\ reply.status = 416 <=> wanted = {}
        /\ reply.status = 206 => reply.last = reply.first + reply.length - 1
        /\ \A k \in 1..Len(reply.body) :
             /\ reply.first + k - 1 \in wanted
             /\ reply.body[k] = bytes[reply.first + k]
    <3> DEFINE part == SubSeq(bytes, a + 1, last + 1)
    <3>1. /\ Len(part) = last - a + 1
          /\ \A k \in 1..(last - a + 1) : part[k] = bytes[a + k]
          /\ reply.body = part
      BY <2>6, <2>8
    <3> HIDE DEF part
    <3>2. Len(reply.body) = last - a + 1
      BY <3>1
    <3>3. reply.status # 416
      BY <2>8
    <3>4. QED
      <4>1. reply.length = Cardinality(wanted)
        BY <2>4, <2>5, <2>8
      <4>2. ASSUME NEW k \in 1..Len(reply.body)
            PROVE  reply.first + k - 1 \in wanted /\ reply.body[k] = bytes[reply.first + k]
        <5>1. k \in 1..(last - a + 1)
          BY <3>2
        <5>2. QED
          BY <2>7, <2>8, <3>1, <5>1
      <4>3. Len(reply.body) = reply.length
        BY <2>8, <3>2, Zenon
      <4>4. reply.status = 416 <=> wanted = {}
        BY <2>7, <3>3, Zenon
      <4>5. reply.last = reply.first + reply.length - 1
        BY <1>1, <2>1, <2>2, <2>8
      <4>6. QED
        BY <4>1, <4>2, <4>3, <4>4, <4>5, Zenon
  <2>10. QED
    BY <2>9, Zenon DEF reply, wanted, size
<1>5. QED
  BY <1>2, <1>3, <1>4

\* api/download.go:60-67, 91-96: every range reply is exact.
THEOREM RangeRepliesAreExact == Spec => []RangesExact
<1>1. ServingInv => RangesExact
  <2>1. SUFFICES ASSUME ServingInv, chPc = "prove" PROVE RangesExact
    BY DEF RangesExact
  <2> DEFINE bytes == Original[chRoot]
             size == Len(bytes)
             Bounds == 0..size \cup {Missing}
  <2>2. chRoot \in Roots /\ chBytes = bytes
    BY <2>1 DEF ServingInv, TypeOK, InvChallenge
  <2>3. bytes \in Seq(Byte) /\ bytes # <<>>
    BY <2>2, RootFacts
  <2>4. Bounds \subseteq Nat \cup {Missing}
    <3> HIDE DEF bytes
    <3>1. size \in Nat /\ size > 0
      BY <2>3
    <3>2. QED
      BY <3>1
  <2>5. ASSUME NEW range \in Bounds \X Bounds
        PROVE  LET reply == Download(chBytes, range)
                   wanted == Wanted(range, size)
               IN /\ reply.length = Cardinality(wanted)
                  /\ Len(reply.body) = reply.length
                  /\ reply.status = 416 <=> wanted = {}
                  /\ reply.status = 206 => reply.last = reply.first + reply.length - 1
                  /\ \A k \in 1..Len(reply.body) :
                       /\ reply.first + k - 1 \in wanted
                       /\ reply.body[k] = bytes[reply.first + k]
    <3> HIDE DEF Bounds, bytes
    <3>1. range[1] \in Nat \cup {Missing} /\ range[2] \in Nat \cup {Missing}
      BY <2>4
    <3>2. QED
      BY <2>2, <2>3, <3>1, ReplyToRange
  <2>6. QED
    BY <2>5, Zenon DEF RangesExact, Wanted
<1>2. QED
  BY <1>1, ServingInvariant, PTL
=============================================================================
