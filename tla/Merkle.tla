------------------------------- MODULE Merkle -------------------------------
(***************************************************************************)
(* The Merkle tree that names an object (store/merkle.go), the builder that*)
(* computes it while the bytes stream in, the proofs of an audit challenge *)
(* (api/challenge_helpers.go) and their form over the blocks of one chunk  *)
(* (api/subchunk_helpers.go).                                              *)
(*                                                                         *)
(* SHA-256 and SHA3-512 are taken to be injective: a hash is a tuple that  *)
(* holds what was hashed.  A byte is a number, an object a sequence of     *)
(* bytes; indices count from 0 as in the code.                             *)
(***************************************************************************)
EXTENDS Integers, Sequences

CONSTANTS
    ChunkSize,   \* DefaultChunkSize, 1 MiB in the code
    BlockSize    \* subChunkBlockSize, 4 KiB in the code

ASSUME MerkleAssumption == ChunkSize \in Nat \ {0} /\ BlockSize \in Nat \ {0}

Least(a, b) == IF a <= b THEN a ELSE b

-----------------------------------------------------------------------------
\* The position-bound hash of a chunk or block, its leaf, an inner node, and the
\* 64 zero bytes that pad a level.
ChunkHash(i, bytes) == <<"chunk", i, bytes>>
Leaf(hash) == <<"leaf", hash>>
Node(left, right) == <<"node", left, right>>
Zero == <<"zero">>

\* How many pieces of `size' bytes there are in n bytes, and the i-th of them.
PieceCount(n, size) == (n + size - 1) \div size
Piece(bytes, size, i) ==
    SubSeq(bytes, i * size + 1, Least((i + 1) * size, Len(bytes)))

\* The exponent of nextPow2.
Height(n) == CHOOSE h \in 0..n : 2^h >= n /\ \A k \in 0..(h - 1) : 2^k < n

Padded(leaves) ==
    [i \in 1..2^Height(Len(leaves)) |-> IF i <= Len(leaves) THEN leaves[i] ELSE Zero]

Parents(level) ==
    [i \in 1..(Len(level) \div 2) |-> Node(level[2 * i - 1], level[2 * i])]

\* The levels of the tree over these leaves, the padded leaves being level 0.
Levels(leaves) ==
    LET level[d \in 0..Height(Len(leaves))] ==
            IF d = 0 THEN Padded(leaves) ELSE Parents(level[d - 1])
    IN level

RootOfLeaves(leaves) == Levels(leaves)[Height(Len(leaves))][1]

Leaves(hashes) == [i \in 1..Len(hashes) |-> Leaf(hashes[i])]

\* A single leaf is the root itself: Height(1) is 0.
treeFromChunkHashes(hashes) == RootOfLeaves(Leaves(hashes))

ChunkHashes(bytes, size) ==
    [i \in 1..PieceCount(Len(bytes), size) |-> ChunkHash(i - 1, Piece(bytes, size, i - 1))]

\* BuildMerkleTree, the buffered reference.
BuildMerkleTree(bytes) == treeFromChunkHashes(ChunkHashes(bytes, ChunkSize))

-----------------------------------------------------------------------------
\* TreeBuilder: the finished chunk hashes and the bytes that the running hash
\* has consumed of the current chunk.
NewTreeBuilder == [hashes |-> <<>>, chunk |-> <<>>]

finishChunk(tb) ==
    [hashes |-> Append(tb.hashes, ChunkHash(Len(tb.hashes), tb.chunk)), chunk |-> <<>>]

\* Mutant: a round takes a whole chunk, whatever the current one holds already.
RoundOverfull(w) ==
    LET take == Least(ChunkSize, Len(w.rest))
        fed == [w.tb EXCEPT !.chunk = @ \o SubSeq(w.rest, 1, take)]
    IN [tb |-> IF Len(fed.chunk) = ChunkSize THEN finishChunk(fed) ELSE fed,
        rest |-> SubSeq(w.rest, take + 1, Len(w.rest))]

\* One round of the loop of Write: as many of the remaining bytes as the current chunk
\* has room for.  With no bytes left it changes nothing.
Round(w) ==
    LET take == Least(ChunkSize - Len(w.tb.chunk), Len(w.rest))
        fed == [w.tb EXCEPT !.chunk = @ \o SubSeq(w.rest, 1, take)]
    IN [tb |-> IF Len(fed.chunk) = ChunkSize THEN finishChunk(fed) ELSE fed,
        rest |-> SubSeq(w.rest, take + 1, Len(w.rest))]

\* A segment is used up after as many rounds as it has bytes, or sooner.
Write(tb, segment) ==
    LET after[k \in 0..Len(segment)] ==
            IF k = 0 THEN [tb |-> tb, rest |-> segment] ELSE Round(after[k - 1])
    IN after[Len(segment)].tb

\* The chunk hashes Finish returns; none for an empty stream, which is an error.
Finish(tb) == IF tb.chunk = <<>> THEN tb.hashes ELSE finishChunk(tb).hashes

-----------------------------------------------------------------------------
Sibling(i) == IF i % 2 = 0 THEN i + 1 ELSE i - 1

\* Mutant: the padding leaves are left out of the sibling list.
SiblingsUnpadded(leaves, i) ==
    LET level == Levels(leaves)
        all == [d \in 1..Height(Len(leaves)) |-> level[d - 1][Sibling(i \div 2^(d - 1)) + 1]]
    IN SelectSeq(all, LAMBDA hash : hash # Zero)

\* The siblings from leaf i up to the root.
computeMerkleProof(leaves, i) ==
    LET level == Levels(leaves)
    IN [d \in 1..Height(Len(leaves)) |-> level[d - 1][Sibling(i \div 2^(d - 1)) + 1]]

\* What the coordinator and the client recompute from a proof: the hash at the
\* top of the path from leaf i.
PathRoot(leaf, i, siblings) ==
    LET hash[d \in 0..Len(siblings)] ==
            IF d = 0 THEN leaf
            ELSE IF (i \div 2^(d - 1)) % 2 = 0
                 THEN Node(hash[d - 1], siblings[d])
                 ELSE Node(siblings[d], hash[d - 1])
    IN hash[Len(siblings)]

\* The root over the blocks of one chunk, to which a compact proof leads.
Seal(chunk) == RootOfLeaves(Leaves(ChunkHashes(chunk, BlockSize)))
=============================================================================
