---------------------------- MODULE MerkleProofs ----------------------------
(***************************************************************************)
(* What the tree of store/merkle.go guarantees, for every chunk size and   *)
(* every number of chunks: a root names one object (RootNamesOneObject),   *)
(* the proof of any chunk leads to the root (ProofLeadsToRoot), and the    *)
(* builder that is fed a stream ends with what is computed from the whole  *)
(* object (FedNew, FedWrite, FedFinish).                                   *)
(*                                                                         *)
(* The tree and the path are recursive functions, so each of them needs    *)
(* first that a function with its equation exists (LevelsEquation,         *)
(* PathEquation, WriteEquation).                                           *)
(***************************************************************************)
EXTENDS Merkle, NaturalProofs, FiniteSetTheorems, FunctionTheorems, SequenceTheorems

\* 2^n counts the subsets of 1..n.
LEMMA PowerIsCardinality ==
    ASSUME NEW n \in Nat
    PROVE  /\ IsFiniteSet(SUBSET (1..n))
           /\ Cardinality(SUBSET (1..n)) = 2^n
           /\ 2^n \in Nat
<1>1. IsFiniteSet(1..n) /\ Cardinality(1..n) = n
  BY FS_Interval
<1>2. IsFiniteSet(SUBSET (1..n)) /\ Cardinality(SUBSET (1..n)) = 2^n
  BY <1>1, FS_SUBSET
<1>3. QED
  BY <1>2, FS_CardinalityType

\* A level of the tree is twice as long as the one above it: 2^(n+1) is 2 * 2^n.
LEMMA PowerDoubles ==
    ASSUME NEW n \in Nat, NEW m \in Nat, m = n + 1
    PROVE  2^m = 2 * 2^n
<1> DEFINE Without == SUBSET (1..n)
           With == {t \in SUBSET (1..m) : m \in t}
           f == [t \in Without |-> t \cup {m}]
<1>1. SUBSET (1..m) = Without \cup With
  OBVIOUS
<1>2. Without \cap With = {}
  OBVIOUS
<1>3. f \in Bijection(Without, With)
  <2>1. f \in [Without -> With]
    OBVIOUS
  <2>2. \A s, t \in Without : f[s] = f[t] => s = t
    OBVIOUS
  <2>3. \A t \in With : \E s \in Without : f[s] = t
    <3>1. TAKE t \in With
    <3>2. t \ {m} \in Without
      OBVIOUS
    <3>3. f[t \ {m}] = t
      BY <3>2
    <3>4. QED
      BY <3>2, <3>3
  <2>4. QED
    BY <2>1, <2>2, <2>3, Fun_IsBij
<1>4. IsFiniteSet(With) /\ Cardinality(With) = Cardinality(Without)
  BY <1>3, PowerIsCardinality, FS_Bijection DEF ExistsBijection
<1>5. IsFiniteSet(Without) /\ Cardinality(Without) = 2^n /\ 2^n \in Nat
  BY PowerIsCardinality
<1>6. Cardinality(SUBSET (1..m)) = 2^m
  BY PowerIsCardinality
<1> HIDE DEF Without, With, f
<1>7. Cardinality(Without \cup With)
        = Cardinality(Without) + Cardinality(With) - Cardinality(Without \cap With)
  BY <1>4, <1>5, FS_Union
<1>8. Cardinality(Without \cap With) = 0
  BY <1>2, FS_EmptySet
<1>9. Cardinality(Without \cup With) = 2 * Cardinality(Without)
  <2>1. Cardinality(Without) \in Nat
    BY <1>5
  <2>2. QED
    BY <1>4, <1>7, <1>8, <2>1
<1>10. QED
  BY <1>1, <1>5, <1>6, <1>9, Zenon

\* How many nodes there are in the k-th level from the top.
Size(k) == 2^k

\* The sizes of the levels as sums, for the provers, which do not know powers.
LEMMA SizeStep ==
    /\ Size(0) = 1
    /\ \A k \in Nat : Size(k) \in Nat \ {0} /\ Size(k + 1) = 2 * Size(k)
<1>1. Size(0) = 1
  BY DEF Size
<1>2. ASSUME NEW k \in Nat PROVE Size(k + 1) = 2 * Size(k)
  <2>1. PICK m \in Nat : m = k + 1
    OBVIOUS
  <2>2. 2^m = 2 * 2^k
    BY <2>1, PowerDoubles
  <2>3. QED
    BY <2>1, <2>2, Zenon DEF Size
<1>3. \A k \in Nat : Size(k) \in Nat
  BY PowerIsCardinality DEF Size
<1> DEFINE T == {k \in Nat : Size(k) # 0}
<1>4. 0 \in T
  BY <1>1
<1>5. ASSUME NEW k \in Nat, k \in T PROVE k + 1 \in T
  BY <1>2, <1>3, <1>5
<1>6. \A k \in Nat : k \in T
  <2> HIDE DEF T
  <2>1. QED
    BY <1>4, <1>5, Induction
<1>7. QED
  BY <1>1, <1>2, <1>3, <1>6

\* The parent of position x of a level, and the position of the sibling of x.
LEMMA Halves ==
    ASSUME NEW p \in Nat, NEW q \in Nat, p = 2 * q, NEW x \in 0..(p - 1)
    PROVE  /\ x \div 2 \in 0..(q - 1)
           /\ x % 2 = 0 => /\ x + 1 = 2 * ((x \div 2) + 1) - 1
                           /\ Sibling(x) + 1 = 2 * ((x \div 2) + 1)
           /\ x % 2 # 0 => /\ x + 1 = 2 * ((x \div 2) + 1)
                           /\ Sibling(x) + 1 = 2 * ((x \div 2) + 1) - 1
BY DEF Sibling

\* store/merkle.go:114-120: nextPow2 ends, at the least power of 2 that is not less
\* than n.
LEMMA HeightBound ==
    ASSUME NEW n \in Nat \ {0}
    PROVE  Height(n) \in Nat /\ Size(Height(n)) >= n
<1> DEFINE Enough == {h \in Nat : Size(h) >= n}
           Large == {k \in Nat : Size(k) >= k + 1}
<1>1. \A k \in Nat : Size(k) >= k + 1
  <2>1. 0 \in Large
    BY SizeStep
  <2>2. ASSUME NEW k \in Nat, k \in Large PROVE k + 1 \in Large
    BY <2>2, SizeStep
  <2> HIDE DEF Large
  <2>3. \A k \in Nat : k \in Large
    BY <2>1, <2>2, Induction
  <2>4. QED
    BY <2>3 DEF Large
<1>2. n \in Enough
  BY <1>1, SizeStep
<1>3. PICK h \in Enough : \A k \in Enough : h <= k
  <2>1. Enough \subseteq Nat /\ Enough # {}
    BY <1>2
  <2> HIDE DEF Enough
  <2>2. QED
    BY <2>1, LeastNatural
<1>4. /\ h \in 0..n
      /\ Size(h) >= n
      /\ \A k \in 0..(h - 1) : Size(k) < n
  <2>1. \A k \in Nat : Size(k) \in Nat
    BY SizeStep
  <2>2. QED
    BY <1>2, <1>3, <2>1
<1>5. \E x \in 0..n : Size(x) >= n /\ \A k \in 0..(x - 1) : Size(k) < n
  BY <1>4
<1>6. Height(n) \in 0..n /\ Size(Height(n)) >= n
  BY <1>5, Zenon DEF Height, Size
<1>7. QED
  BY <1>6

-----------------------------------------------------------------------------
\* A function over 1..n has length n.
LEMMA LenOfFunction ==
    ASSUME NEW s, NEW n \in Nat, DOMAIN s = 1..n
    PROVE  Len(s) = n
OBVIOUS

\* The number of levels above the leaves.
Top(leaves) == Height(Len(leaves))

\* The height of a tree and the size of its lowest level.
LEMMA TopBound ==
    ASSUME NEW leaves, Len(leaves) \in Nat \ {0}
    PROVE  /\ Top(leaves) \in Nat
           /\ Size(Top(leaves)) \in Nat
           /\ Size(Top(leaves)) >= Len(leaves)
BY HeightBound, SizeStep DEF Top

\* store/merkle.go:92-96: the padding.
LEMMA PaddedShape ==
    ASSUME NEW leaves, Len(leaves) \in Nat \ {0}
    PROVE  /\ DOMAIN Padded(leaves) = 1..Size(Top(leaves))
           /\ \A i \in 1..Len(leaves) : Padded(leaves)[i] = leaves[i]
           /\ \A i \in 1..Size(Top(leaves)) : i > Len(leaves) => Padded(leaves)[i] = Zero
<1>1. Size(Top(leaves)) \in Nat /\ Size(Top(leaves)) >= Len(leaves)
  BY TopBound
<1>2. QED
  BY <1>1 DEF Padded, Top, Size

\* The recursive function of the levels exists and satisfies its equation.
LEMMA LevelsEquation ==
    ASSUME NEW leaves, Len(leaves) \in Nat \ {0}
    PROVE  Levels(leaves) = [d \in 0..Top(leaves) |->
                               IF d = 0 THEN Padded(leaves)
                               ELSE Parents(Levels(leaves)[d - 1])]
<1> DEFINE Rec(g, h) == g = [d \in 0..h |-> IF d = 0 THEN Padded(leaves)
                                            ELSE Parents(g[d - 1])]
           T == {h \in Nat : \E g : Rec(g, h)}
<1>1. 0 \in T
  <2>1. Rec([d \in 0..0 |-> Padded(leaves)], 0)
    OBVIOUS
  <2>2. QED
    BY <2>1
<1>2. ASSUME NEW h \in Nat, h \in T PROVE h + 1 \in T
  <2>1. PICK g : Rec(g, h)
    BY <1>2
  <2> DEFINE next == [d \in 0..(h + 1) |-> IF d <= h THEN g[d] ELSE Parents(g[h])]
  <2>2. ASSUME NEW d \in 0..(h + 1)
        PROVE  next[d] = IF d = 0 THEN Padded(leaves) ELSE Parents(next[d - 1])
    <3>1. CASE d = 0
      BY <2>1, <3>1
    <3>2. CASE d # 0 /\ d <= h
      <4>1. d - 1 \in 0..h /\ next[d - 1] = g[d - 1] /\ next[d] = g[d]
        BY <3>2
      <4>2. QED
        BY <2>1, <3>2, <4>1
    <3>3. CASE d = h + 1
      <4>1. d - 1 = h /\ next[d - 1] = g[h] /\ next[d] = Parents(g[h])
        BY <3>3
      <4>2. QED
        BY <3>3, <4>1
    <3>4. QED
      BY <3>1, <3>2, <3>3
  <2>3. Rec(next, h + 1)
    BY <2>2
  <2>4. h + 1 \in Nat
    OBVIOUS
  <2> HIDE DEF Rec, next
  <2>5. QED
    BY <2>3, <2>4
<1>3. Top(leaves) \in T
  <2>1. Top(leaves) \in Nat
    BY TopBound
  <2> HIDE DEF T
  <2>2. QED
    BY <1>1, <1>2, <2>1, Induction
<1>4. \E g : Rec(g, Top(leaves))
  BY <1>3
<1>5. Rec(Levels(leaves), Top(leaves))
  BY <1>4, Zenon DEF Levels, Top
<1>6. QED
  BY <1>5

\* Level d of the tree has 2^(H-d) nodes.
LEMMA LevelsShape ==
    ASSUME NEW leaves, Len(leaves) \in Nat \ {0}
    PROVE  /\ Top(leaves) \in Nat
           /\ Levels(leaves)[0] = Padded(leaves)
           /\ \A d \in 1..Top(leaves) : Levels(leaves)[d] = Parents(Levels(leaves)[d - 1])
           /\ \A d \in 0..Top(leaves) : DOMAIN Levels(leaves)[d] = 1..Size(Top(leaves) - d)
<1> DEFINE H == Top(leaves)
           level == Levels(leaves)
           T == {d \in Nat : d <= H => DOMAIN level[d] = 1..Size(H - d)}
<1>1. H \in Nat
  BY TopBound
<1>2. level[0] = Padded(leaves)
  BY <1>1, LevelsEquation
<1>3. \A d \in 1..H : level[d] = Parents(level[d - 1])
  <2> HIDE DEF H
  <2>1. \A d \in 1..H : d \in 0..H /\ d # 0
    BY <1>1
  <2>2. QED
    BY <2>1, LevelsEquation DEF H
<1>4. 0 \in T
  BY <1>1, <1>2, PaddedShape
<1>5. ASSUME NEW d \in Nat, d \in T PROVE d + 1 \in T
  <2>1. SUFFICES ASSUME d + 1 <= H PROVE DOMAIN level[d + 1] = 1..Size(H - (d + 1))
    OBVIOUS
  <2>2. PICK a \in Nat, b \in Nat : a = H - d /\ b = H - (d + 1) /\ a = b + 1
    BY <1>1, <2>1
  <2>3. Size(a) = 2 * Size(b) /\ Size(b) \in Nat /\ Size(a) \in Nat
    BY <2>2, SizeStep
  <2>4. DOMAIN level[d] = 1..Size(a)
    BY <1>1, <1>5, <2>1, <2>2
  <2>5. level[d + 1] = Parents(level[d])
    BY <1>1, <1>3, <2>1
  <2> HIDE DEF level, H
  <2>6. Len(level[d]) = Size(a)
    BY <2>3, <2>4, LenOfFunction
  <2>7. DOMAIN level[d + 1] = 1..(Size(a) \div 2)
    BY <2>5, <2>6 DEF Parents
  <2>8. Size(a) \div 2 = Size(b)
    <3>1. \A x, y \in Nat : x = 2 * y => x \div 2 = y
      OBVIOUS
    <3>2. QED
      BY <2>3, <3>1
  <2>9. QED
    BY <2>2, <2>7, <2>8
<1>6. \A d \in Nat : d \in T
  <2> HIDE DEF T
  <2>1. QED
    BY <1>4, <1>5, Induction
<1>7. \A d \in 0..H : DOMAIN level[d] = 1..Size(H - d)
  BY <1>1, <1>6
<1>8. QED
  BY <1>1, <1>2, <1>3, <1>7

\* store/merkle.go:98-110: a node is the hash of the two below it.
LEMMA LevelElements ==
    ASSUME NEW leaves, Len(leaves) \in Nat \ {0},
           NEW d \in Nat, d < Top(leaves),
           NEW i \in 1..Size(Top(leaves) - (d + 1))
    PROVE  /\ Levels(leaves)[d + 1][i]
                = Node(Levels(leaves)[d][2 * i - 1], Levels(leaves)[d][2 * i])
           /\ 2 * i - 1 \in 1..Size(Top(leaves) - d)
           /\ 2 * i \in 1..Size(Top(leaves) - d)
<1> DEFINE H == Top(leaves)
           level == Levels(leaves)
<1>1. H \in Nat
  BY LevelsShape
<1>2. PICK a \in Nat, b \in Nat : a = H - d /\ b = H - (d + 1) /\ a = b + 1
  BY <1>1
<1>3. Size(a) = 2 * Size(b) /\ Size(b) \in Nat /\ Size(a) \in Nat
  BY <1>2, SizeStep
<1>4. level[d + 1] = Parents(level[d])
  <2>1. d + 1 \in 1..H /\ (d + 1) - 1 = d
    BY <1>1
  <2>2. QED
    BY <2>1, LevelsShape
<1>5. DOMAIN level[d] = 1..Size(a)
  <2>1. d \in 0..H
    BY <1>1
  <2>2. QED
    BY <1>2, <2>1, LevelsShape
<1>6. i \in 1..Size(b)
  BY <1>2
<1> HIDE DEF level, H
<1>7. Len(level[d]) = Size(a)
  BY <1>3, <1>5, LenOfFunction
<1>8. \A x, y \in Nat : x = 2 * y => x \div 2 = y
  OBVIOUS
<1>9. Size(a) \div 2 = Size(b)
  BY <1>3, <1>8
<1>10. level[d + 1][i] = Node(level[d][2 * i - 1], level[d][2 * i])
  BY <1>4, <1>6, <1>7, <1>9 DEF Parents
<1>11. 2 * i - 1 \in 1..Size(a) /\ 2 * i \in 1..Size(a)
  <2>1. \A x, y \in Nat : (x = 2 * y /\ i \in 1..y) => (2 * i - 1 \in 1..x /\ 2 * i \in 1..x)
    OBVIOUS
  <2>2. QED
    BY <1>3, <1>6, <2>1
<1>12. QED
  BY <1>2, <1>10, <1>11 DEF level, H

\* Every element is a leaf: no padding and no inner node.
LeafList(a) == \A i \in 1..Len(a) : \E x : a[i] = Leaf(x)

\* Two trees of one height with one root have the same lowest level.
LEMMA SameTop ==
    ASSUME NEW a, Len(a) \in Nat \ {0},
           NEW b, Len(b) \in Nat \ {0},
           RootOfLeaves(a) = RootOfLeaves(b),
           NEW k \in Nat, k <= Top(a), k <= Top(b)
    PROVE  \A j \in 1..Size(k) :
             Levels(a)[Top(a) - k][j] = Levels(b)[Top(b) - k][j]
<1> DEFINE G == Top(a)
           H == Top(b)
           A == Levels(a)
           B == Levels(b)
           T == {x \in Nat : (x <= G /\ x <= H)
                               => \A j \in 1..Size(x) : A[G - x][j] = B[H - x][j]}
<1>1. G \in Nat /\ H \in Nat
  BY LevelsShape
<1>2. 0 \in T
  <2>1. A[G][1] = B[H][1]
    BY DEF RootOfLeaves, Top
  <2>2. G - 0 = G /\ H - 0 = H
    BY <1>1
  <2>3. \A j \in 1..Size(0) : j = 1
    BY SizeStep
  <2> HIDE DEF A, B, G, H
  <2>4. QED
    BY <2>1, <2>2, <2>3
<1>3. ASSUME NEW x \in Nat, x \in T PROVE x + 1 \in T
  <2>1. SUFFICES ASSUME x + 1 <= G, x + 1 <= H, NEW j \in 1..Size(x + 1)
                 PROVE  A[G - (x + 1)][j] = B[H - (x + 1)][j]
    OBVIOUS
  <2>2. PICK y \in Nat : y = x + 1
    OBVIOUS
  <2>3. Size(y) = 2 * Size(x) /\ Size(x) \in Nat /\ j \in 1..Size(y)
    BY <2>1, <2>2, SizeStep
  <2>4. PICK i \in 1..Size(x) : j = 2 * i - 1 \/ j = 2 * i
    <3>1. \A p, q \in Nat : (p = 2 * q /\ j \in 1..p) =>
             \E i \in 1..q : j = 2 * i - 1 \/ j = 2 * i
      <4>1. SUFFICES ASSUME NEW p \in Nat, NEW q \in Nat, p = 2 * q, j \in 1..p
                     PROVE  \E i \in 1..q : j = 2 * i - 1 \/ j = 2 * i
        OBVIOUS
      <4>2. (j + 1) \div 2 \in 1..q
        BY <4>1
      <4>3. j = 2 * ((j + 1) \div 2) - 1 \/ j = 2 * ((j + 1) \div 2)
        BY <4>1
      <4>4. QED
        BY <4>2, <4>3
    <3>2. Size(y) \in Nat
      BY SizeStep
    <3>3. QED
      BY <2>3, <3>1, <3>2
  <2>5. A[G - x][i] = B[H - x][i]
    BY <1>1, <1>3, <2>1
  <2>6. PICK g \in Nat, h \in Nat : g = G - y /\ h = H - y
    BY <1>1, <2>1, <2>2
  <2>7. /\ g < G /\ G - x = g + 1 /\ G - (g + 1) = x
        /\ h < H /\ H - x = h + 1 /\ H - (h + 1) = x
    <3>1. \A u, v, t \in Nat : (t = x + 1 /\ v = u - t)
             => v < u /\ u - x = v + 1 /\ u - (v + 1) = x
      OBVIOUS
    <3> HIDE DEF G, H
    <3>2. QED
      BY <1>1, <2>2, <2>6, <3>1, Zenon
  <2>8. A[g + 1][i] = Node(A[g][2 * i - 1], A[g][2 * i])
    BY <2>4, <2>7, LevelElements
  <2>9. B[h + 1][i] = Node(B[h][2 * i - 1], B[h][2 * i])
    BY <2>4, <2>7, LevelElements
  <2> HIDE DEF A, B, G, H
  <2>10. A[g][2 * i - 1] = B[h][2 * i - 1] /\ A[g][2 * i] = B[h][2 * i]
    BY <2>5, <2>7, <2>8, <2>9 DEF Node
  <2>11. QED
    BY <2>2, <2>4, <2>6, <2>10
<1>4. \A x \in Nat : x \in T
  <2> HIDE DEF T
  <2>1. QED
    BY <1>2, <1>3, Induction
<1>5. QED
  BY <1>4

\* Trees of different heights have different roots: the shorter one would have a leaf
\* or padding where the other has an inner node.
LEMMA NoShorterTree ==
    ASSUME NEW a, Len(a) \in Nat \ {0}, LeafList(a),
           NEW b, Len(b) \in Nat \ {0},
           RootOfLeaves(a) = RootOfLeaves(b)
    PROVE  Top(a) >= Top(b)
<1> DEFINE G == Top(a)
           H == Top(b)
<1>0. G \in Nat /\ H \in Nat
  BY TopBound
<1>1. SUFFICES ASSUME G < H PROVE FALSE
  BY <1>0
<1>2. PICK g \in Nat, h \in Nat : g = G /\ h = H /\ g < h
  BY <1>0, <1>1
<1>3. 1 \in 1..Size(g)
  <2>1. Size(g) \in Nat /\ Size(g) >= Len(a)
    BY <1>2, TopBound
  <2>2. QED
    BY <2>1
<1>4. Levels(a)[0][1] = Levels(b)[h - g][1]
  <2>1. g <= G /\ g <= H /\ G - g = 0 /\ H - g = h - g
    BY <1>2
  <2>2. \A j \in 1..Size(g) : Levels(a)[G - g][j] = Levels(b)[H - g][j]
    BY <2>1, SameTop
  <2>3. QED
    BY <1>3, <2>1, <2>2
<1>5. \E x : Levels(a)[0][1] = Leaf(x)
  <2>1. Levels(a)[0] = Padded(a)
    BY LevelsShape
  <2>2. 1 \in 1..Len(a) /\ Padded(a)[1] = a[1]
    BY PaddedShape
  <2>3. QED
    BY <2>1, <2>2 DEF LeafList
<1>6. \E x, y : Levels(b)[h - g][1] = Node(x, y)
  <2> DEFINE d == h - g - 1
  <2>1. d \in Nat /\ d + 1 = h - g /\ d < H /\ H - (d + 1) = g
    BY <1>2
  <2> HIDE DEF d
  <2>2. Levels(b)[d + 1][1] = Node(Levels(b)[d][2 * 1 - 1], Levels(b)[d][2 * 1])
    BY <1>3, <2>1, LevelElements
  <2>3. QED
    BY <2>1, <2>2
<1>7. \A x, y, z : Leaf(x) # Node(y, z)
  BY DEF Leaf, Node
<1>8. QED
  BY <1>4, <1>5, <1>6, <1>7

\* Equal lowest levels have equal numbers of leaves, as no leaf is padding.
LEMMA SamePadding ==
    ASSUME NEW a, Len(a) \in Nat \ {0}, LeafList(a),
           NEW b, Len(b) \in Nat \ {0}, LeafList(b),
           RootOfLeaves(a) = RootOfLeaves(b)
    PROVE  /\ Top(a) = Top(b)
           /\ \A j \in 1..Size(Top(b)) : Padded(a)[j] = Padded(b)[j]
<1>1. Top(a) \in Nat /\ Top(b) \in Nat
  BY TopBound
<1>2. Top(a) = Top(b)
  <2>1. Top(a) >= Top(b)
    BY NoShorterTree
  <2>2. Top(b) >= Top(a)
    BY NoShorterTree
  <2>3. QED
    BY <1>1, <2>1, <2>2
<1> DEFINE g == Top(b)
<1>3. g \in Nat /\ g <= Top(a) /\ g <= Top(b) /\ Top(a) - g = 0 /\ Top(b) - g = 0
  BY <1>1, <1>2
<1>4. \A j \in 1..Size(g) : Levels(a)[Top(a) - g][j] = Levels(b)[Top(b) - g][j]
  <2> HIDE DEF g
  <2>1. QED
    BY <1>3, SameTop
<1>5. Levels(a)[0] = Padded(a) /\ Levels(b)[0] = Padded(b)
  BY LevelsShape
<1>6. QED
  <2> HIDE DEF g
  <2>1. \A j \in 1..Size(g) : Padded(a)[j] = Padded(b)[j]
    BY <1>3, <1>4, <1>5
  <2>2. QED
    BY <1>2, <2>1 DEF g

\* A tree with the same root has not fewer leaves.
LEMMA NoFewerLeaves ==
    ASSUME NEW a, Len(a) \in Nat \ {0}, LeafList(a),
           NEW b, Len(b) \in Nat \ {0}, LeafList(b),
           RootOfLeaves(a) = RootOfLeaves(b)
    PROVE  Len(a) >= Len(b)
<1>1. SUFFICES ASSUME Len(a) < Len(b) PROVE FALSE
  OBVIOUS
<1>2. Top(a) = Top(b) /\ \A j \in 1..Size(Top(b)) : Padded(a)[j] = Padded(b)[j]
  BY SamePadding
<1> DEFINE n == Len(b)
<1>3. n \in 1..Size(Top(b)) /\ n > Len(a) /\ n \in 1..Len(b)
  BY <1>1, TopBound
<1>4. Padded(a)[n] = Zero
  BY <1>2, <1>3, PaddedShape
<1>5. Padded(b)[n] = b[n]
  BY <1>3, PaddedShape
<1>6. \E x : b[n] = Leaf(x)
  BY <1>3 DEF LeafList
<1>7. \A x : Leaf(x) # Zero
  BY DEF Leaf, Zero
<1>8. Padded(a)[n] = Padded(b)[n]
  BY <1>2, <1>3
<1> HIDE DEF n
<1>9. QED
  BY <1>4, <1>5, <1>6, <1>7, <1>8

\* The root of a tree determines the leaves.
LEMMA RootDeterminesLeaves ==
    ASSUME NEW a, Len(a) \in Nat \ {0}, LeafList(a),
           NEW b, Len(b) \in Nat \ {0}, LeafList(b),
           RootOfLeaves(a) = RootOfLeaves(b)
    PROVE  Len(a) = Len(b) /\ \A i \in 1..Len(b) : a[i] = b[i]
<1>1. Len(a) = Len(b)
  <2>1. Len(a) >= Len(b)
    BY NoFewerLeaves
  <2>2. Len(b) >= Len(a)
    BY NoFewerLeaves
  <2>3. QED
    BY <2>1, <2>2
<1>2. \A j \in 1..Size(Top(b)) : Padded(a)[j] = Padded(b)[j]
  BY SamePadding
<1>3. \A i \in 1..Len(b) : i \in 1..Size(Top(b))
  BY TopBound
<1>4. \A i \in 1..Len(b) : Padded(b)[i] = b[i] /\ Padded(a)[i] = a[i]
  BY <1>1, PaddedShape
<1>5. QED
  BY <1>1, <1>2, <1>3, <1>4

\* A sequence is the list of its elements.
List(s) == Len(s) \in Nat /\ s = [i \in 1..Len(s) |-> s[i]]

\* store/merkle.go:76-85: the leaves over a list of chunk hashes.
LEMMA LeavesShape ==
    ASSUME NEW s, Len(s) \in Nat
    PROVE  /\ Len(Leaves(s)) = Len(s)
           /\ LeafList(Leaves(s))
           /\ \A i \in 1..Len(s) : Leaves(s)[i] = Leaf(s[i])
<1>1. /\ DOMAIN Leaves(s) = 1..Len(s)
      /\ \A i \in 1..Len(s) : Leaves(s)[i] = Leaf(s[i])
  BY DEF Leaves
<1>2. Len(Leaves(s)) = Len(s)
  BY <1>1, LenOfFunction
<1>3. QED
  BY <1>1, <1>2 DEF LeafList

\* store/merkle.go:69-111: the root of a list of chunk hashes determines the list, its
\* length included: neither the padding nor the depth of the tree lets two lists meet.
THEOREM TreeIsInjective ==
    ASSUME NEW a, List(a), a # <<>>,
           NEW b, List(b), b # <<>>,
           treeFromChunkHashes(a) = treeFromChunkHashes(b)
    PROVE  a = b
<1>1. Len(a) \in Nat \ {0} /\ Len(b) \in Nat \ {0}
  BY DEF List
<1>2. RootOfLeaves(Leaves(a)) = RootOfLeaves(Leaves(b))
  BY DEF treeFromChunkHashes
<1>3. /\ Len(Leaves(a)) = Len(a) /\ LeafList(Leaves(a))
      /\ Len(Leaves(b)) = Len(b) /\ LeafList(Leaves(b))
      /\ \A i \in 1..Len(a) : Leaves(a)[i] = Leaf(a[i])
      /\ \A i \in 1..Len(b) : Leaves(b)[i] = Leaf(b[i])
  BY <1>1, LeavesShape
<1>4. Len(a) = Len(b) /\ \A i \in 1..Len(b) : Leaves(a)[i] = Leaves(b)[i]
  BY <1>1, <1>2, <1>3, RootDeterminesLeaves
<1>5. \A i \in 1..Len(b) : a[i] = b[i]
  <2>1. \A x, y : Leaf(x) = Leaf(y) => x = y
    BY DEF Leaf
  <2>2. \A i \in 1..Len(b) : Leaf(a[i]) = Leaf(b[i])
    BY <1>3, <1>4
  <2>3. QED
    BY <2>1, <2>2
<1>6. QED
  BY <1>4, <1>5 DEF List

-----------------------------------------------------------------------------
\* The recursive function of the hashes along a path exists and satisfies its
\* equation.
LEMMA PathEquation ==
    ASSUME NEW leaf, NEW i, NEW siblings, Len(siblings) \in Nat
    PROVE  \E g :
             /\ PathRoot(leaf, i, siblings) = g[Len(siblings)]
             /\ g[0] = leaf
             /\ \A d \in 1..Len(siblings) :
                  g[d] = IF (i \div Size(d - 1)) % 2 = 0
                         THEN Node(g[d - 1], siblings[d])
                         ELSE Node(siblings[d], g[d - 1])
<1> DEFINE Combine(x, d) == IF (i \div Size(d - 1)) % 2 = 0 THEN Node(x, siblings[d])
                            ELSE Node(siblings[d], x)
           Rec(g, h) == g = [d \in 0..h |-> IF d = 0 THEN leaf ELSE Combine(g[d - 1], d)]
           T == {h \in Nat : \E g : Rec(g, h)}
<1>1. 0 \in T
  <2>1. Rec([d \in 0..0 |-> leaf], 0)
    OBVIOUS
  <2>2. QED
    BY <2>1
<1>2. ASSUME NEW h \in Nat, h \in T PROVE h + 1 \in T
  <2> HIDE DEF Combine
  <2>1. PICK g : Rec(g, h)
    BY <1>2
  <2> DEFINE next == [d \in 0..(h + 1) |-> IF d <= h THEN g[d] ELSE Combine(g[h], h + 1)]
  <2>2. ASSUME NEW d \in 0..(h + 1)
        PROVE  next[d] = IF d = 0 THEN leaf ELSE Combine(next[d - 1], d)
    <3>1. CASE d = 0
      BY <2>1, <3>1
    <3>2. CASE d # 0 /\ d <= h
      <4>1. d - 1 \in 0..h /\ next[d - 1] = g[d - 1] /\ next[d] = g[d]
        BY <3>2
      <4>2. QED
        BY <2>1, <3>2, <4>1
    <3>3. CASE d = h + 1
      <4>1. d - 1 = h /\ next[d - 1] = g[h] /\ next[d] = Combine(g[h], h + 1)
        BY <3>3
      <4>2. QED
        BY <3>3, <4>1
    <3>4. QED
      BY <3>1, <3>2, <3>3
  <2>3. Rec(next, h + 1)
    BY <2>2
  <2>4. h + 1 \in Nat
    OBVIOUS
  <2> HIDE DEF Rec, next
  <2>5. QED
    BY <2>3, <2>4
<1>3. Len(siblings) \in T
  <2> HIDE DEF T
  <2>1. QED
    BY <1>1, <1>2, Induction
<1>4. \E g : Rec(g, Len(siblings))
  BY <1>3
<1> DEFINE path == CHOOSE g : Rec(g, Len(siblings))
<1>5. Rec(path, Len(siblings))
  BY <1>4, Zenon
<1>6. PathRoot(leaf, i, siblings) = path[Len(siblings)]
  BY DEF PathRoot, Size
<1>7. path[0] = leaf /\ \A d \in 1..Len(siblings) : path[d] = Combine(path[d - 1], d)
  <2> HIDE DEF Combine, path
  <2>1. QED
    BY <1>5
<1>8. QED
  BY <1>6, <1>7, Zenon

\* Going up one level halves the position.
LEMMA HalfOfQuotient ==
    ASSUME NEW i \in Nat, NEW m \in Nat \ {0}
    PROVE  (i \div m) \div 2 = i \div (2 * m)
OBVIOUS

\* api/challenge_helpers.go:41-69: the sibling list of any leaf leads from that leaf to
\* the root, for every number of leaves, padding included.
THEOREM ProofLeadsToRoot ==
    ASSUME NEW leaves, Len(leaves) \in Nat \ {0},
           NEW i \in 0..(Len(leaves) - 1)
    PROVE  PathRoot(leaves[i + 1], i, computeMerkleProof(leaves, i)) = RootOfLeaves(leaves)
<1> DEFINE H == Top(leaves)
           level == Levels(leaves)
           sib == computeMerkleProof(leaves, i)
           at(d) == i \div Size(d)
<1>1. H \in Nat /\ Size(H) \in Nat /\ Size(H) >= Len(leaves)
  BY TopBound
<1>2. DOMAIN sib = 1..H /\ \A d \in 1..H : sib[d] = level[d - 1][Sibling(at(d - 1)) + 1]
  BY <1>1 DEF computeMerkleProof, Top, Size
<1>3. Len(sib) = H
  BY <1>1, <1>2, LenOfFunction
<1>4. PICK g : /\ PathRoot(leaves[i + 1], i, sib) = g[H]
               /\ g[0] = leaves[i + 1]
               /\ \A d \in 1..H : g[d] = IF at(d - 1) % 2 = 0 THEN Node(g[d - 1], sib[d])
                                         ELSE Node(sib[d], g[d - 1])
  <2>1. Len(sib) \in Nat
    BY <1>1, <1>3
  <2> HIDE DEF sib, H
  <2>2. QED
    BY <1>3, <2>1, PathEquation
<1> DEFINE T == {d \in Nat : d <= H => /\ at(d) \in 0..(Size(H - d) - 1)
                                      /\ g[d] = level[d][at(d) + 1]}
<1>5. 0 \in T
  <2>1. at(0) = i
    BY SizeStep
  <2>2. i \in 0..(Size(H) - 1) /\ H - 0 = H
    BY <1>1
  <2>3. g[0] = leaves[i + 1]
    BY <1>1, <1>4
  <2>4. level[0][i + 1] = leaves[i + 1]
    BY LevelsShape, PaddedShape
  <2> HIDE DEF H, level, at
  <2>5. QED
    BY <2>1, <2>2, <2>3, <2>4
<1>6. ASSUME NEW d \in Nat, d \in T PROVE d + 1 \in T
  <2>1. SUFFICES ASSUME d + 1 <= H
                 PROVE  /\ at(d + 1) \in 0..(Size(H - (d + 1)) - 1)
                        /\ g[d + 1] = level[d + 1][at(d + 1) + 1]
    OBVIOUS
  <2>2. PICK a \in Nat, b \in Nat : a = H - d /\ b = H - (d + 1) /\ a = b + 1
    BY <1>1, <2>1
  <2>3. Size(a) = 2 * Size(b) /\ Size(a) \in Nat /\ Size(b) \in Nat
    BY <2>2, SizeStep
  <2>4. at(d) \in 0..(Size(a) - 1) /\ g[d] = level[d][at(d) + 1]
    BY <1>1, <1>6, <2>1, <2>2
  <2>5. at(d + 1) = at(d) \div 2
    <3>1. Size(d + 1) = 2 * Size(d) /\ Size(d) \in Nat \ {0}
      BY SizeStep
    <3>2. QED
      BY <3>1, HalfOfQuotient
  <2>6. /\ g[d + 1] = IF at(d) % 2 = 0 THEN Node(g[d], sib[d + 1]) ELSE Node(sib[d + 1], g[d])
        /\ sib[d + 1] = level[d][Sibling(at(d)) + 1]
    BY <1>1, <1>2, <1>4, <2>1
  <2> HIDE DEF at
  <2> DEFINE x == at(d)
             y == at(d) \div 2
  <2>7. /\ y \in 0..(Size(b) - 1)
        /\ x % 2 = 0 => x + 1 = 2 * (y + 1) - 1 /\ Sibling(x) + 1 = 2 * (y + 1)
        /\ x % 2 # 0 => x + 1 = 2 * (y + 1) /\ Sibling(x) + 1 = 2 * (y + 1) - 1
    BY <2>3, <2>4, Halves
  <2> HIDE DEF x, y
  <2>8. level[d + 1][y + 1] = Node(level[d][2 * (y + 1) - 1], level[d][2 * (y + 1)])
    <3>1. d < H /\ y + 1 \in 1..Size(H - (d + 1))
      <4>1. \A u, v \in Nat : u + 1 <= v => u < v
        OBVIOUS
      <4>2. \A m \in Nat : y \in 0..(m - 1) => y + 1 \in 1..m
        OBVIOUS
      <4> HIDE DEF H
      <4>3. d < H
        BY <1>1, <2>1, <4>1, Zenon
      <4>4. QED
        BY <2>2, <2>3, <2>7, <4>2, <4>3, Zenon
    <3>2. QED
      BY <3>1, LevelElements
  <2> HIDE DEF H, level, sib
  <2>9. g[d + 1] = level[d + 1][y + 1]
    BY <2>4, <2>6, <2>7, <2>8 DEF x
  <2>10. QED
    BY <2>2, <2>5, <2>7, <2>9 DEF y
<1>7. H \in T
  <2> HIDE DEF T, H
  <2>1. QED
    BY <1>1, <1>5, <1>6, Induction
<1>8. g[H] = level[H][at(H) + 1] /\ at(H) \in 0..(Size(H - H) - 1)
  BY <1>1, <1>7
<1>9. at(H) = 0
  <2>1. Size(H - H) = 1
    BY <1>1, SizeStep
  <2> HIDE DEF H
  <2>2. QED
    BY <1>8, <2>1
<1>10. RootOfLeaves(leaves) = level[H][1]
  BY DEF RootOfLeaves, Top
<1>11. QED
  <2> HIDE DEF level, H, sib
  <2>1. QED
    BY <1>4, <1>8, <1>9, <1>10 DEF sib

-----------------------------------------------------------------------------
\* store/merkle.go:48: the chunks are just enough to hold the bytes.
LEMMA CeilingDivision ==
    ASSUME NEW n \in Nat, NEW size \in Nat \ {0}
    PROVE  /\ PieceCount(n, size) \in Nat
           /\ n <= PieceCount(n, size) * size
           /\ PieceCount(n, size) * size < n + size
           /\ PieceCount(n, size) = 0 <=> n = 0
BY DEF PieceCount

\* ... and no other number of chunks is.
LEMMA CeilingIs ==
    ASSUME NEW n \in Nat, NEW size \in Nat \ {0}, NEW c \in Nat,
           n <= c * size, c * size < n + size
    PROVE  PieceCount(n, size) = c
BY DEF PieceCount

\* There are at least as many chunks as full ones.
LEMMA FullChunks ==
    ASSUME NEW n \in Nat, NEW size \in Nat \ {0}, NEW q \in Nat, q * size <= n
    PROVE  q <= PieceCount(n, size) /\ PieceCount(n, size) \in Nat
BY DEF PieceCount

\* Every chunk starts within the object.
LEMMA PieceStart ==
    ASSUME NEW n \in Nat, NEW size \in Nat \ {0}, NEW i \in 0..(PieceCount(n, size) - 1)
    PROVE  i * size \in Nat /\ (i + 1) * size = i * size + size /\ i * size < n
BY DEF PieceCount

\* Every byte lies in one of the chunks.
LEMMA PieceOf ==
    ASSUME NEW n \in Nat, NEW size \in Nat \ {0}, NEW j \in 1..n
    PROVE  (j - 1) \div size < PieceCount(n, size)
BY DEF PieceCount

\* store/merkle.go:51-56: a chunk is not empty, is full unless it is the last, and
\* holds the bytes at its place.
LEMMA PieceShape ==
    ASSUME NEW S, NEW bytes \in Seq(S), NEW size \in Nat \ {0},
           NEW i \in 0..(PieceCount(Len(bytes), size) - 1)
    PROVE  /\ Piece(bytes, size, i) \in Seq(S)
           /\ Len(Piece(bytes, size, i)) = Least(size, Len(bytes) - i * size)
           /\ Len(Piece(bytes, size, i)) > 0
           /\ \A j \in 1..Len(Piece(bytes, size, i)) :
                /\ i * size + j \in 1..Len(bytes)
                /\ Piece(bytes, size, i)[j] = bytes[i * size + j]
<1> DEFINE n == Len(bytes)
           x == i * size
           last == Least((i + 1) * size, n)
<1>1. n \in Nat /\ x \in Nat /\ (i + 1) * size = x + size /\ x < n
  BY PieceStart
<1> HIDE DEF x
<1>2. last \in Nat /\ x < last /\ last <= n /\ last - x = Least(size, n - x)
  BY <1>1 DEF Least
<1>3. \A j \in (x + 1)..last : bytes[j] \in S
  BY <1>1, <1>2
<1>4. /\ SubSeq(bytes, x + 1, last) \in Seq(S)
      /\ Len(SubSeq(bytes, x + 1, last)) = last - (x + 1) + 1
      /\ \A j \in 1..(last - (x + 1) + 1) :
           SubSeq(bytes, x + 1, last)[j] = bytes[(x + 1) + j - 1]
  <2> HIDE DEF last
  <2>1. x + 1 \in Int /\ last \in Int /\ x + 1 <= last
    BY <1>1, <1>2
  <2>2. QED
    BY <1>3, <2>1, SubSeqProperties
<1>5. Piece(bytes, size, i) = SubSeq(bytes, x + 1, last)
  BY DEF Piece, x
<1> HIDE DEF last
<1>6. last - (x + 1) + 1 = last - x /\ \A j \in 1..(last - x) : (x + 1) + j - 1 = x + j
  BY <1>1, <1>2
<1>7. \A j \in 1..(last - x) : x + j \in 1..n
  BY <1>1, <1>2
<1> DEFINE piece == SubSeq(bytes, x + 1, last)
<1>8. /\ piece \in Seq(S)
      /\ Len(piece) = last - x
      /\ \A j \in 1..(last - x) : piece[j] = bytes[x + j]
  <2> HIDE DEF piece
  <2>1. QED
    BY <1>4, <1>6 DEF piece
<1>9. last - x > 0
  BY <1>1, <1>2
<1> HIDE DEF piece
<1>10. /\ piece \in Seq(S)
       /\ Len(piece) = Least(size, n - x)
       /\ Len(piece) > 0
       /\ \A j \in 1..Len(piece) : x + j \in 1..n /\ piece[j] = bytes[x + j]
  BY <1>2, <1>7, <1>8, <1>9, Zenon
<1>11. QED
  BY <1>5, <1>10, Zenon DEF x, piece

\* store/merkle.go:50-59: the list of chunk hashes.
LEMMA ChunkHashesShape ==
    ASSUME NEW S, NEW bytes \in Seq(S), NEW size \in Nat \ {0}
    PROVE  /\ Len(ChunkHashes(bytes, size)) = PieceCount(Len(bytes), size)
           /\ List(ChunkHashes(bytes, size))
           /\ \A i \in 1..PieceCount(Len(bytes), size) :
                ChunkHashes(bytes, size)[i] = ChunkHash(i - 1, Piece(bytes, size, i - 1))
<1> DEFINE c == PieceCount(Len(bytes), size)
<1>1. c \in Nat
  <2>1. Len(bytes) \in Nat
    OBVIOUS
  <2>2. QED
    BY <2>1, CeilingDivision
<1> HIDE DEF c
<1>2. ChunkHashes(bytes, size) = [i \in 1..c |-> ChunkHash(i - 1, Piece(bytes, size, i - 1))]
  BY DEF ChunkHashes, c
<1>3. Len(ChunkHashes(bytes, size)) = c
  BY <1>1, <1>2, LenOfFunction
<1>4. QED
  BY <1>1, <1>2, <1>3 DEF List, c

\* store/merkle.go:43-46: an object that is not empty has a chunk.
LEMMA HashesOfNonempty ==
    ASSUME NEW S, NEW bytes \in Seq(S), NEW size \in Nat \ {0}
    PROVE  /\ List(ChunkHashes(bytes, size))
           /\ bytes # <<>> <=> ChunkHashes(bytes, size) # <<>>
           /\ bytes # <<>> => Len(ChunkHashes(bytes, size)) \in Nat \ {0}
<1>1. Len(bytes) \in Nat /\ (bytes = <<>> <=> Len(bytes) = 0)
  OBVIOUS
<1>2. /\ PieceCount(Len(bytes), size) \in Nat
      /\ PieceCount(Len(bytes), size) = 0 <=> Len(bytes) = 0
  BY <1>1, CeilingDivision
<1>3. /\ List(ChunkHashes(bytes, size))
      /\ Len(ChunkHashes(bytes, size)) = PieceCount(Len(bytes), size)
  BY ChunkHashesShape
<1> DEFINE h == ChunkHashes(bytes, size)
<1>4. Len(h) \in Nat /\ (Len(h) = 0 <=> bytes = <<>>) /\ h = [i \in 1..Len(h) |-> h[i]]
  BY <1>1, <1>2, <1>3 DEF List
<1> HIDE DEF h
<1>5. h = <<>> <=> Len(h) = 0
  <2>1. ASSUME Len(h) = 0 PROVE h = <<>>
    BY <1>4, <2>1
  <2>2. Len(<<>>) = 0
    OBVIOUS
  <2>3. QED
    BY <2>1, <2>2
<1>6. QED
  BY <1>3, <1>4, <1>5 DEF h

\* The proof of piece i of some bytes, cut into pieces of any size, leads from the leaf
\* over the piece to the root over all of them.
LEMMA PieceLeadsToRoot ==
    ASSUME NEW S, NEW bytes \in Seq(S), NEW size \in Nat \ {0},
           NEW i \in 0..(PieceCount(Len(bytes), size) - 1)
    PROVE  PathRoot(Leaf(ChunkHash(i, Piece(bytes, size, i))), i,
                    computeMerkleProof(Leaves(ChunkHashes(bytes, size)), i))
             = RootOfLeaves(Leaves(ChunkHashes(bytes, size)))
<1> DEFINE h == ChunkHashes(bytes, size)
           c == PieceCount(Len(bytes), size)
<1>1. c \in Nat
  <2>1. Len(bytes) \in Nat
    OBVIOUS
  <2>2. QED
    BY <2>1, CeilingDivision
<1>2. Len(h) = c /\ i + 1 \in 1..c /\ (i + 1) - 1 = i
  BY <1>1, ChunkHashesShape
<1>3. h[i + 1] = ChunkHash(i, Piece(bytes, size, i))
  BY <1>2, ChunkHashesShape
<1> HIDE DEF h, c
<1>4. Len(Leaves(h)) = c /\ Leaves(h)[i + 1] = Leaf(h[i + 1])
  BY <1>1, <1>2, LeavesShape
<1>5. Len(Leaves(h)) \in Nat \ {0} /\ i \in 0..(Len(Leaves(h)) - 1)
  BY <1>1, <1>4 DEF c
<1>6. QED
  BY <1>3, <1>4, <1>5, ProofLeadsToRoot DEF h

\* store/merkle.go:50-63: the chunk hashes of an object determine its bytes.
LEMMA SplitIsInjective ==
    ASSUME NEW S, NEW a \in Seq(S), NEW b \in Seq(S), NEW size \in Nat \ {0},
           ChunkHashes(a, size) = ChunkHashes(b, size)
    PROVE  a = b
<1> DEFINE c == PieceCount(Len(a), size)
<1>0. Len(a) \in Nat /\ Len(b) \in Nat
  OBVIOUS
<1>1. /\ c \in Nat /\ c = PieceCount(Len(b), size)
      /\ Len(a) <= c * size /\ Len(b) <= c * size
      /\ c = 0 => Len(a) = 0 /\ Len(b) = 0
  <2>1. c = PieceCount(Len(b), size)
    BY ChunkHashesShape
  <2>2. QED
    BY <1>0, <2>1, CeilingDivision
<1>2. \A i \in 0..(c - 1) : Piece(a, size, i) = Piece(b, size, i)
  <2>1. TAKE i \in 0..(c - 1)
  <2>2. i + 1 \in 1..c /\ (i + 1) - 1 = i
    BY <1>1
  <2>3. ChunkHashes(a, size)[i + 1] = ChunkHash(i, Piece(a, size, i))
    BY <2>2, ChunkHashesShape
  <2>4. ChunkHashes(b, size)[i + 1] = ChunkHash(i, Piece(b, size, i))
    BY <1>1, <2>2, ChunkHashesShape
  <2>5. QED
    BY <2>3, <2>4 DEF ChunkHash
<1>3. \A i \in 0..(c - 1) :
        /\ i * size \in Nat
        /\ Len(Piece(a, size, i)) = Least(size, Len(a) - i * size)
        /\ Len(Piece(b, size, i)) = Least(size, Len(b) - i * size)
        /\ \A j \in 1..Len(Piece(a, size, i)) : Piece(a, size, i)[j] = a[i * size + j]
        /\ \A j \in 1..Len(Piece(b, size, i)) : Piece(b, size, i)[j] = b[i * size + j]
  <2>1. TAKE i \in 0..(c - 1)
  <2>2. i \in 0..(PieceCount(Len(a), size) - 1) /\ i \in 0..(PieceCount(Len(b), size) - 1)
    BY <1>1
  <2>3. i * size \in Nat
    BY <1>1
  <2>4. /\ Len(Piece(a, size, i)) = Least(size, Len(a) - i * size)
        /\ \A j \in 1..Len(Piece(a, size, i)) : Piece(a, size, i)[j] = a[i * size + j]
    BY <2>2, PieceShape
  <2>5. /\ Len(Piece(b, size, i)) = Least(size, Len(b) - i * size)
        /\ \A j \in 1..Len(Piece(b, size, i)) : Piece(b, size, i)[j] = b[i * size + j]
    BY <2>2, PieceShape
  <2>6. QED
    BY <2>3, <2>4, <2>5, Zenon
<1>4. Len(a) = Len(b)
  <2>1. CASE c = 0
    BY <1>1, <2>1
  <2>2. CASE c # 0
    <3> DEFINE i == c - 1
               x == i * size
    <3>1. i \in 0..(c - 1) /\ c * size = x + size
      BY <1>1, <2>2
    <3> HIDE DEF i
    <3>2. Least(size, Len(a) - x) = Least(size, Len(b) - x) /\ x \in Nat
      BY <1>2, <1>3, <3>1
    <3> HIDE DEF x
    <3>3. QED
      BY <1>0, <1>1, <3>1, <3>2 DEF Least
  <2>3. QED
    BY <2>1, <2>2
<1>5. ASSUME NEW j \in 1..Len(a) PROVE a[j] = b[j]
  <2> DEFINE i == (j - 1) \div size
             x == i * size
             k == j - x
  <2>1. i \in Nat /\ x \in Nat /\ x <= j - 1 /\ j - 1 < x + size
    OBVIOUS
  <2>2. i < c
    BY <1>0, <1>1, PieceOf
  <2> HIDE DEF i
  <2>3. i \in 0..(c - 1)
    BY <1>1, <2>1, <2>2
  <2>4. /\ Len(Piece(a, size, i)) = Least(size, Len(a) - x)
        /\ Len(Piece(b, size, i)) = Least(size, Len(b) - x)
        /\ \A m \in 1..Len(Piece(a, size, i)) : Piece(a, size, i)[m] = a[x + m]
        /\ \A m \in 1..Len(Piece(b, size, i)) : Piece(b, size, i)[m] = b[x + m]
        /\ Piece(a, size, i) = Piece(b, size, i)
    BY <1>2, <1>3, <2>3
  <2> HIDE DEF x
  <2>5. k \in 1..Least(size, Len(a) - x) /\ x + k = j
    BY <1>0, <2>1 DEF Least
  <2> HIDE DEF k
  <2>6. QED
    BY <2>4, <2>5
<1>6. QED
  BY <1>4, <1>5, SeqEqual

-----------------------------------------------------------------------------
\* A slice and the one that follows it.
LEMMA JoinedSlices ==
    ASSUME NEW S, NEW s \in Seq(S), NEW x \in Nat, NEW m \in Nat, NEW n \in Nat,
           x <= m, m <= n, n <= Len(s)
    PROVE  /\ SubSeq(s, x + 1, m) \o SubSeq(s, m + 1, n) = SubSeq(s, x + 1, n)
           /\ Len(SubSeq(s, x + 1, n)) = n - x
<1>1. SubSeq(s, x + 1, m) = [i \in 1..(m - x) |-> s[i + x]]
  BY DEF SubSeq
<1>2. SubSeq(s, m + 1, n) = [i \in 1..(n - m) |-> s[i + m]]
  BY DEF SubSeq
<1>3. SubSeq(s, x + 1, n) = [i \in 1..(n - x) |-> s[i + x]]
  BY DEF SubSeq
<1> DEFINE a == SubSeq(s, x + 1, m)
           b == SubSeq(s, m + 1, n)
           k == m - x
           l == n - m
<1>4. k \in Nat /\ l \in Nat /\ k + l = n - x /\ Len(a) = k /\ Len(b) = l
      /\ Len(SubSeq(s, x + 1, n)) = n - x
  BY <1>1, <1>2, <1>3, LenOfFunction
<1>5. \A i \in 1..(k + l) : (IF i <= k THEN a[i] ELSE b[i - k]) = s[i + x]
  BY <1>1, <1>2
<1> HIDE DEF a, b, k, l
<1>6. /\ a \o b \in Seq(S) /\ Len(a \o b) = k + l
      /\ \A i \in 1..(k + l) : (a \o b)[i] = s[i + x]
  <2>1. a \in Seq(S) /\ b \in Seq(S)
    BY SubSeqProperties DEF a, b
  <2>2. /\ a \o b \in Seq(S) /\ Len(a \o b) = k + l
        /\ \A i \in 1..(k + l) : (a \o b)[i] = IF i <= k THEN a[i] ELSE b[i - k]
    BY <1>4, <2>1, ConcatProperties
  <2>3. QED
    BY <1>5, <2>2
<1>7. SubSeq(s, x + 1, n) \in Seq(S)
  BY SubSeqProperties
<1>8. \A i \in 1..(k + l) : (a \o b)[i] = SubSeq(s, x + 1, n)[i]
  BY <1>3, <1>4, <1>6
<1>9. a \o b = SubSeq(s, x + 1, n)
  BY <1>4, <1>6, <1>7, <1>8, SeqEqual
<1>10. QED
  BY <1>4, <1>9 DEF a, b

\* A slice of a slice, from its beginning and up to its end.
LEMMA SlicesOfSlice ==
    ASSUME NEW S, NEW s \in Seq(S), NEW m \in Nat, NEW n \in Nat, m <= n, n <= Len(s),
           NEW t \in 0..(n - m), NEW a, a = SubSeq(s, m + 1, n)
    PROVE  /\ Len(a) = n - m
           /\ SubSeq(a, 1, t) = SubSeq(s, m + 1, m + t)
           /\ SubSeq(a, t + 1, n - m) = SubSeq(s, (m + t) + 1, n)
<1>1. a = [i \in 1..(n - m) |-> s[i + m]]
  BY DEF SubSeq
<1>2. Len(a) = n - m
  BY <1>1, LenOfFunction
<1>3. SubSeq(a, 1, t) = [i \in 1..t |-> s[i + m]]
  <2>1. SubSeq(a, 1, t) = [i \in 1..t |-> a[i]]
    BY DEF SubSeq
  <2>2. \A i \in 1..t : a[i] = s[i + m]
    BY <1>1
  <2>3. QED
    BY <2>1, <2>2
<1>4. SubSeq(s, m + 1, m + t) = [i \in 1..t |-> s[i + m]]
  BY DEF SubSeq
<1>5. SubSeq(a, t + 1, n - m) = [i \in 1..(n - m - t) |-> s[i + m + t]]
  <2>1. SubSeq(a, t + 1, n - m) = [i \in 1..(n - m - t) |-> a[i + t]]
    BY DEF SubSeq
  <2>2. \A i \in 1..(n - m - t) : a[i + t] = s[i + m + t]
    BY <1>1
  <2>3. QED
    BY <2>1, <2>2
<1>6. SubSeq(s, (m + t) + 1, n) = [i \in 1..(n - m - t) |-> s[i + m + t]]
  BY DEF SubSeq
<1>7. QED
  BY <1>2, <1>3, <1>4, <1>5, <1>6

\* An empty slice.
LEMMA NoBytes ==
    ASSUME NEW S, NEW s \in Seq(S), NEW n \in Nat
    PROVE  SubSeq(s, n + 1, n) = <<>>
OBVIOUS

\* The hashes of the first q chunks.
FirstHashes(bytes, q) == [i \in 1..q |-> ChunkHash(i - 1, Piece(bytes, ChunkSize, i - 1))]

\* store/merkle.go:186-190: finishChunk appends the hash of the next chunk.
LEMMA OneMoreHash ==
    ASSUME NEW bytes, NEW q \in Nat
    PROVE  /\ Len(FirstHashes(bytes, q)) = q
           /\ Append(FirstHashes(bytes, q), ChunkHash(q, Piece(bytes, ChunkSize, q)))
                = FirstHashes(bytes, q + 1)
<1> DEFINE h(i) == ChunkHash(i - 1, Piece(bytes, ChunkSize, i - 1))
<1>1. h(q + 1) = ChunkHash(q, Piece(bytes, ChunkSize, q))
  <2>1. (q + 1) - 1 = q
    OBVIOUS
  <2>2. QED
    BY <2>1
<1>2. FirstHashes(bytes, q) = [i \in 1..q |-> h(i)]
      /\ FirstHashes(bytes, q + 1) = [i \in 1..(q + 1) |-> h(i)]
  BY DEF FirstHashes
<1> HIDE DEF h
<1>3. Len(FirstHashes(bytes, q)) = q
  BY <1>2, LenOfFunction
<1>4. Append(FirstHashes(bytes, q), h(q + 1)) =
        [i \in 1..(q + 1) |-> IF i = q + 1 THEN h(q + 1) ELSE FirstHashes(bytes, q)[i]]
  BY <1>3 DEF Append
<1>5. \A i \in 1..(q + 1) : (IF i = q + 1 THEN h(q + 1) ELSE FirstHashes(bytes, q)[i]) = h(i)
  BY <1>2
<1>6. QED
  BY <1>1, <1>2, <1>3, <1>4, <1>5

\* A builder that has been fed the first k bytes: it holds the hashes of the chunks
\* they complete and the bytes after the last of them.
Fed(tb, bytes, k) ==
    \E q \in Nat :
        /\ q * ChunkSize <= k /\ k < q * ChunkSize + ChunkSize
        /\ tb = [hashes |-> FirstHashes(bytes, q),
                 chunk |-> SubSeq(bytes, q * ChunkSize + 1, k)]

\* store/merkle.go:142-144: a new builder has been fed nothing.
LEMMA FedNew ==
    ASSUME NEW S, NEW bytes \in Seq(S)
    PROVE  Fed(NewTreeBuilder, bytes, 0)
<1>1. 0 * ChunkSize = 0 /\ ChunkSize \in Nat \ {0}
  BY MerkleAssumption
<1>2. FirstHashes(bytes, 0) = <<>>
  BY DEF FirstHashes
<1>3. SubSeq(bytes, 0 * ChunkSize + 1, 0) = <<>>
  BY <1>1, NoBytes
<1>4. NewTreeBuilder = [hashes |-> FirstHashes(bytes, 0),
                        chunk |-> SubSeq(bytes, 0 * ChunkSize + 1, 0)]
  BY <1>2, <1>3, Zenon DEF NewTreeBuilder
<1>5. 0 * ChunkSize <= 0 /\ 0 < 0 * ChunkSize + ChunkSize /\ 0 \in Nat
  BY <1>1
<1>6. QED
  BY <1>4, <1>5, Zenon DEF Fed

\* store/merkle.go:149-182: one round, which may complete a chunk.  It takes bytes if
\* there are any.
LEMMA FedRound ==
    ASSUME NEW S, NEW bytes \in Seq(S), NEW k \in Nat, NEW e \in Nat, k <= e, e <= Len(bytes)
    PROVE  \A w : w = [tb |-> w.tb, rest |-> SubSeq(bytes, k + 1, e)] /\ Fed(w.tb, bytes, k) =>
             \E m \in k..e :
               /\ Round(w) = [tb |-> Round(w).tb, rest |-> SubSeq(bytes, m + 1, e)]
               /\ Fed(Round(w).tb, bytes, m)
               /\ k < e => k < m
<1>0. SUFFICES ASSUME NEW w, w = [tb |-> w.tb, rest |-> SubSeq(bytes, k + 1, e)],
                      Fed(w.tb, bytes, k)
               PROVE  \E m \in k..e :
                        /\ Round(w) = [tb |-> Round(w).tb, rest |-> SubSeq(bytes, m + 1, e)]
                        /\ Fed(Round(w).tb, bytes, m)
                        /\ k < e => k < m
  OBVIOUS
<1>1. PICK q \in Nat :
        /\ q * ChunkSize <= k /\ k < q * ChunkSize + ChunkSize
        /\ w.tb = [hashes |-> FirstHashes(bytes, q),
                   chunk |-> SubSeq(bytes, q * ChunkSize + 1, k)]
  BY <1>0 DEF Fed
<1> DEFINE x == q * ChunkSize
           h == FirstHashes(bytes, q)
           c == SubSeq(bytes, x + 1, k)
           r == SubSeq(bytes, k + 1, e)
           t == Least(ChunkSize - (k - x), e - k)
           m == k + t
           more == SubSeq(bytes, x + 1, m)
           fed == [hashes |-> h, chunk |-> more]
<1>2. x \in Nat /\ ChunkSize \in Nat \ {0} /\ (q + 1) * ChunkSize = x + ChunkSize
      /\ x <= k /\ k < x + ChunkSize
  BY <1>1, MerkleAssumption
<1>3. w.tb = [hashes |-> h, chunk |-> c] /\ w.rest = r
  <2>1. w.rest = r
    <3> HIDE DEF r
    <3>1. w = [tb |-> w.tb, rest |-> r]
      BY <1>0, Zenon DEF r
    <3>2. QED
      BY <3>1
  <2>2. QED
    BY <1>1, <2>1, Zenon
<1> HIDE DEF x
<1>4. /\ t \in 0..(e - k) /\ m \in k..e /\ m <= x + ChunkSize
      /\ m = e \/ m = x + ChunkSize
      /\ k < e => k < m
  <2>1. t = Least(ChunkSize - (k - x), e - k)
    OBVIOUS
  <2> HIDE DEF c, r, h, more, fed, t
  <2>2. QED
    BY <1>2, <2>1 DEF Least
<1> HIDE DEF t
<1>5. /\ Len(c) = k - x /\ Len(r) = e - k
      /\ SubSeq(r, 1, t) = SubSeq(bytes, k + 1, m)
      /\ SubSeq(r, t + 1, e - k) = SubSeq(bytes, m + 1, e)
  <2>1. Len(c) = k - x
    BY <1>2, JoinedSlices
  <2>2. e <= Len(bytes) /\ k <= e /\ t \in 0..(e - k)
    BY <1>4
  <2>3. r = SubSeq(bytes, k + 1, e)
    OBVIOUS
  <2> HIDE DEF c, r
  <2>4. QED
    BY <2>1, <2>2, <2>3, SlicesOfSlice
<1>6. c \o SubSeq(r, 1, t) = more /\ Len(more) = m - x
  <2>1. c \o SubSeq(bytes, k + 1, m) = more /\ Len(more) = m - x
    <3>1. m \in Nat /\ x <= k /\ k <= m /\ m <= Len(bytes)
      BY <1>2, <1>4
    <3> HIDE DEF m
    <3>2. QED
      BY <1>2, <3>1, JoinedSlices
  <2>2. QED
    BY <1>5, <2>1, Zenon
<1> HIDE DEF h, c, r, more
<1>7. Round(w) = [tb |-> IF m - x = ChunkSize THEN finishChunk(fed) ELSE fed,
                  rest |-> SubSeq(bytes, m + 1, e)]
  <2>1. w.tb.chunk = c /\ Least(ChunkSize - Len(w.tb.chunk), Len(w.rest)) = t
    BY <1>3, <1>5 DEF t
  <2>2. [w.tb EXCEPT !.chunk = more] = fed /\ fed.chunk = more
    BY <1>3
  <2>3. w.tb.chunk \o SubSeq(w.rest, 1, t) = more
    BY <1>3, <1>6, <2>1, Zenon
  <2>4. [w.tb EXCEPT !.chunk = @ \o SubSeq(w.rest, 1, t)] = fed
    BY <2>2, <2>3, Zenon
  <2>5. Len(fed.chunk) = m - x
    BY <1>6, <2>2, Zenon
  <2>6. SubSeq(w.rest, t + 1, Len(w.rest)) = SubSeq(bytes, m + 1, e)
    BY <1>3, <1>5, Zenon
  <2> HIDE DEF fed, m
  <2>7. QED
    BY <2>1, <2>4, <2>5, <2>6, Zenon DEF Round
<1> DEFINE tb == IF m - x = ChunkSize THEN finishChunk(fed) ELSE fed
<1>8. Fed(tb, bytes, m)
  <2>1. CASE m - x # ChunkSize
    <3>1. x <= m /\ m < x + ChunkSize
      BY <1>2, <1>4, <2>1
    <3>2. QED
      BY <2>1, <3>1 DEF Fed, x, more, h
  <2>2. CASE m - x = ChunkSize
    <3> DEFINE y == (q + 1) * ChunkSize
    <3>1. m = y /\ y = x + ChunkSize /\ y <= Len(bytes) /\ y \in Nat
      <4>1. m \in Int /\ m <= Len(bytes)
        BY <1>4
      <4> HIDE DEF m
      <4>2. QED
        BY <1>2, <2>2, <4>1
    <3>2. Least(y, Len(bytes)) = m
      BY <3>1 DEF Least
    <3>3. more = Piece(bytes, ChunkSize, q)
      BY <3>2 DEF more, x, Piece
    <3> HIDE DEF y
    <3>4. finishChunk(fed) = [hashes |-> FirstHashes(bytes, q + 1), chunk |-> <<>>]
      BY <3>3, OneMoreHash DEF finishChunk, h
    <3>5. SubSeq(bytes, y + 1, m) = <<>>
      BY <3>1, NoBytes
    <3>6. y <= m /\ m < y + ChunkSize /\ q + 1 \in Nat
      BY <1>2, <3>1
    <3>7. QED
      BY <2>2, <3>4, <3>5, <3>6 DEF Fed, y
  <2>3. QED
    BY <2>1, <2>2
<1> HIDE DEF tb, m
<1>9. Round(w) = [tb |-> tb, rest |-> SubSeq(bytes, m + 1, e)] /\ Round(w).tb = tb
  <2>1. Round(w) = [tb |-> tb, rest |-> SubSeq(bytes, m + 1, e)]
    BY <1>7 DEF tb
  <2>2. QED
    BY <2>1
<1>10. QED
  BY <1>4, <1>8, <1>9, Zenon

\* store/merkle.go:195-209: what Finish returns of a builder that was fed the whole
\* object is what the tree over the buffered object is built from.
LEMMA FedFinish ==
    ASSUME NEW S, NEW bytes \in Seq(S), NEW tb, Fed(tb, bytes, Len(bytes))
    PROVE  Finish(tb) = ChunkHashes(bytes, ChunkSize)
<1> DEFINE n == Len(bytes)
<1>1. PICK q \in Nat :
        /\ q * ChunkSize <= n /\ n < q * ChunkSize + ChunkSize
        /\ tb = [hashes |-> FirstHashes(bytes, q),
                 chunk |-> SubSeq(bytes, q * ChunkSize + 1, n)]
  BY DEF Fed
<1> DEFINE x == q * ChunkSize
<1>2. n \in Nat /\ x \in Nat /\ ChunkSize \in Nat \ {0} /\ (q + 1) * ChunkSize = x + ChunkSize
      /\ x <= n /\ n < x + ChunkSize
  BY <1>1, MerkleAssumption
<1>3. tb = [hashes |-> FirstHashes(bytes, q), chunk |-> SubSeq(bytes, x + 1, n)]
  BY <1>1
<1>4. \A c : PieceCount(n, ChunkSize) = c => ChunkHashes(bytes, ChunkSize) = FirstHashes(bytes, c)
  BY DEF ChunkHashes, FirstHashes
<1>5. CASE n = x
  <2>1. n <= q * ChunkSize /\ q * ChunkSize < n + ChunkSize
    BY <1>2, <1>5
  <2>2. PieceCount(n, ChunkSize) = q
    <3> HIDE DEF n
    <3>1. QED
      BY <1>2, <2>1, CeilingIs
  <2>3. SubSeq(bytes, x + 1, n) = <<>>
    BY <1>2, <1>5, NoBytes
  <2>4. QED
    BY <1>3, <1>4, <2>2, <2>3 DEF Finish
<1>6. CASE n # x
  <2> DEFINE y == (q + 1) * ChunkSize
  <2>1. n <= y /\ y < n + ChunkSize /\ Least(y, n) = n
    BY <1>2, <1>6 DEF Least
  <2>2. PieceCount(n, ChunkSize) = q + 1
    <3> HIDE DEF n
    <3>1. QED
      BY <1>2, <2>1, CeilingIs
  <2>3. SubSeq(bytes, x + 1, n) = Piece(bytes, ChunkSize, q)
    BY <2>1 DEF Piece
  <2>4. SubSeq(bytes, x + 1, n) # <<>>
    <3> HIDE DEF x, y
    <3>1. SubSeq(bytes, x + 1, n) = [i \in 1..(n - x) |-> bytes[i + x]]
      BY <1>2, <1>6 DEF SubSeq
    <3>2. Len(SubSeq(bytes, x + 1, n)) = n - x
      BY <1>2, <3>1, LenOfFunction
    <3>3. n - x # 0 /\ Len(<<>>) = 0
      BY <1>2, <1>6
    <3>4. QED
      BY <3>2, <3>3, Zenon
  <2>5. finishChunk(tb).hashes = FirstHashes(bytes, q + 1)
    BY <1>3, <2>3, OneMoreHash DEF finishChunk
  <2>6. QED
    <3> HIDE DEF x, y, n
    <3>1. QED
      BY <1>3, <1>4, <2>2, <2>4, <2>5 DEF Finish
<1>7. QED
  BY <1>5, <1>6

\* The sequence of rounds over a segment is well-defined, so it satisfies its equation.
LEMMA WriteEquation ==
    ASSUME NEW tb, NEW segment, Len(segment) \in Nat
    PROVE  \E after : /\ Write(tb, segment) = after[Len(segment)].tb
                      /\ after[0] = [tb |-> tb, rest |-> segment]
                      /\ \A k \in 1..Len(segment) : after[k] = Round(after[k - 1])
<1> DEFINE first == [tb |-> tb, rest |-> segment]
           Rec(g, n) == g = [k \in 0..n |-> IF k = 0 THEN first ELSE Round(g[k - 1])]
           T == {n \in Nat : \E g : Rec(g, n)}
<1>1. 0 \in T
  <2> DEFINE g == [k \in 0..0 |-> first]
  <2>1. Rec(g, 0)
    OBVIOUS
  <2>2. QED
    BY <2>1
<1> HIDE DEF first
<1>2. ASSUME NEW n \in Nat, n \in T PROVE n + 1 \in T
  <2>1. PICK g : Rec(g, n)
    BY <1>2
  <2> DEFINE h == [k \in 0..(n + 1) |->
                     IF k = n + 1 THEN Round(g[n]) ELSE g[k]]
  <2>2. \A k \in 0..(n + 1) :
          h[k] = IF k = 0 THEN first ELSE Round(h[k - 1])
    <3>1. TAKE k \in 0..(n + 1)
    <3>2. CASE k = n + 1
      <4>1. h[k] = Round(g[n]) /\ h[k - 1] = g[n] /\ k # 0
        BY <3>2
      <4>2. QED
        BY <3>2, <4>1
    <3>3. CASE k # n + 1
      <4>1. k \in 0..n /\ (k # 0 => k - 1 \in 0..n)
        BY <3>3
      <4>2. h[k] = g[k] /\ (k # 0 => h[k - 1] = g[k - 1])
        BY <4>1
      <4>3. g[k] = IF k = 0 THEN first ELSE Round(g[k - 1])
        <5> DEFINE v(f, j) == IF j = 0 THEN first ELSE Round(f[j - 1])
        <5>1. g = [j \in 0..n |-> v(g, j)]
          BY <2>1
        <5> HIDE DEF v
        <5>2. g[k] = v(g, k)
          BY <4>1, <5>1, Zenon
        <5>3. QED
          BY <5>2 DEF v
      <4> HIDE DEF h
      <4>4. QED
        BY <4>2, <4>3
    <3>4. QED
      BY <3>2, <3>3
  <2>3. Rec(h, n + 1)
    <3> DEFINE v(f, j) == IF j = 0 THEN first ELSE Round(f[j - 1])
               w == [j \in 0..(n + 1) |-> v(h, j)]
    <3>1. \A j \in 0..(n + 1) : h[j] = v(h, j)
      BY <2>2
    <3>2. h = [j \in 0..(n + 1) |-> h[j]]
      OBVIOUS
    <3> HIDE DEF v, h
    <3>3. h = w
      BY <3>1, <3>2
    <3>4. QED
      BY <3>3 DEF v
  <2>4. n + 1 \in Nat
    OBVIOUS
  <2> HIDE DEF Rec, h
  <2>5. QED
    BY <2>3, <2>4
<1>3. \A n \in Nat : n \in T
  <2> HIDE DEF T
  <2>1. QED
    BY <1>1, <1>2, Induction
<1>4. \E g : Rec(g, Len(segment))
  BY <1>3
<1> DEFINE after == CHOOSE g : Rec(g, Len(segment))
<1>5. Rec(after, Len(segment))
  BY <1>4, Zenon
<1>6. Write(tb, segment) = after[Len(segment)].tb
  BY DEF Write, first
<1>7. after[0] = first /\ \A k \in 1..Len(segment) : after[k] = Round(after[k - 1])
  <2> HIDE DEF after
  <2>1. QED
    BY <1>5
<1>8. QED
  BY <1>6, <1>7, Zenon DEF first

\* store/merkle.go:128-132: the builder does not depend on how the reads cut the
\* stream: after i rounds at least i bytes of the segment have been taken, and the
\* builder stands where those bytes end.
LEMMA FedWrite ==
    ASSUME NEW S, NEW bytes \in Seq(S), NEW k \in Nat, NEW n \in Nat, k + n <= Len(bytes),
           NEW tb, Fed(tb, bytes, k)
    PROVE  Fed(Write(tb, SubSeq(bytes, k + 1, k + n)), bytes, k + n)
<1> DEFINE e == k + n
           segment == SubSeq(bytes, k + 1, e)
<1>1. segment = [i \in 1..n |-> bytes[i + k]]
  BY DEF SubSeq
<1>2. Len(segment) = n
  BY <1>1, LenOfFunction
<1>3. e \in Nat /\ k <= e /\ e <= Len(bytes)
  OBVIOUS
<1> HIDE DEF segment, e
<1>4. PICK after : /\ Write(tb, segment) = after[n].tb
                   /\ after[0] = [tb |-> tb, rest |-> segment]
                   /\ \A i \in 1..n : after[i] = Round(after[i - 1])
  BY <1>2, WriteEquation
<1> DEFINE Reaches(w, m) == /\ w = [tb |-> w.tb, rest |-> SubSeq(bytes, m + 1, e)]
                            /\ Fed(w.tb, bytes, m)
           T == {i \in Nat : i <= n => \E m \in (k + i)..e : Reaches(after[i], m)}
<1> HIDE DEF Reaches
<1>5. 0 \in T
  <2>1. Reaches(after[0], k)
    <3>1. after[0].tb = tb
      BY <1>4
    <3>2. QED
      BY <1>4, <3>1, Zenon DEF segment, Reaches
  <2>2. k \in (k + 0)..e
    BY <1>3
  <2>3. QED
    BY <2>1, <2>2
<1>6. ASSUME NEW i \in Nat, i \in T PROVE i + 1 \in T
  <2>1. SUFFICES ASSUME i + 1 <= n PROVE \E m \in (k + (i + 1))..e : Reaches(after[i + 1], m)
    OBVIOUS
  <2>2. PICK m \in (k + i)..e : Reaches(after[i], m)
    BY <1>6, <2>1
  <2>3. m \in Nat /\ m <= e
    BY <1>3
  <2>4. PICK l \in m..e : /\ Reaches(Round(after[i]), l)
                          /\ m < e => m < l
    BY <1>3, <2>2, <2>3, FedRound DEF Reaches
  <2>5. after[i + 1] = Round(after[i])
    BY <1>4, <2>1
  <2>6. l \in (k + (i + 1))..e
    BY <1>3, <2>1, <2>3, <2>4 DEF e
  <2>7. QED
    BY <2>4, <2>5, <2>6
<1>7. n \in T
  <2> HIDE DEF T
  <2>1. QED
    BY <1>5, <1>6, Induction
<1>8. Fed(after[n].tb, bytes, e)
  <2>1. PICK m \in (k + n)..e : Reaches(after[n], m)
    BY <1>7
  <2>2. m = e
    BY <1>3 DEF e
  <2>3. QED
    BY <2>1, <2>2 DEF Reaches
<1>9. QED
  BY <1>4, <1>8 DEF segment, e

-----------------------------------------------------------------------------
\* store/merkle.go:36-66: no two objects have the same root, whatever their lengths.
THEOREM RootNamesOneObject ==
    ASSUME NEW S, NEW a \in Seq(S), a # <<>>, NEW b \in Seq(S), b # <<>>,
           BuildMerkleTree(a) = BuildMerkleTree(b)
    PROVE  a = b
<1>1. ChunkSize \in Nat \ {0}
  BY MerkleAssumption
<1>2. ChunkHashes(a, ChunkSize) # <<>> /\ List(ChunkHashes(a, ChunkSize))
  BY <1>1, HashesOfNonempty
<1>3. ChunkHashes(b, ChunkSize) # <<>> /\ List(ChunkHashes(b, ChunkSize))
  BY <1>1, HashesOfNonempty
<1>4. treeFromChunkHashes(ChunkHashes(a, ChunkSize)) = treeFromChunkHashes(ChunkHashes(b, ChunkSize))
  BY DEF BuildMerkleTree
<1>5. ChunkHashes(a, ChunkSize) = ChunkHashes(b, ChunkSize)
  BY <1>2, <1>3, <1>4, TreeIsInjective
<1>6. QED
  BY <1>1, <1>5, SplitIsInjective
=============================================================================
