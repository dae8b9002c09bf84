------------------------- MODULE Lifetimes_proofs --------------------------
(***************************************************************************)
(* Proofs about Lifetimes, for any functions, requests and block sizes and *)
(* any nesting: what is in use is live, the programs of functions last and *)
(* marks restore the arena.                                                *)
(*                                                                         *)
(* The argument is about order.  Every frame that has marked cmd has done  *)
(* so when all that the frames below it use was already there, so that all *)
(* of it precedes the mark, and a rewind to the mark spares it.            *)
(***************************************************************************)
EXTENDS Lifetimes, FiniteSetTheorems, SequenceTheorems, TLAPS

-----------------------------------------------------------------------------
(* What the operations on an arena do to it, for every arena, request and  *)
(* mark.  There is no state here: these are the facts that the rest stands *)
(* on.                                                                     *)

(* An arena with all that keeps it in order, block by block: no block is   *)
(* in two places, none is overfull, and none has the number of a block     *)
(* still to be made.                                                       *)
Whole(a) ==
  /\ a \in Arenas
  /\ \A i, j \in 1 .. Len(a.chain) : a.chain[i].id = a.chain[j].id => i = j
  /\ \A i, j \in 1 .. Len(a.free) : a.free[i].id = a.free[j].id => i = j
  /\ \A i \in 1 .. Len(a.chain), j \in 1 .. Len(a.free) : a.chain[i].id # a.free[j].id
  /\ \A i \in 1 .. Len(a.chain) : /\ a.chain[i].used <= a.chain[i].cap
                                  /\ a.chain[i].id <= Len(a.chain) + Len(a.free)
  /\ \A j \in 1 .. Len(a.free) : a.free[j].id <= Len(a.chain) + Len(a.free)

(* Nothing has been taken from the blocks in use.                          *)
Grown(a, b) ==
  /\ Len(a.chain) <= Len(b.chain)
  /\ \A i \in 1 .. Len(a.chain) : /\ b.chain[i].id = a.chain[i].id
                                  /\ a.chain[i].used <= b.chain[i].used

(* The place that a mark remembers.                                        *)
Spot(mark) == [block |-> mark.block, end |-> mark.used]

(* Both are in use, and q is not below p: a rewind to q spares p.          *)
Precedes(a, p, q) ==
  \E i, j \in 1 .. Len(a.chain) :
    /\ a.chain[i].id = p.block /\ p.end <= a.chain[i].used
    /\ a.chain[j].id = q.block /\ q.end <= a.chain[j].used
    /\ i < j \/ (i = j /\ p.end <= q.end)

-----------------------------------------------------------------------------
(* A set of numbers has a least one.                                       *)
LEMMA LeastNatural ==
  ASSUME NEW T, T \subseteq Nat, T # {}
  PROVE  \E x \in T : \A y \in T : x <= y
<1>1. PICK x \in T : \A y \in T : ~(<<y, x>> \in OpToRel(<, Nat))
  BY NatLessThanWellFounded, WFMin
<1> DEFINE less == {ss \in Nat \X Nat : ss[1] < ss[2]}
<1>2. OpToRel(<, Nat) = less
  BY DEF OpToRel
<1>3. \A y \in T : ~(<<y, x>> \in less)
  BY <1>1, <1>2
<1>4. ASSUME NEW y \in T PROVE x <= y
  <2>1. x \in Nat /\ y \in Nat
    OBVIOUS
  <2>2. ~(<<y, x>>[1] < <<y, x>>[2])
    BY <1>3, <2>1
  <2> QED
    BY <2>1, <2>2
<1> QED
  BY <1>4

(* A set of n things has 2 ^ n subsets, at least as many as things.        *)
LEMMA PowersOfTwo == \A n \in Nat : 2 ^ n \in Nat /\ n <= 2 ^ n
<1> SUFFICES ASSUME NEW n \in Nat PROVE 2 ^ n \in Nat /\ n <= 2 ^ n
  OBVIOUS
<1>1. IsFiniteSet(1 .. n) /\ Cardinality(1 .. n) = n
  BY FS_Interval
<1>2. IsFiniteSet(SUBSET (1 .. n)) /\ Cardinality(SUBSET (1 .. n)) = 2 ^ n
  BY <1>1, FS_SUBSET
<1> DEFINE single == [i \in 1 .. n |-> {i}]
<1>3. single \in Injection(1 .. n, SUBSET (1 .. n))
  <2>1. single \in [1 .. n -> SUBSET (1 .. n)] /\ \A i, j \in 1 .. n : single[i] = single[j] => i = j
    OBVIOUS
  <2> QED
    BY <2>1 DEF Injection, IsInjective
<1> QED
  BY <1>1, <1>2, <1>3, FS_CardinalityType, FS_Injection

(* The doubling of arena_alloc_in ends, at a size that fits the request.   *)
LEMMA CapacityFits ==
  ASSUME NEW n \in Nat
  PROVE  Capacity(n) \in Nat /\ n <= Capacity(n)
<1> DEFINE T == {k \in Nat : n <= BlockSize * 2 ^ k}
           Least(k) == n <= BlockSize * 2 ^ k /\ \A j \in 0 .. k - 1 : n > BlockSize * 2 ^ j
           c == CHOOSE k \in 0 .. n : Least(k)
<1>1. \A j \in Nat : BlockSize * 2 ^ j \in Nat
  BY PowersOfTwo, BlockSizeAssumption
<1>2. n \in T
  BY PowersOfTwo, BlockSizeAssumption
<1>3. PICK k \in T : \A j \in T : k <= j
  BY <1>2, LeastNatural
<1>4. k \in 0 .. n /\ Least(k)
  BY <1>1, <1>2, <1>3
<1>5. c \in 0 .. n /\ Least(c)
  <2> HIDE DEF Least
  <2> QED
    BY <1>4
<1>6. BlockSize * 2 ^ c \in Nat /\ n <= BlockSize * 2 ^ c
  <2>1. c \in Nat
    BY <1>5
  <2> HIDE DEF c
  <2> QED
    BY <1>1, <1>5, <2>1
<1>7. Capacity(n) = BlockSize * 2 ^ c
  BY DEF Capacity
<1> QED
  BY <1>6, <1>7

-----------------------------------------------------------------------------
(* What an arena consists of.                                              *)
LEMMA ArenaParts ==
  ASSUME NEW a \in Arenas
  PROVE  /\ a.chain \in Seq(Blocks) /\ a.free \in Seq(Blocks)
         /\ a = [chain |-> a.chain, free |-> a.free]
         /\ Len(a.chain) \in Nat /\ Len(a.free) \in Nat
         /\ DOMAIN a.chain = 1 .. Len(a.chain) /\ DOMAIN a.free = 1 .. Len(a.free)
         /\ \A i \in 1 .. Len(a.chain) : a.chain[i] \in Blocks
         /\ \A i \in 1 .. Len(a.free) : a.free[i] \in Blocks
         /\ a.chain # <<>> <=> Len(a.chain) # 0
<1>1. a.chain \in Seq(Blocks) /\ a.free \in Seq(Blocks) /\ a = [chain |-> a.chain, free |-> a.free]
  BY DEF Arenas
<1> QED
  BY <1>1, LenProperties, ElementOfSeq, EmptySeq

(* The property of arenas that the runs check, from the one proved.        *)
LEMMA WholeIsIntact ==
  ASSUME NEW a, Whole(a)
  PROVE  Intact(a)
<1>1. a.chain \in Seq(Blocks) /\ a.free \in Seq(Blocks)
  BY DEF Whole, Arenas
<1> DEFINE all == a.chain \o a.free
           k == Len(a.chain)
           m == Len(a.free)
<1>2. /\ all \in Seq(Blocks) /\ Len(all) = k + m
      /\ \A i \in 1 .. k + m : all[i] = IF i <= k THEN a.chain[i] ELSE a.free[i - k]
  BY <1>1, ConcatProperties
<1>3. DOMAIN all = 1 .. k + m /\ k \in Nat /\ m \in Nat
  BY <1>1, <1>2, LenProperties
<1> HIDE DEF all, k, m
<1>4. ASSUME NEW i \in 1 .. k + m, NEW j \in 1 .. k + m, all[i].id = all[j].id
      PROVE  i = j
  <2>1. i \in Int /\ j \in Int /\ k \in Int
    BY <1>3
  <2>2. CASE i <= k /\ j <= k
    <3>1. i \in 1 .. k /\ j \in 1 .. k /\ all[i] = a.chain[i] /\ all[j] = a.chain[j]
      BY <1>2, <1>3, <2>2
    <3> QED
      BY <1>4, <3>1 DEF Whole, k, m
  <2>3. CASE i <= k /\ ~(j <= k)
    <3>1. i \in 1 .. k /\ j - k \in 1 .. m /\ all[i] = a.chain[i] /\ all[j] = a.free[j - k]
      BY <1>2, <1>3, <2>3
    <3> QED
      BY <1>4, <3>1 DEF Whole, k, m
  <2>4. CASE ~(i <= k) /\ j <= k
    <3>1. i - k \in 1 .. m /\ j \in 1 .. k /\ all[i] = a.free[i - k] /\ all[j] = a.chain[j]
      BY <1>2, <1>3, <2>4
    <3> QED
      BY <1>4, <3>1 DEF Whole, k, m
  <2>5. CASE ~(i <= k) /\ ~(j <= k)
    <3>1. i - k \in 1 .. m /\ j - k \in 1 .. m /\ all[i] = a.free[i - k] /\ all[j] = a.free[j - k]
      BY <1>2, <1>3, <2>5
    <3>2. i - k = j - k
      BY <1>4, <3>1 DEF Whole, k, m
    <3> QED
      BY <2>1, <3>2
  <2> QED
    BY <2>2, <2>3, <2>4, <2>5
<1>5. \A i \in DOMAIN a.chain : a.chain[i].used <= a.chain[i].cap
  BY ArenaParts DEF Whole
<1> QED
  BY <1>3, <1>4, <1>5 DEF Intact, all, k, m

(* No memory, nothing wrong.                                               *)
LEMMA NoBlocksIsWhole == Whole(NoBlocks)
<1>1. <<>> \in Seq(Blocks) /\ Len(<<>>) = 0
  BY EmptySeq
<1> QED
  BY <1>1 DEF Whole, NoBlocks, Arenas

(* An allocation in the block that is the head.                            *)
LEMMA AllocInHead ==
  ASSUME NEW a, Whole(a), NEW n \in Nat, a.chain # <<>>, Head_(a).used + n <= Head_(a).cap
  PROVE  LET b == arena_alloc_in(a, n) IN Whole(b) /\ Grown(a, b) /\ b.chain # <<>>
<1> DEFINE b == arena_alloc_in(a, n)
           k == Len(a.chain)
           grown == [a.chain[k] EXCEPT !.used = @ + n]
<1>1. a \in Arenas
  BY DEF Whole
<1>2. k \in Nat /\ k \in 1 .. k /\ Len(a.free) \in Nat /\ \A i \in 1 .. k : a.chain[i] \in Blocks
  BY <1>1, ArenaParts
<1>3. /\ grown \in Blocks
      /\ grown.id = a.chain[k].id /\ grown.cap = a.chain[k].cap /\ grown.used = a.chain[k].used + n
  BY <1>2 DEF Blocks
<1>4. b = [chain |-> [a.chain EXCEPT ![k] = grown], free |-> a.free]
  BY <1>1, ArenaParts DEF arena_alloc_in
<1>5. /\ b.chain \in Seq(Blocks) /\ b.free = a.free /\ b \in Arenas
      /\ Len(b.chain) = k
      /\ \A i \in 1 .. k : b.chain[i] = IF i = k THEN grown ELSE a.chain[i]
  BY <1>1, <1>2, <1>3, <1>4, ExceptSeq, ArenaParts DEF Arenas
<1>6. \A i \in 1 .. k : /\ b.chain[i].id = a.chain[i].id
                        /\ a.chain[i].used <= b.chain[i].used
                        /\ b.chain[i].used <= b.chain[i].cap
  <2>1. a.chain[k].used + n <= a.chain[k].cap
    BY DEF Head_, Last
  <2>2. \A i \in 1 .. k : a.chain[i].used \in Nat /\ a.chain[i].used <= a.chain[i].cap
    BY <1>2 DEF Blocks, Whole
  <2> HIDE DEF grown, b
  <2> QED
    BY <1>2, <1>3, <1>5, <2>1, <2>2
<1> HIDE DEF b, grown
<1>7. Grown(a, b) /\ b.chain # <<>>
  BY <1>2, <1>5, <1>6, ArenaParts DEF Grown
<1>8. Whole(b)
  <2>1. \A i, j \in 1 .. k : b.chain[i].id = b.chain[j].id => i = j
    BY <1>6 DEF Whole
  <2>2. \A i \in 1 .. k, j \in 1 .. Len(b.free) : b.chain[i].id # b.free[j].id
    BY <1>5, <1>6 DEF Whole
  <2>3. \A i \in 1 .. k : b.chain[i].id <= Len(b.chain) + Len(b.free)
    BY <1>5, <1>6 DEF Whole
  <2>4. /\ \A i, j \in 1 .. Len(b.free) : b.free[i].id = b.free[j].id => i = j
        /\ \A j \in 1 .. Len(b.free) : b.free[j].id <= Len(b.chain) + Len(b.free)
    BY <1>5 DEF Whole
  <2> HIDE DEF k
  <2> QED
    BY <1>5, <1>6, <2>1, <2>2, <2>3, <2>4 DEF Whole
<1> QED
  BY <1>7, <1>8 DEF b

(* A block that is in no other place becomes the head.                     *)
LEMMA BlockAppended ==
  ASSUME NEW a, Whole(a), NEW block \in Blocks, NEW free \in Seq(Blocks),
         block.used <= block.cap,
         block.id <= Len(a.chain) + 1 + Len(free),
         Len(a.free) <= Len(free) + 1,
         \A i \in 1 .. Len(a.chain) : a.chain[i].id # block.id,
         \A j \in 1 .. Len(free) : free[j].id # block.id,
         \A j \in 1 .. Len(free) : \E i \in 1 .. Len(a.free) : free[j].id = a.free[i].id,
         \A i, j \in 1 .. Len(free) : free[i].id = free[j].id => i = j
  PROVE  LET b == [chain |-> Append(a.chain, block), free |-> free]
         IN  Whole(b) /\ Grown(a, b) /\ b.chain # <<>>
<1> DEFINE b == [chain |-> Append(a.chain, block), free |-> free]
           k == Len(a.chain)
           m == Len(free)
<1>1. a \in Arenas
  BY DEF Whole
<1>2. k \in Nat /\ Len(a.free) \in Nat /\ \A i \in 1 .. k : a.chain[i] \in Blocks
  BY <1>1, ArenaParts
<1>3. m \in Nat /\ \A j \in 1 .. m : free[j] \in Blocks
  BY LenProperties, ElementOfSeq
<1>4. /\ b \in Arenas /\ b.free = free
      /\ Len(b.chain) = k + 1 /\ b.chain # <<>>
      /\ \A i \in 1 .. k : b.chain[i] = a.chain[i]
      /\ b.chain[k + 1] = block
  BY <1>1, ArenaParts, AppendProperties DEF Arenas
<1> HIDE DEF b, k, m
<1>5. /\ \A i, j \in 1 .. k : a.chain[i].id = a.chain[j].id => i = j
      /\ \A i \in 1 .. k, j \in 1 .. m : a.chain[i].id # free[j].id
      /\ \A i \in 1 .. k : a.chain[i].used <= a.chain[i].cap /\ a.chain[i].id <= k + Len(a.free)
      /\ \A j \in 1 .. m : free[j].id <= k + Len(a.free)
  <2>1. /\ \A i, j \in 1 .. k : a.chain[i].id = a.chain[j].id => i = j
        /\ \A i \in 1 .. k, j \in 1 .. Len(a.free) : a.chain[i].id # a.free[j].id
        /\ \A i \in 1 .. k : a.chain[i].used <= a.chain[i].cap /\ a.chain[i].id <= k + Len(a.free)
        /\ \A j \in 1 .. Len(a.free) : a.free[j].id <= k + Len(a.free)
    BY DEF Whole, k
  <2>2. \A j \in 1 .. m : \E i \in 1 .. Len(a.free) : free[j].id = a.free[i].id
    BY DEF m
  <2> QED
    BY <2>1, <2>2
<1>6. /\ block.id \in Nat /\ block.id <= k + 1 + m /\ Len(a.free) <= m + 1
      /\ \A i \in 1 .. k : a.chain[i].id # block.id
      /\ \A j \in 1 .. m : free[j].id # block.id
      /\ \A i, j \in 1 .. m : free[i].id = free[j].id => i = j
  BY DEF k, m, Blocks
<1>7. ASSUME NEW i \in 1 .. k + 1
      PROVE  \/ i \in 1 .. k /\ b.chain[i] = a.chain[i]
             \/ i = k + 1 /\ b.chain[i] = block
  BY <1>2, <1>4
<1>8. ASSUME NEW i \in 1 .. k + 1, NEW j \in 1 .. k + 1, b.chain[i].id = b.chain[j].id
      PROVE  i = j
  <2>1. CASE i \in 1 .. k /\ b.chain[i] = a.chain[i]
    BY <1>5, <1>6, <1>7, <1>8, <2>1
  <2>2. CASE i = k + 1 /\ b.chain[i] = block
    BY <1>6, <1>7, <1>8, <2>2
  <2> QED
    BY <1>7, <2>1, <2>2
<1>9. \A i \in 1 .. k + 1, j \in 1 .. m : b.chain[i].id # free[j].id
  BY <1>5, <1>6, <1>7
<1>10. \A i \in 1 .. k + 1 : b.chain[i].used <= b.chain[i].cap /\ b.chain[i].id <= k + 1 + m
  <2>1. \A i \in 1 .. k : a.chain[i].id \in Nat
    BY <1>2 DEF Blocks
  <2>2. ASSUME NEW i \in 1 .. k + 1
        PROVE  b.chain[i].used <= b.chain[i].cap /\ b.chain[i].id <= k + 1 + m
    <3>1. CASE i \in 1 .. k /\ b.chain[i] = a.chain[i]
      BY <1>2, <1>3, <1>5, <1>6, <2>1, <3>1
    <3>2. CASE i = k + 1 /\ b.chain[i] = block
      BY <1>6, <3>2
    <3> QED
      BY <1>7, <3>1, <3>2
  <2> QED
    BY <2>2
<1>11. \A j \in 1 .. m : free[j].id <= k + 1 + m
  <2>1. \A j \in 1 .. m : free[j].id \in Nat
    BY <1>3 DEF Blocks
  <2> QED
    BY <1>2, <1>3, <1>5, <1>6, <2>1
<1>12. Whole(b)
  BY <1>4, <1>6, <1>8, <1>9, <1>10, <1>11 DEF Whole, m
<1>13. Grown(a, b)
  <2>1. \A i \in 1 .. k : a.chain[i].used \in Nat
    BY <1>2 DEF Blocks
  <2> QED
    BY <1>2, <1>4, <2>1 DEF Grown, k
<1> QED
  BY <1>4, <1>12, <1>13 DEF b

(* The list of blocks without one of them.                                 *)
LEMMA Removed ==
  ASSUME NEW S, NEW s \in Seq(S), NEW k \in 1 .. Len(s)
  PROVE  /\ RemoveAt(s, k) \in Seq(S)
         /\ Len(RemoveAt(s, k)) = Len(s) - 1
         /\ \A i \in 1 .. Len(s) - 1 : RemoveAt(s, k)[i] = IF i < k THEN s[i] ELSE s[i + 1]
<1> DEFINE n == Len(s)
           low == SubSeq(s, 1, k - 1)
           high == SubSeq(s, k + 1, n)
<1>1. n \in Nat /\ k \in Nat /\ 1 <= k /\ k <= n /\ \A i \in 1 .. n : s[i] \in S
  BY LenProperties, ElementOfSeq
<1> HIDE DEF n
<1>2. low \in Seq(S) /\ Len(low) = k - 1 /\ \A i \in 1 .. k - 1 : low[i] = s[i]
  <2>1. \A i \in 1 .. k - 1 : s[i] \in S
    BY <1>1
  <2>2. low \in Seq(S) /\ Len(low) = (IF 1 <= k - 1 THEN k - 1 - 1 + 1 ELSE 0)
        /\ \A i \in 1 .. k - 1 - 1 + 1 : low[i] = s[1 + i - 1]
    BY <1>1, <2>1, SubSeqProperties
  <2> HIDE DEF low
  <2> QED
    BY <1>1, <2>2
<1>3. high \in Seq(S) /\ Len(high) = n - k /\ \A i \in 1 .. n - k : high[i] = s[k + i]
  <2>1. \A i \in k + 1 .. n : s[i] \in S
    BY <1>1
  <2>2. high \in Seq(S) /\ Len(high) = (IF k + 1 <= n THEN n - (k + 1) + 1 ELSE 0)
        /\ \A i \in 1 .. n - (k + 1) + 1 : high[i] = s[k + 1 + i - 1]
    BY <1>1, <2>1, SubSeqProperties
  <2> HIDE DEF high
  <2>3. Len(high) = n - k
    BY <1>1, <2>2
  <2>4. ASSUME NEW i \in 1 .. n - k PROVE high[i] = s[k + i]
    <3>1. i \in 1 .. n - (k + 1) + 1 /\ k + 1 + i - 1 = k + i
      BY <1>1
    <3> QED
      BY <2>2, <3>1
  <2> QED
    BY <2>2, <2>3, <2>4
<1> HIDE DEF low, high
<1>4. /\ low \o high \in Seq(S) /\ Len(low \o high) = Len(low) + Len(high)
      /\ \A i \in 1 .. Len(low) + Len(high) : (low \o high)[i] = IF i <= Len(low) THEN low[i] ELSE high[i - Len(low)]
  BY <1>2, <1>3, ConcatProperties
<1>5. Len(low \o high) = n - 1
  BY <1>1, <1>2, <1>3, <1>4
<1>6. ASSUME NEW i \in 1 .. n - 1
      PROVE  (low \o high)[i] = IF i < k THEN s[i] ELSE s[i + 1]
  <2>1. (low \o high)[i] = IF i <= k - 1 THEN low[i] ELSE high[i - (k - 1)]
    <3>1. i \in 1 .. Len(low) + Len(high) /\ Len(low) = k - 1
      BY <1>1, <1>2, <1>3
    <3> QED
      BY <1>4, <3>1
  <2>2. CASE i < k
    <3>1. i <= k - 1 /\ i \in 1 .. k - 1
      BY <1>1, <2>2
    <3> QED
      BY <1>2, <2>1, <2>2, <3>1
  <2>3. CASE ~(i < k)
    <3>1. ~(i <= k - 1) /\ i - (k - 1) \in 1 .. n - k /\ k + (i - (k - 1)) = i + 1
      BY <1>1, <2>3
    <3> QED
      BY <1>3, <2>1, <2>3, <3>1
  <2> QED
    BY <2>2, <2>3
<1>7. RemoveAt(s, k) = low \o high
  BY DEF RemoveAt, low, high, n
<1> QED
  BY <1>4, <1>5, <1>6, <1>7 DEF n

(* The block that is taken again is the first that is large enough.        *)
LEMMA FirstRecycledFits ==
  ASSUME NEW a \in Arenas, NEW n \in Nat, Recycled(a, n) # {}
  PROVE  FirstRecycled(a, n) \in 1 .. Len(a.free) /\ a.free[FirstRecycled(a, n)].cap >= n
<1>1. Recycled(a, n) \subseteq 1 .. Len(a.free) /\ Recycled(a, n) \subseteq Nat
  BY ArenaParts DEF Recycled
<1>2. \E i \in Recycled(a, n) : \A j \in Recycled(a, n) : i <= j
  BY <1>1, LeastNatural
<1>3. FirstRecycled(a, n) \in Recycled(a, n)
  BY <1>2 DEF FirstRecycled
<1> QED
  BY <1>1, <1>3 DEF Recycled

(* An allocation in a block of the free list.                              *)
LEMMA AllocRecycled ==
  ASSUME NEW a, Whole(a), NEW n \in Nat, Recycled(a, n) # {}
  PROVE  LET b == arena_take_recycled_block(a, n) IN Whole(b) /\ Grown(a, b) /\ b.chain # <<>>
<1> DEFINE k == FirstRecycled(a, n)
           block == [a.free[k] EXCEPT !.used = n]
           free == RemoveAt(a.free, k)
           m == Len(a.free)
<1>1. a \in Arenas
  BY DEF Whole
<1>2. k \in 1 .. m /\ a.free[k].cap >= n /\ m \in Nat /\ Len(a.chain) \in Nat
  BY <1>1, FirstRecycledFits, ArenaParts
<1>3. a.free[k] \in Blocks
  BY <1>1, <1>2, ArenaParts
<1>4. block \in Blocks /\ block.id = a.free[k].id /\ block.used = n /\ block.cap = a.free[k].cap
  BY <1>3 DEF Blocks
<1>5. block.used <= block.cap
  <2>1. a.free[k].cap \in Nat
    BY <1>3 DEF Blocks
  <2> HIDE DEF k, block
  <2> QED
    BY <1>2, <1>4, <2>1
<1>6. a.free \in Seq(Blocks)
  BY <1>1, ArenaParts
<1>7. /\ free \in Seq(Blocks) /\ Len(free) = m - 1
      /\ \A i \in 1 .. m - 1 : free[i] = IF i < k THEN a.free[i] ELSE a.free[i + 1]
  <2> HIDE DEF k
  <2> QED
    BY <1>2, <1>6, Removed
<1> HIDE DEF k, block, free, m
<1>8. /\ \A i, j \in 1 .. m : a.free[i].id = a.free[j].id => i = j
      /\ \A i \in 1 .. Len(a.chain), j \in 1 .. m : a.chain[i].id # a.free[j].id
      /\ \A j \in 1 .. m : a.free[j].id <= Len(a.chain) + m
  BY DEF Whole, m
<1>9. ASSUME NEW j \in 1 .. m - 1
      PROVE  \/ j < k /\ j \in 1 .. m /\ free[j] = a.free[j]
             \/ k < j + 1 /\ j + 1 \in 1 .. m /\ free[j] = a.free[j + 1]
  BY <1>2, <1>7
<1>10. \A j \in 1 .. m - 1 : free[j].id # block.id
  BY <1>2, <1>4, <1>8, <1>9
<1>11. \A j \in 1 .. m - 1 : \E i \in 1 .. m : free[j].id = a.free[i].id
  BY <1>9
<1>12. ASSUME NEW i \in 1 .. m - 1, NEW j \in 1 .. m - 1, free[i].id = free[j].id
       PROVE  i = j
  <2>1. CASE i < k /\ i \in 1 .. m /\ free[i] = a.free[i]
    <3>1. CASE j < k /\ j \in 1 .. m /\ free[j] = a.free[j]
      BY <1>8, <1>12, <2>1, <3>1
    <3>2. CASE k < j + 1 /\ j + 1 \in 1 .. m /\ free[j] = a.free[j + 1]
      BY <1>2, <1>8, <1>12, <2>1, <3>2
    <3> QED
      BY <1>9, <3>1, <3>2
  <2>2. CASE k < i + 1 /\ i + 1 \in 1 .. m /\ free[i] = a.free[i + 1]
    <3>1. CASE j < k /\ j \in 1 .. m /\ free[j] = a.free[j]
      BY <1>2, <1>8, <1>12, <2>2, <3>1
    <3>2. CASE k < j + 1 /\ j + 1 \in 1 .. m /\ free[j] = a.free[j + 1]
      <4>1. i + 1 = j + 1
        BY <1>8, <1>12, <2>2, <3>2
      <4> QED
        BY <1>2, <4>1
    <3> QED
      BY <1>9, <3>1, <3>2
  <2> QED
    BY <1>9, <2>1, <2>2
<1>13. \A i \in 1 .. Len(a.chain) : a.chain[i].id # block.id
  BY <1>2, <1>4, <1>8
<1>14. block.id <= Len(a.chain) + 1 + Len(free) /\ Len(a.free) <= Len(free) + 1
  <2>1. block.id <= Len(a.chain) + m
    BY <1>2, <1>4, <1>8
  <2>2. block.id \in Nat
    BY <1>4 DEF Blocks
  <2>3. Len(a.free) = m
    BY DEF m
  <2> QED
    BY <1>2, <1>7, <2>1, <2>2, <2>3
<1>15. arena_take_recycled_block(a, n) = [chain |-> Append(a.chain, block), free |-> free]
  BY DEF arena_take_recycled_block, block, free, k
<1>16. /\ \A j \in 1 .. Len(free) : free[j].id # block.id
       /\ \A j \in 1 .. Len(free) : \E i \in 1 .. Len(a.free) : free[j].id = a.free[i].id
       /\ \A i, j \in 1 .. Len(free) : free[i].id = free[j].id => i = j
  BY <1>7, <1>10, <1>11, <1>12 DEF m
<1>17. /\ Whole([chain |-> Append(a.chain, block), free |-> free])
       /\ Grown(a, [chain |-> Append(a.chain, block), free |-> free])
       /\ [chain |-> Append(a.chain, block), free |-> free].chain # <<>>
  BY <1>4, <1>5, <1>7, <1>13, <1>14, <1>16, BlockAppended
<1> QED
  BY <1>15, <1>17

(* An allocation in a block that is made for it.                           *)
LEMMA AllocInNew ==
  ASSUME NEW a, Whole(a), NEW n \in Nat
  PROVE  LET b == [a EXCEPT !.chain = Append(@, arena_new_block(a, n))]
         IN  Whole(b) /\ Grown(a, b) /\ b.chain # <<>>
<1> DEFINE block == arena_new_block(a, n)
           k == Len(a.chain)
           m == Len(a.free)
<1>1. a \in Arenas
  BY DEF Whole
<1>2. k \in Nat /\ m \in Nat /\ a.free \in Seq(Blocks)
  BY <1>1, ArenaParts
<1>3. block \in Blocks /\ block.id = k + m + 1 /\ block.used <= block.cap
  <2>1. Capacity(n) \in Nat /\ n <= Capacity(n)
    BY CapacityFits
  <2>2. k + m + 1 \in Nat \ {0}
    <3> HIDE DEF k, m
    <3> QED
      BY <1>2
  <2>3. block = [id |-> k + m + 1, used |-> n, cap |-> Capacity(n)]
    BY DEF arena_new_block
  <2> HIDE DEF block
  <2> QED
    BY <2>1, <2>2, <2>3 DEF Blocks
<1>4. [a EXCEPT !.chain = Append(@, block)] = [chain |-> Append(a.chain, block), free |-> a.free]
  <2>1. a = [chain |-> a.chain, free |-> a.free]
    BY <1>1, ArenaParts
  <2> HIDE DEF block
  <2> QED
    BY <2>1
<1>5. /\ \A i, j \in 1 .. m : a.free[i].id = a.free[j].id => i = j
      /\ \A i \in 1 .. k : a.chain[i].id <= k + m
      /\ \A j \in 1 .. m : a.free[j].id <= k + m
  BY DEF Whole
<1>6. /\ \A i \in 1 .. k : a.chain[i].id \in Nat
      /\ \A j \in 1 .. m : a.free[j].id \in Nat
  BY <1>1, ArenaParts DEF Blocks
<1> HIDE DEF block, k, m
<1>7. /\ \A i \in 1 .. k : a.chain[i].id # block.id
      /\ \A j \in 1 .. m : a.free[j].id # block.id
  BY <1>2, <1>3, <1>5, <1>6
<1>8. block.id <= k + 1 + m /\ m <= m + 1
  BY <1>2, <1>3
<1>9. Whole([chain |-> Append(a.chain, block), free |-> a.free])
      /\ Grown(a, [chain |-> Append(a.chain, block), free |-> a.free])
      /\ [chain |-> Append(a.chain, block), free |-> a.free].chain # <<>>
  BY <1>2, <1>3, <1>5, <1>7, <1>8, BlockAppended DEF k, m
<1> QED
  BY <1>4, <1>9 DEF block

(* An allocation leaves the arena in order, takes nothing away and fills   *)
(* the head.                                                               *)
LEMMA AllocKeeps ==
  ASSUME NEW a, Whole(a), NEW n \in Nat
  PROVE  /\ Whole(arena_alloc_in(a, n))
         /\ Grown(a, arena_alloc_in(a, n))
         /\ arena_alloc_in(a, n).chain # <<>>
<1> DEFINE fits == a.chain # <<>> /\ Head_(a).used + n <= Head_(a).cap
<1>1. CASE fits
  BY <1>1, AllocInHead
<1>2. CASE ~fits /\ Recycled(a, n) # {}
  <2>1. arena_alloc_in(a, n) = arena_take_recycled_block(a, n)
    BY <1>2 DEF arena_alloc_in
  <2> QED
    BY <1>2, <2>1, AllocRecycled
<1>3. CASE ~fits /\ Recycled(a, n) = {}
  <2>1. arena_alloc_in(a, n) = [a EXCEPT !.chain = Append(@, arena_new_block(a, n))]
    BY <1>3 DEF arena_alloc_in
  <2> QED
    BY <2>1, AllocInNew
<1> QED
  BY <1>1, <1>2, <1>3

-----------------------------------------------------------------------------
(* What is live, block by block from the first.                            *)
LEMMA LiveAt ==
  ASSUME NEW a \in Arenas, NEW p
  PROVE  IsLive(a, p) <=> \E i \in 1 .. Len(a.chain) : a.chain[i].id = p.block /\ p.end <= a.chain[i].used
BY ArenaParts DEF IsLive

(* What has not been taken away stays live, and in the same order.         *)
LEMMA GrownKeeps ==
  ASSUME NEW a \in Arenas, NEW b \in Arenas, Grown(a, b), NEW p, p.end \in Nat
  PROVE  /\ IsLive(a, p) => IsLive(b, p)
         /\ \A q : q.end \in Nat /\ Precedes(a, p, q) => Precedes(b, p, q)
<1> DEFINE k == Len(a.chain)
           m == Len(b.chain)
<1>1. /\ k \in Nat /\ m \in Nat
      /\ \A i \in 1 .. k : a.chain[i] \in Blocks
      /\ \A i \in 1 .. m : b.chain[i] \in Blocks
  BY ArenaParts
<1>2. k <= m /\ \A i \in 1 .. k : b.chain[i].id = a.chain[i].id /\ a.chain[i].used <= b.chain[i].used
  BY DEF Grown
<1> HIDE DEF k, m
<1>3. \A i \in 1 .. k : i \in 1 .. m
  BY <1>1, <1>2
<1>4. \A i \in 1 .. k : a.chain[i].used \in Nat /\ b.chain[i].used \in Nat
  BY <1>1, <1>3 DEF Blocks
<1>5. \A n \in Nat : \A i \in 1 .. k : n <= a.chain[i].used => n <= b.chain[i].used
  BY <1>2, <1>4
<1>6. IsLive(a, p) => IsLive(b, p)
  BY <1>2, <1>3, <1>5, LiveAt DEF k, m
<1>7. ASSUME NEW q, q.end \in Nat, Precedes(a, p, q)
      PROVE  Precedes(b, p, q)
  <2>1. PICK i \in 1 .. k, j \in 1 .. k :
          /\ a.chain[i].id = p.block /\ p.end <= a.chain[i].used
          /\ a.chain[j].id = q.block /\ q.end <= a.chain[j].used
          /\ i < j \/ (i = j /\ p.end <= q.end)
    BY <1>7 DEF Precedes, k
  <2>2. /\ i \in 1 .. m /\ j \in 1 .. m
        /\ b.chain[i].id = p.block /\ p.end <= b.chain[i].used
        /\ b.chain[j].id = q.block /\ q.end <= b.chain[j].used
    BY <1>2, <1>3, <1>5, <1>7, <2>1
  <2> QED
    BY <2>1, <2>2 DEF Precedes, m
<1> QED
  BY <1>6, <1>7

(* A mark remembers the top: all that is live precedes it.                 *)
LEMMA MarkIsTop ==
  ASSUME NEW a \in Arenas
  PROVE  /\ arena_mark_take(a) \in Marks
         /\ a.chain = <<>> => arena_mark_take(a) = NoMark /\ \A p : ~IsLive(a, p)
         /\ a.chain # <<>> => /\ arena_mark_take(a) # NoMark
                              /\ IsLive(a, Spot(arena_mark_take(a)))
                              /\ \A p : p.end \in Nat /\ IsLive(a, p) => Precedes(a, p, Spot(arena_mark_take(a)))
<1> DEFINE k == Len(a.chain)
           top == arena_mark_take(a)
<1>1. k \in Nat /\ (\A i \in 1 .. k : a.chain[i] \in Blocks) /\ (a.chain # <<>> <=> k # 0)
  BY ArenaParts
<1>2. CASE a.chain = <<>>
  <2>1. top = NoMark /\ top \in Marks
    BY <1>2 DEF arena_mark_take, NoMark, Marks
  <2>2. \A p : ~IsLive(a, p)
    BY <1>1, <1>2, LiveAt
  <2> QED
    BY <1>2, <2>1, <2>2
<1>3. CASE a.chain # <<>>
  <2>1. k \in 1 .. k
    BY <1>1, <1>3
  <2>2. top = [block |-> a.chain[k].id, used |-> a.chain[k].used]
    BY <1>3 DEF arena_mark_take, Head_, Last
  <2>3. a.chain[k].id \in Nat \ {0} /\ a.chain[k].used \in Nat
    BY <1>1, <2>1 DEF Blocks
  <2>4. top \in Marks /\ top # NoMark
    BY <2>2, <2>3 DEF Marks, NoMark
  <2>5. Spot(top).block = a.chain[k].id /\ Spot(top).end = a.chain[k].used /\ a.chain[k].used <= a.chain[k].used
    BY <2>2, <2>3 DEF Spot
  <2> HIDE DEF k, top
  <2>6. IsLive(a, Spot(top))
    BY <2>1, <2>5, LiveAt DEF k
  <2>7. ASSUME NEW p, p.end \in Nat, IsLive(a, p)
        PROVE  Precedes(a, p, Spot(top))
    <3>1. PICK i \in 1 .. k : a.chain[i].id = p.block /\ p.end <= a.chain[i].used
      BY <2>7, LiveAt DEF k
    <3>2. i < k \/ i = k
      BY <1>1, <3>1
    <3> QED
      BY <2>1, <2>5, <3>1, <3>2 DEF Precedes, k
  <2> QED
    BY <1>3, <2>4, <2>6, <2>7 DEF top
<1> QED
  BY <1>2, <1>3

(* No block is in use twice, so the order is one.                          *)
LEMMA PrecedesTransitive ==
  ASSUME NEW a, Whole(a), NEW p, NEW q, NEW r, p.end \in Nat, q.end \in Nat, r.end \in Nat,
         Precedes(a, p, q), Precedes(a, q, r)
  PROVE  Precedes(a, p, r)
<1> DEFINE k == Len(a.chain)
<1>1. k \in Nat
  BY ArenaParts DEF Whole
<1>2. \A i, j \in 1 .. k : a.chain[i].id = a.chain[j].id => i = j
  BY DEF Whole
<1>3. PICK i \in 1 .. k, j \in 1 .. k :
        /\ a.chain[i].id = p.block /\ p.end <= a.chain[i].used
        /\ a.chain[j].id = q.block /\ q.end <= a.chain[j].used
        /\ i < j \/ (i = j /\ p.end <= q.end)
  BY DEF Precedes
<1>4. PICK j2 \in 1 .. k, l \in 1 .. k :
        /\ a.chain[j2].id = q.block /\ q.end <= a.chain[j2].used
        /\ a.chain[l].id = r.block /\ r.end <= a.chain[l].used
        /\ j2 < l \/ (j2 = l /\ q.end <= r.end)
  BY DEF Precedes
<1> HIDE DEF k
<1>5. j2 = j
  BY <1>2, <1>3, <1>4
<1>6. i < l \/ (i = l /\ p.end <= r.end)
  BY <1>1, <1>3, <1>4, <1>5
<1> QED
  BY <1>3, <1>4, <1>6 DEF Precedes, k

-----------------------------------------------------------------------------
(* The blocks above the first n are emptied and put in the free list.      *)
LEMMA ReleasedParts ==
  ASSUME NEW a \in Arenas, NEW n \in 0 .. Len(a.chain)
  PROVE  LET b == Released(a, n)
             k == Len(a.chain)
             m == Len(a.free)
         IN  /\ b \in Arenas
             /\ Len(b.chain) = n
             /\ \A i \in 1 .. n : b.chain[i] = a.chain[i]
             /\ Len(b.free) = (k - n) + m
             /\ \A j \in 1 .. (k - n) + m : b.free[j].id = IF j <= k - n THEN a.chain[n + j].id
                                                             ELSE a.free[j - (k - n)].id
<1> DEFINE k == Len(a.chain)
           m == Len(a.free)
           low == SubSeq(a.chain, 1, n)
           high == SubSeq(a.chain, n + 1, k)
           emptied == Emptied(high)
<1>1. /\ k \in Nat /\ m \in Nat /\ a.chain \in Seq(Blocks) /\ a.free \in Seq(Blocks)
      /\ \A i \in 1 .. k : a.chain[i] \in Blocks
  BY ArenaParts
<1>2. n \in Nat /\ n <= k
  BY <1>1
<1> HIDE DEF k, m
<1>3. low \in Seq(Blocks) /\ Len(low) = n /\ \A i \in 1 .. n : low[i] = a.chain[i]
  <2>1. \A i \in 1 .. n : a.chain[i] \in Blocks
    BY <1>1, <1>2
  <2>2. low \in Seq(Blocks) /\ Len(low) = (IF 1 <= n THEN n - 1 + 1 ELSE 0)
        /\ \A i \in 1 .. n - 1 + 1 : low[i] = a.chain[1 + i - 1]
    BY <1>2, <2>1, SubSeqProperties
  <2> HIDE DEF low
  <2>3. ASSUME NEW i \in 1 .. n PROVE low[i] = a.chain[i]
    <3>1. i \in 1 .. n - 1 + 1 /\ 1 + i - 1 = i
      BY <1>2
    <3> QED
      BY <2>2, <3>1
  <2> QED
    BY <1>2, <2>2, <2>3
<1>4. high \in Seq(Blocks) /\ Len(high) = k - n /\ \A i \in 1 .. k - n : high[i] = a.chain[n + i]
  <2>1. \A i \in n + 1 .. k : a.chain[i] \in Blocks
    BY <1>1, <1>2
  <2>2. high \in Seq(Blocks) /\ Len(high) = (IF n + 1 <= k THEN k - (n + 1) + 1 ELSE 0)
        /\ \A i \in 1 .. k - (n + 1) + 1 : high[i] = a.chain[n + 1 + i - 1]
    BY <1>1, <1>2, <2>1, SubSeqProperties
  <2> HIDE DEF high
  <2>3. ASSUME NEW i \in 1 .. k - n PROVE high[i] = a.chain[n + i]
    <3>1. i \in 1 .. k - (n + 1) + 1 /\ n + 1 + i - 1 = n + i
      BY <1>1, <1>2
    <3> QED
      BY <2>2, <3>1
  <2> QED
    BY <1>1, <1>2, <2>2, <2>3
<1>5. /\ emptied \in Seq(Blocks) /\ Len(emptied) = k - n
      /\ \A i \in 1 .. k - n : emptied[i].id = a.chain[n + i].id
  <2>1. DOMAIN high = 1 .. k - n /\ (\A i \in 1 .. k - n : high[i] \in Blocks) /\ k - n \in Nat
    BY <1>1, <1>2, <1>4, LenProperties, ElementOfSeq
  <2> HIDE DEF high
  <2>2. emptied = [i \in 1 .. k - n |-> [high[i] EXCEPT !.used = 0]]
    BY <2>1 DEF Emptied
  <2>3. \A i \in 1 .. k - n : [high[i] EXCEPT !.used = 0] \in Blocks /\ [high[i] EXCEPT !.used = 0].id = high[i].id
    BY <2>1 DEF Blocks
  <2>4. emptied \in [1 .. k - n -> Blocks]
    BY <2>2, <2>3
  <2>5. emptied \in Seq(Blocks)
    BY <2>1, <2>4, SeqDef
  <2>6. Len(emptied) = k - n
    <3>1. DOMAIN emptied = 1 .. Len(emptied) /\ Len(emptied) \in Nat /\ DOMAIN emptied = 1 .. k - n
      BY <2>2, <2>5, LenProperties
    <3> HIDE DEF emptied
    <3> QED
      BY <2>1, <3>1
  <2> QED
    BY <1>4, <2>2, <2>3, <2>5, <2>6
<1> HIDE DEF low, high, emptied
<1> DEFINE free == emptied \o a.free
<1>6. /\ free \in Seq(Blocks) /\ Len(free) = (k - n) + m
      /\ \A j \in 1 .. (k - n) + m : free[j] = IF j <= k - n THEN emptied[j] ELSE a.free[j - (k - n)]
  <2>1. /\ free \in Seq(Blocks) /\ Len(free) = Len(emptied) + Len(a.free)
        /\ \A j \in 1 .. Len(emptied) + Len(a.free) :
             free[j] = IF j <= Len(emptied) THEN emptied[j] ELSE a.free[j - Len(emptied)]
    BY <1>1, <1>5, ConcatProperties
  <2>2. Len(emptied) = k - n /\ Len(a.free) = m
    BY <1>5 DEF m
  <2> HIDE DEF free
  <2> QED
    BY <2>1, <2>2
<1> HIDE DEF free
<1>7. \A j \in 1 .. (k - n) + m : free[j].id = IF j <= k - n THEN a.chain[n + j].id ELSE a.free[j - (k - n)].id
  <2>1. \A j \in 1 .. (k - n) + m : j <= k - n => j \in 1 .. k - n
    BY <1>1, <1>2
  <2> QED
    BY <1>5, <1>6, <2>1
<1>8. Released(a, n) = [chain |-> low, free |-> free]
  BY DEF Released, low, high, emptied, free, k
<1>9. [chain |-> low, free |-> free] \in Arenas
  BY <1>3, <1>6 DEF Arenas
<1> DEFINE b == [chain |-> low, free |-> free]
<1>10. /\ b \in Arenas /\ Len(b.chain) = n /\ Len(b.free) = (k - n) + m
       /\ \A i \in 1 .. n : b.chain[i] = a.chain[i]
       /\ \A j \in 1 .. (k - n) + m : b.free[j].id = IF j <= k - n THEN a.chain[n + j].id ELSE a.free[j - (k - n)].id
  BY <1>3, <1>6, <1>7, <1>9
<1> HIDE DEF b
<1> QED
  BY <1>8, <1>10 DEF b, k, m

(* A release leaves the arena in order.                                    *)
LEMMA ReleasedKeeps ==
  ASSUME NEW a, Whole(a), NEW n \in 0 .. Len(a.chain)
  PROVE  /\ Whole(Released(a, n))
         /\ Len(Released(a, n).chain) = n
         /\ \A i \in 1 .. n : Released(a, n).chain[i] = a.chain[i]
<1> DEFINE b == Released(a, n)
           k == Len(a.chain)
           m == Len(a.free)
           f == (k - n) + m
<1>1. a \in Arenas
  BY DEF Whole
<1>2. k \in Nat /\ m \in Nat
  BY <1>1, ArenaParts
<1>3. n \in Nat /\ n <= k
  BY <1>2
<1>4. /\ b \in Arenas
      /\ Len(b.chain) = n /\ \A i \in 1 .. n : b.chain[i] = a.chain[i]
      /\ Len(b.free) = f
      /\ \A j \in 1 .. f : b.free[j].id = IF j <= k - n THEN a.chain[n + j].id ELSE a.free[j - (k - n)].id
  BY <1>1, ReleasedParts
<1> HIDE DEF b
<1>5. /\ \A i, j \in 1 .. k : a.chain[i].id = a.chain[j].id => i = j
      /\ \A i, j \in 1 .. m : a.free[i].id = a.free[j].id => i = j
      /\ \A i \in 1 .. k, j \in 1 .. m : a.chain[i].id # a.free[j].id
      /\ \A i \in 1 .. k : a.chain[i].used <= a.chain[i].cap /\ a.chain[i].id <= k + m
      /\ \A j \in 1 .. m : a.free[j].id <= k + m
  BY DEF Whole
<1> HIDE DEF k, m
<1>6. n + f = k + m /\ \A i \in 1 .. n : i \in 1 .. k
  BY <1>2, <1>3
<1>7. ASSUME NEW j \in 1 .. f
      PROVE  \/ n + j \in n + 1 .. k /\ n + j \in 1 .. k /\ b.free[j].id = a.chain[n + j].id
             \/ k < n + j /\ j - (k - n) \in 1 .. m /\ b.free[j].id = a.free[j - (k - n)].id
  <2>1. b.free[j].id = IF j <= k - n THEN a.chain[n + j].id ELSE a.free[j - (k - n)].id
    BY <1>4
  <2>2. j \in Nat /\ 1 <= j /\ j <= (k - n) + m
    BY <1>2, <1>3
  <2> HIDE DEF b, k, m, f
  <2>3. CASE j <= k - n
    <3>1. n + j \in n + 1 .. k /\ n + j \in 1 .. k
      BY <1>2, <1>3, <2>2, <2>3
    <3> QED
      BY <2>1, <2>3, <3>1
  <2>4. CASE ~(j <= k - n)
    <3>1. k < n + j /\ j - (k - n) \in 1 .. m
      BY <1>2, <1>3, <2>2, <2>4
    <3> QED
      BY <2>1, <2>4, <3>1
  <2> QED
    BY <2>3, <2>4
<1> HIDE DEF f
<1>8. \A i, j \in 1 .. n : b.chain[i].id = b.chain[j].id => i = j
  BY <1>4, <1>5, <1>6
<1>9. ASSUME NEW i \in 1 .. n, NEW j \in 1 .. f
      PROVE  b.chain[i].id # b.free[j].id
  <2>1. i \in 1 .. k /\ b.chain[i].id = a.chain[i].id
    BY <1>4, <1>6
  <2>2. CASE n + j \in n + 1 .. k /\ n + j \in 1 .. k /\ b.free[j].id = a.chain[n + j].id
    <3>1. i # n + j
      BY <1>3, <2>2
    <3> QED
      BY <1>5, <2>1, <2>2, <3>1
  <2>3. CASE k < n + j /\ j - (k - n) \in 1 .. m /\ b.free[j].id = a.free[j - (k - n)].id
    BY <1>5, <2>1, <2>3
  <2> QED
    BY <1>7, <2>2, <2>3
<1>10. ASSUME NEW i \in 1 .. f, NEW j \in 1 .. f, b.free[i].id = b.free[j].id
       PROVE  i = j
  <2>1. i \in Int /\ j \in Int
    OBVIOUS
  <2>2. CASE n + i \in 1 .. k /\ b.free[i].id = a.chain[n + i].id
    <3>1. CASE n + j \in 1 .. k /\ b.free[j].id = a.chain[n + j].id
      <4>1. n + i = n + j
        BY <1>5, <1>10, <2>2, <3>1
      <4> QED
        BY <1>3, <2>1, <4>1
    <3>2. CASE j - (k - n) \in 1 .. m /\ b.free[j].id = a.free[j - (k - n)].id
      BY <1>5, <1>10, <2>2, <3>2
    <3> QED
      BY <1>7, <3>1, <3>2
  <2>3. CASE i - (k - n) \in 1 .. m /\ b.free[i].id = a.free[i - (k - n)].id
    <3>1. CASE n + j \in 1 .. k /\ b.free[j].id = a.chain[n + j].id
      BY <1>5, <1>10, <2>3, <3>1
    <3>2. CASE j - (k - n) \in 1 .. m /\ b.free[j].id = a.free[j - (k - n)].id
      <4>1. i - (k - n) = j - (k - n)
        BY <1>5, <1>10, <2>3, <3>2
      <4> QED
        BY <1>2, <1>3, <2>1, <4>1
    <3> QED
      BY <1>7, <3>1, <3>2
  <2> QED
    BY <1>7, <2>2, <2>3
<1>11. \A i \in 1 .. n : b.chain[i].used <= b.chain[i].cap /\ b.chain[i].id <= n + f
  BY <1>4, <1>5, <1>6
<1>12. \A j \in 1 .. f : b.free[j].id <= n + f
  BY <1>5, <1>6, <1>7
<1>13. Whole(b)
  BY <1>4, <1>8, <1>9, <1>10, <1>11, <1>12 DEF Whole
<1> QED
  BY <1>4, <1>13 DEF b

(* A reset leaves the arena in order, with nothing in use.                 *)
LEMMA ResetKeeps ==
  ASSUME NEW a, Whole(a)
  PROVE  Whole(arena_reset(a)) /\ arena_reset(a).chain = <<>>
<1>1. 0 \in 0 .. Len(a.chain)
  BY ArenaParts DEF Whole
<1>2. Whole(Released(a, 0)) /\ Len(Released(a, 0).chain) = 0
  BY <1>1, ReleasedKeeps
<1>3. Released(a, 0).chain = <<>>
  BY <1>2, ArenaParts DEF Whole
<1> QED
  BY <1>2, <1>3 DEF arena_reset

(* A rewind to a mark that was never moved past: the arena is in order, a  *)
(* mark taken now is the same, and what precedes the mark is left as it    *)
(* was.                                                                    *)
LEMMA RewindToNoMark ==
  ASSUME NEW a, Whole(a)
  PROVE  LET b == arena_mark_rewind(a, NoMark)
         IN  /\ Whole(b) /\ b.chain = <<>>
             /\ \A p : ~Precedes(a, p, Spot(NoMark))
<1>1. a \in Arenas
  BY DEF Whole
<1>2. \A i \in DOMAIN a.chain : a.chain[i].id # 0
  <2>1. \A i \in 1 .. Len(a.chain) : a.chain[i] \in Blocks
    BY <1>1, ArenaParts
  <2>2. \A i \in 1 .. Len(a.chain) : a.chain[i].id # 0
    BY <2>1 DEF Blocks
  <2> QED
    BY <1>1, <2>2, ArenaParts
<1>3. Kept(a, NoMark) = 0
  BY <1>2 DEF Kept, NoMark
<1>4. Whole(Released(a, 0)) /\ Released(a, 0).chain = <<>>
  BY ResetKeeps DEF arena_reset
<1>5. arena_mark_rewind(a, NoMark) = Released(a, 0)
  BY <1>3, <1>4 DEF arena_mark_rewind
<1>6. \A p : ~Precedes(a, p, Spot(NoMark))
  <2>1. \A i \in 1 .. Len(a.chain) : a.chain[i].id # 0
    BY <1>1, <1>2, ArenaParts
  <2>2. Spot(NoMark).block = 0
    BY DEF Spot, NoMark
  <2> QED
    BY <2>1, <2>2 DEF Precedes
<1> QED
  BY <1>4, <1>5, <1>6

(* Rewinding to a live mark keeps alive all that precedes it, in its       *)
(* order, and leaves the next allocation at the mark.                      *)
LEMMA RewindToLive ==
  ASSUME NEW a, Whole(a), NEW mark \in Marks, IsLive(a, Spot(mark))
  PROVE  LET b == arena_mark_rewind(a, mark)
         IN  /\ Whole(b)
             /\ arena_mark_take(b) = mark
             /\ \A p : p.end \in Nat /\ Precedes(a, p, Spot(mark)) => IsLive(b, p)
             /\ \A p, q : /\ p.end \in Nat /\ q.end \in Nat
                          /\ Precedes(a, p, q) /\ Precedes(a, q, Spot(mark))
                          => Precedes(b, p, q)
<1> DEFINE k == Len(a.chain)
           u == mark.used
<1>1. /\ a \in Arenas /\ k \in Nat
      /\ DOMAIN a.chain = 1 .. k
      /\ \A i \in 1 .. k : a.chain[i] \in Blocks
  BY ArenaParts DEF Whole
<1>2. mark.block \in Nat /\ u \in Nat /\ mark = [block |-> mark.block, used |-> u]
      /\ Spot(mark).block = mark.block /\ Spot(mark).end = u
  BY DEF Marks, Spot
<1>3. \A i, j \in 1 .. k : a.chain[i].id = a.chain[j].id => i = j
  BY DEF Whole
<1>4. PICK n \in 1 .. k : a.chain[n].id = mark.block /\ u <= a.chain[n].used
  BY <1>1, <1>2, LiveAt
<1>5. Kept(a, mark) = n
  <2> HIDE DEF k
  <2>1. \A i \in DOMAIN a.chain : a.chain[i].id = mark.block => i = n
    BY <1>1, <1>3, <1>4
  <2>2. n \in DOMAIN a.chain
    BY <1>1, <1>4
  <2> QED
    BY <1>4, <2>1, <2>2 DEF Kept
<1> DEFINE r == Released(a, n)
           top == [a.chain[n] EXCEPT !.used = u]
           b == arena_mark_rewind(a, mark)
<1>6. Whole(r) /\ r \in Arenas /\ Len(r.chain) = n /\ \A i \in 1 .. n : r.chain[i] = a.chain[i]
  <2>1. n \in 0 .. k
    BY <1>1
  <2> QED
    BY <2>1, ReleasedKeeps DEF Whole
<1> HIDE DEF r, k, u
<1>7. n \in Nat /\ n \in 1 .. n /\ 1 <= n
  BY <1>1
<1>8. r.chain # <<>> /\ Head_(r) = a.chain[n] /\ u <= Head_(r).used
  <2>1. r.chain # <<>>
    BY <1>6, <1>7, ArenaParts
  <2>2. Head_(r) = a.chain[n]
    BY <1>6, <1>7 DEF Head_, Last
  <2> QED
    BY <1>4, <2>1, <2>2
<1>9. r = [chain |-> r.chain, free |-> r.free] /\ r.chain \in Seq(Blocks) /\ r.free \in Seq(Blocks)
  BY <1>6, ArenaParts
<1>10. b = [chain |-> [r.chain EXCEPT ![n] = top], free |-> r.free]
  <2>1. b = [r EXCEPT !.chain[Len(r.chain)].used = u]
    BY <1>5, <1>8 DEF arena_mark_rewind, r, u
  <2>2. b = [r EXCEPT !.chain[n].used = u]
    BY <1>6, <2>1
  <2> HIDE DEF b
  <2>3. r.chain[n] = a.chain[n]
    BY <1>6, <1>7
  <2> QED
    BY <1>9, <2>2, <2>3
<1>11. a.chain[n] \in Blocks
  BY <1>1
<1>12. top \in Blocks /\ top.id = a.chain[n].id /\ top.cap = a.chain[n].cap /\ top.used = u
  BY <1>2, <1>11 DEF Blocks
<1> HIDE DEF b, top
<1>13. /\ b.chain \in Seq(Blocks) /\ b.free = r.free /\ b \in Arenas
       /\ Len(b.chain) = n
       /\ \A i \in 1 .. n : b.chain[i] = IF i = n THEN top ELSE a.chain[i]
  <2>1. [r.chain EXCEPT ![n] = top] \in Seq(Blocks) /\ Len([r.chain EXCEPT ![n] = top]) = Len(r.chain)
        /\ \A i \in 1 .. Len(r.chain) : [r.chain EXCEPT ![n] = top][i] = IF i = n THEN top ELSE r.chain[i]
    BY <1>6, <1>7, <1>9, <1>12, ExceptSeq
  <2>2. b.chain = [r.chain EXCEPT ![n] = top] /\ b.free = r.free
    BY <1>10
  <2>3. b \in Arenas
    BY <1>9, <1>10, <2>1 DEF Arenas
  <2> QED
    BY <1>6, <2>1, <2>2, <2>3
<1>14. \A i \in 1 .. n : /\ i \in 1 .. k
                         /\ b.chain[i].id = a.chain[i].id
                         /\ i # n => b.chain[i].used = a.chain[i].used
  BY <1>1, <1>12, <1>13
<1>15. b.chain[n].used = u
  BY <1>7, <1>12, <1>13
<1>16. Whole(b)
  <2>1. /\ \A i, j \in 1 .. n : r.chain[i].id = r.chain[j].id => i = j
        /\ \A i, j \in 1 .. Len(b.free) : b.free[i].id = b.free[j].id => i = j
        /\ \A i \in 1 .. n, j \in 1 .. Len(b.free) : r.chain[i].id # b.free[j].id
        /\ \A i \in 1 .. n : r.chain[i].used <= r.chain[i].cap /\ r.chain[i].id <= n + Len(b.free)
        /\ \A j \in 1 .. Len(b.free) : b.free[j].id <= n + Len(b.free)
    BY <1>6, <1>13 DEF Whole
  <2>2. \A i \in 1 .. n : r.chain[i].id = b.chain[i].id
    BY <1>6, <1>14
  <2>3. u <= a.chain[n].cap /\ top.cap = a.chain[n].cap
    <3>1. a.chain[n].used \in Nat /\ a.chain[n].cap \in Nat
      BY <1>11 DEF Blocks
    <3>2. a.chain[n].used <= a.chain[n].cap
      BY <1>6, <1>7, <2>1
    <3> QED
      BY <1>2, <1>4, <1>12, <3>1, <3>2
  <2>4. \A i \in 1 .. n : b.chain[i].used <= b.chain[i].cap
    BY <1>6, <1>12, <1>13, <2>1, <2>3
  <2>5. /\ \A i, j \in 1 .. n : b.chain[i].id = b.chain[j].id => i = j
        /\ \A i \in 1 .. n, j \in 1 .. Len(b.free) : b.chain[i].id # b.free[j].id
        /\ \A i \in 1 .. n : b.chain[i].id <= n + Len(b.free)
    BY <2>1, <2>2
  <2> QED
    BY <1>13, <2>1, <2>4, <2>5 DEF Whole
<1>17. arena_mark_take(b) = mark
  <2>1. b.chain # <<>>
    BY <1>7, <1>13, ArenaParts
  <2>2. arena_mark_take(b) = [block |-> b.chain[n].id, used |-> b.chain[n].used]
    BY <1>13, <2>1 DEF arena_mark_take, Head_, Last
  <2> QED
    BY <1>2, <1>4, <1>7, <1>14, <1>15, <2>2
<1>18. ASSUME NEW p, p.end \in Nat, Precedes(a, p, Spot(mark))
       PROVE  \E i \in 1 .. n : b.chain[i].id = p.block /\ p.end <= b.chain[i].used
  <2>1. PICK i \in 1 .. k, j \in 1 .. k :
          /\ a.chain[i].id = p.block /\ p.end <= a.chain[i].used
          /\ a.chain[j].id = mark.block
          /\ i < j \/ (i = j /\ p.end <= u)
    BY <1>2, <1>18 DEF Precedes, k
  <2>2. j = n
    BY <1>3, <1>4, <2>1
  <2>3. i \in 1 .. n
    BY <1>1, <2>1, <2>2
  <2>4. CASE i = n
    BY <1>14, <1>15, <2>1, <2>2, <2>3, <2>4
  <2>5. CASE i # n
    BY <1>14, <2>1, <2>3, <2>5
  <2> QED
    BY <2>4, <2>5
<1>19. ASSUME NEW p, NEW q, p.end \in Nat, q.end \in Nat, Precedes(a, p, q), Precedes(a, q, Spot(mark))
       PROVE  Precedes(b, p, q)
  <2>1. Precedes(a, p, Spot(mark))
    BY <1>2, <1>19, PrecedesTransitive
  <2>2. PICK i \in 1 .. n : b.chain[i].id = p.block /\ p.end <= b.chain[i].used
    BY <1>18, <1>19, <2>1
  <2>3. PICK j \in 1 .. n : b.chain[j].id = q.block /\ q.end <= b.chain[j].used
    BY <1>18, <1>19
  <2>4. PICK i2 \in 1 .. k, j2 \in 1 .. k :
          /\ a.chain[i2].id = p.block
          /\ a.chain[j2].id = q.block
          /\ i2 < j2 \/ (i2 = j2 /\ p.end <= q.end)
    BY <1>19 DEF Precedes, k
  <2>5. i = i2 /\ j = j2
    BY <1>3, <1>14, <2>2, <2>3, <2>4
  <2> QED
    BY <1>13, <2>2, <2>3, <2>4, <2>5 DEF Precedes
<1> QED
  <2>1. \A p : p.end \in Nat /\ Precedes(a, p, Spot(mark)) => IsLive(b, p)
    BY <1>13, <1>18, LiveAt
  <2> QED
    BY <1>16, <1>17, <1>19, <2>1 DEF b

-----------------------------------------------------------------------------
(* What the frames of the shell use.                                       *)

(* The places in cmd that a frame uses: of what it holds, and of its mark. *)
Spots(frame) ==
  {[block |-> h.block, end |-> h.end] : h \in {x \in frame.holds : x.arena = "cmd"}}
    \cup (IF frame.arena = "cmd" /\ frame.mark # NoMark THEN {Spot(frame.mark)} ELSE {})

(* What the frames use is live, and what those below use precedes a mark.  *)
StackKept(a, stack) ==
  /\ \A i \in 1 .. Len(stack) : \A p \in Spots(stack[i]) : IsLive(a, p)
  /\ \A i, j \in 1 .. Len(stack) : i < j /\ stack[j].arena = "cmd" =>
       \A p \in Spots(stack[i]) : Precedes(a, p, Spot(stack[j].mark))

(* The lowest frame is a command of the input, or what a child was given;  *)
(* it has marked nothing and all others run in cmd.                        *)
FitsAt(i, frame) ==
  /\ frame.arena \in {"", "cmd"}
  /\ i = 1 => /\ frame.arena = ""
              /\ frame.k \in {"command", "child"}
              /\ frame.k = "command" => frame.saved = "perm"
  /\ i # 1 => /\ frame.saved = "cmd"
              /\ frame.k # "child"
              /\ frame.k = "command" => frame.arena = "cmd"

FramesNest(now, stack) ==
  /\ now = IF stack = <<>> THEN "perm" ELSE "cmd"
  /\ \A i \in 1 .. Len(stack) : FitsAt(i, stack[i])

(* What the commands of the input were parsed to.                          *)
ScriptIsLive(a, stack) ==
  \A i \in 1 .. Len(stack) : \A h \in stack[i].holds : h.arena = "script" => IsLive(a, h)

(* The cache of a function holds its program and is empty before parsing.  *)
CacheFits(all, table) ==
  \A f \in Functions :
    /\ table[f].program # Nowhere => table[f].program.arena = f
    /\ ~table[f].attempted => all[f].chain = <<>>

(* The inductive invariant, of the arenas, of the functions with their     *)
(* caches, and of the frames.                                              *)
ArenasInv(all) == all \in [Own \cup Functions -> Arenas] /\ \A a \in Own \cup Functions : Whole(all[a])

FunctionsInv(all, table) == table \in [Functions -> FunctionStates] /\ CacheFits(all, table)

FramesInv(all, now, stack) ==
  /\ stack \in Seq(Frames)
  /\ FramesNest(now, stack)
  /\ StackKept(all["cmd"], stack)
  /\ ScriptIsLive(all["script"], stack)

LifetimesInv ==
  /\ ArenasInv(arenas)
  /\ FunctionsInv(arenas, functions)
  /\ FramesInv(arenas, current, frames)

-----------------------------------------------------------------------------
(* Spots are numbers, and a frame that neither marks nor holds has none.   *)
LEMMA SpotsType ==
  ASSUME NEW frame \in Frames
  PROVE  /\ \A p \in Spots(frame) : p.end \in Nat
         /\ frame.arena = "cmd" /\ frame.mark # NoMark => Spot(frame.mark) \in Spots(frame)
         /\ \A h \in frame.holds : h.arena = "cmd" => [block |-> h.block, end |-> h.end] \in Spots(frame)
         /\ Spot(frame.mark).end \in Nat
<1>1. \A h \in frame.holds : h.end \in Nat
  BY DEF Frames, Addresses
<1>2. frame.mark \in Marks
  BY DEF Frames
<1>3. Spot(frame.mark).end \in Nat
  BY <1>2 DEF Marks, Spot
<1> QED
  BY <1>1, <1>3 DEF Spots

(* Allocation ends no life: what the stack relies on stays as it was.      *)
LEMMA StackGrows ==
  ASSUME NEW a \in Arenas, NEW b \in Arenas, Grown(a, b),
         NEW stack \in Seq(Frames), StackKept(a, stack)
  PROVE  StackKept(b, stack)
<1>1. \A i \in 1 .. Len(stack) : stack[i] \in Frames
  BY ElementOfSeq
<1>2. \A i \in 1 .. Len(stack) : Spot(stack[i].mark).end \in Nat /\ \A p \in Spots(stack[i]) : p.end \in Nat
  BY <1>1, SpotsType
<1>3. ASSUME NEW i \in 1 .. Len(stack), NEW p \in Spots(stack[i])
      PROVE  IsLive(b, p)
  BY <1>2, GrownKeeps DEF StackKept
<1>4. ASSUME NEW i \in 1 .. Len(stack), NEW j \in 1 .. Len(stack), i < j, stack[j].arena = "cmd",
             NEW p \in Spots(stack[i])
      PROVE  Precedes(b, p, Spot(stack[j].mark))
  <2>1. Precedes(a, p, Spot(stack[j].mark))
    BY <1>4 DEF StackKept
  <2> QED
    BY <1>2, <2>1, GrownKeeps
<1> QED
  BY <1>3, <1>4 DEF StackKept

(* A frame is started: it marks what is there, and may hold what was       *)
(* allocated since.                                                        *)
LEMMA StackPushed ==
  ASSUME NEW a, Whole(a), NEW b, Whole(b), Grown(a, b),
         NEW stack \in Seq(Frames), StackKept(a, stack),
         NEW frame \in Frames,
         frame.arena = "cmd" => frame.mark = arena_mark_take(a),
         \A h \in frame.holds : h.arena = "cmd" => IsLive(b, h)
  PROVE  StackKept(b, Append(stack, frame))
<1> DEFINE k == Len(stack)
           pushed == Append(stack, frame)
<1>1. a \in Arenas /\ b \in Arenas
  BY DEF Whole
<1>2. k \in Nat /\ Len(pushed) = k + 1 /\ (\A i \in 1 .. k : pushed[i] = stack[i]) /\ pushed[k + 1] = frame
  BY LenProperties, AppendProperties
<1>3. \A i \in 1 .. k : stack[i] \in Frames
  BY ElementOfSeq
<1>4. StackKept(b, stack)
  BY <1>1, StackGrows
<1> HIDE DEF pushed
<1>5. ASSUME frame.arena = "cmd", frame.mark # NoMark
      PROVE  IsLive(b, Spot(frame.mark))
  <2>1. IsLive(a, Spot(frame.mark))
    BY <1>1, <1>5, MarkIsTop
  <2>2. Spot(frame.mark).end \in Nat
    BY SpotsType
  <2> QED
    BY <1>1, <2>1, <2>2, GrownKeeps
<1>6. ASSUME NEW p \in Spots(frame)
      PROVE  IsLive(b, p)
  <2>1. CASE \E h \in frame.holds : h.arena = "cmd" /\ p = [block |-> h.block, end |-> h.end]
    BY <2>1 DEF IsLive
  <2>2. CASE frame.arena = "cmd" /\ frame.mark # NoMark /\ p = Spot(frame.mark)
    BY <1>5, <2>2
  <2> QED
    BY <2>1, <2>2 DEF Spots
<1>7. ASSUME NEW i \in 1 .. k, NEW p \in Spots(stack[i]), frame.arena = "cmd"
      PROVE  Precedes(b, p, Spot(frame.mark))
  <2>1. IsLive(a, p) /\ p.end \in Nat
    BY <1>3, SpotsType DEF StackKept
  <2>2. Precedes(a, p, Spot(frame.mark))
    BY <1>1, <1>7, <2>1, MarkIsTop
  <2> QED
    BY <1>1, <2>1, <2>2, GrownKeeps, SpotsType
<1> HIDE DEF k
<1>8. \A i \in 1 .. k + 1 : (i \in 1 .. k /\ pushed[i] = stack[i]) \/ (i = k + 1 /\ pushed[i] = frame)
  BY <1>2
<1>9. \A i \in 1 .. k + 1 : \A p \in Spots(pushed[i]) : IsLive(b, p)
  BY <1>4, <1>6, <1>8 DEF StackKept, k
<1>10. ASSUME NEW i \in 1 .. k + 1, NEW j \in 1 .. k + 1, i < j, pushed[j].arena = "cmd", NEW p \in Spots(pushed[i])
       PROVE  Precedes(b, p, Spot(pushed[j].mark))
  <2>1. i \in 1 .. k /\ pushed[i] = stack[i]
    BY <1>2, <1>8, <1>10
  <2>2. CASE j \in 1 .. k /\ pushed[j] = stack[j]
    BY <1>4, <1>10, <2>1, <2>2 DEF StackKept, k
  <2>3. CASE pushed[j] = frame
    BY <1>7, <1>10, <2>1, <2>3
  <2> QED
    BY <1>8, <2>2, <2>3
<1> QED
  BY <1>2, <1>9, <1>10 DEF StackKept, pushed

(* The innermost frame holds one thing more.                               *)
LEMMA StackHolds ==
  ASSUME NEW a, Whole(a), NEW b, Whole(b), Grown(a, b),
         NEW stack \in Seq(Frames), StackKept(a, stack), stack # <<>>,
         NEW holds \in SUBSET Addresses,
         \A h \in holds \ stack[Len(stack)].holds : h.arena = "cmd" => IsLive(b, h)
  PROVE  StackKept(b, [stack EXCEPT ![Len(stack)].holds = holds])
<1> DEFINE k == Len(stack)
           top == [stack[k] EXCEPT !.holds = holds]
           held == [stack EXCEPT ![k].holds = holds]
<1>1. a \in Arenas /\ b \in Arenas
  BY DEF Whole
<1>2. k \in Nat /\ k \in 1 .. k /\ \A i \in 1 .. k : stack[i] \in Frames
  BY LenProperties, ElementOfSeq, EmptySeq
<1>3. StackKept(b, stack)
  BY <1>1, StackGrows
<1>4. /\ top.arena = stack[k].arena /\ top.mark = stack[k].mark /\ top.holds = holds
      /\ top \in Frames
  BY <1>2 DEF Frames
<1>5. held = [stack EXCEPT ![k] = top]
  OBVIOUS
<1> HIDE DEF top, held
<1>6. Len(held) = k /\ \A i \in 1 .. k : held[i] = IF i = k THEN top ELSE stack[i]
  BY <1>2, <1>4, <1>5, ExceptSeq
<1>7. ASSUME NEW p \in Spots(top) PROVE IsLive(b, p)
  <2>1. CASE p \in Spots(stack[k])
    BY <1>2, <1>3, <2>1 DEF StackKept
  <2>2. CASE p \notin Spots(stack[k])
    <3>1. PICK h \in holds : h.arena = "cmd" /\ p = [block |-> h.block, end |-> h.end]
      BY <1>4, <1>7, <2>2 DEF Spots
    <3>2. h \notin stack[k].holds
      BY <2>2, <3>1 DEF Spots
    <3>3. IsLive(b, h)
      BY <3>1, <3>2
    <3> QED
      BY <3>1, <3>3 DEF IsLive
  <2> QED
    BY <2>1, <2>2
<1> HIDE DEF k
<1>8. \A i \in 1 .. k : \A p \in Spots(held[i]) : IsLive(b, p)
  BY <1>3, <1>6, <1>7 DEF StackKept, k
<1>9. ASSUME NEW i \in 1 .. k, NEW j \in 1 .. k, i < j, held[j].arena = "cmd", NEW p \in Spots(held[i])
      PROVE  Precedes(b, p, Spot(held[j].mark))
  <2>1. held[i] = stack[i]
    BY <1>2, <1>6, <1>9
  <2>2. held[j].arena = stack[j].arena /\ held[j].mark = stack[j].mark
    BY <1>4, <1>6
  <2> QED
    BY <1>3, <1>9, <2>1, <2>2 DEF StackKept, k
<1> QED
  BY <1>6, <1>8, <1>9 DEF StackKept, held, k

(* A stack without its last frame.                                         *)
LEMMA Popped ==
  ASSUME NEW S, NEW stack \in Seq(S), stack # <<>>
  PROVE  /\ Front(stack) \in Seq(S)
         /\ Len(Front(stack)) = Len(stack) - 1
         /\ \A i \in 1 .. Len(stack) - 1 : i \in 1 .. Len(stack) /\ i < Len(stack) /\ Front(stack)[i] = stack[i]
<1> DEFINE k == Len(stack)
<1>1. k \in Nat \ {0} /\ \A i \in 1 .. k : stack[i] \in S
  BY EmptySeq, ElementOfSeq
<1> HIDE DEF k
<1>2. \A i \in 1 .. k - 1 : stack[i] \in S
  BY <1>1
<1>3. /\ SubSeq(stack, 1, k - 1) \in Seq(S)
      /\ Len(SubSeq(stack, 1, k - 1)) = IF 1 <= k - 1 THEN k - 1 - 1 + 1 ELSE 0
      /\ \A i \in 1 .. k - 1 - 1 + 1 : SubSeq(stack, 1, k - 1)[i] = stack[1 + i - 1]
  BY <1>1, <1>2, SubSeqProperties
<1>4. Front(stack) = SubSeq(stack, 1, k - 1)
  BY DEF Front, k
<1>5. Len(Front(stack)) = k - 1
  BY <1>1, <1>3, <1>4
<1>6. ASSUME NEW i \in 1 .. k - 1
      PROVE  i \in 1 .. k /\ i < k /\ Front(stack)[i] = stack[i]
  <2>1. i \in 1 .. k - 1 - 1 + 1 /\ 1 + i - 1 = i /\ i \in 1 .. k /\ i < k
    BY <1>1
  <2> QED
    BY <1>3, <1>4, <2>1
<1> QED
  BY <1>3, <1>4, <1>5, <1>6 DEF k

(* A frame that has not marked cmd ends.                                   *)
LEMMA StackPopped ==
  ASSUME NEW a, NEW stack \in Seq(Frames), StackKept(a, stack), stack # <<>>
  PROVE  StackKept(a, Front(stack))
BY Popped DEF StackKept

(* A frame that has marked cmd ends: the rewind spares all below.          *)
LEMMA StackRewound ==
  ASSUME NEW a, Whole(a), NEW stack \in Seq(Frames), StackKept(a, stack), stack # <<>>,
         stack[Len(stack)].arena = "cmd"
  PROVE  LET mark == stack[Len(stack)].mark
             b == arena_mark_rewind(a, mark)
         IN  Whole(b) /\ StackKept(b, Front(stack)) /\ arena_mark_take(b) = mark
<1> DEFINE k == Len(stack)
           mark == stack[k].mark
           b == arena_mark_rewind(a, mark)
           rest == Front(stack)
<1>1. k \in Nat /\ k \in 1 .. k /\ \A i \in 1 .. k : stack[i] \in Frames
  BY LenProperties, ElementOfSeq, EmptySeq
<1>2. Len(rest) = k - 1 /\ \A i \in 1 .. k - 1 : i \in 1 .. k /\ i < k /\ rest[i] = stack[i]
  BY Popped
<1>3. mark \in Marks
  BY <1>1 DEF Frames
<1>4. \A i \in 1 .. k - 1 : \A p \in Spots(stack[i]) : p.end \in Nat /\ Precedes(a, p, Spot(mark))
  BY <1>1, <1>2, SpotsType DEF StackKept
<1>5. CASE mark = NoMark
  <2>1. Whole(b) /\ b.chain = <<>> /\ \A p : ~Precedes(a, p, Spot(mark))
    BY <1>5, RewindToNoMark
  <2>2. \A i \in 1 .. k - 1 : Spots(rest[i]) = {}
    BY <1>2, <1>4, <2>1
  <2>3. StackKept(b, rest)
    BY <1>2, <2>2 DEF StackKept
  <2>4. arena_mark_take(b) = NoMark
    BY <2>1 DEF arena_mark_take
  <2> QED
    BY <1>5, <2>1, <2>3, <2>4
<1>6. CASE mark # NoMark
  <2>1. IsLive(a, Spot(mark))
    BY <1>1, <1>6, SpotsType DEF StackKept
  <2>2. /\ Whole(b)
        /\ arena_mark_take(b) = mark
        /\ \A p : p.end \in Nat /\ Precedes(a, p, Spot(mark)) => IsLive(b, p)
        /\ \A p, q : /\ p.end \in Nat /\ q.end \in Nat
                     /\ Precedes(a, p, q) /\ Precedes(a, q, Spot(mark))
                     => Precedes(b, p, q)
    BY <1>3, <2>1, RewindToLive
  <2> HIDE DEF b, mark, rest
  <2>3. \A i \in 1 .. k - 1 : \A p \in Spots(rest[i]) : IsLive(b, p)
    BY <1>2, <1>4, <2>2
  <2>4. ASSUME NEW i \in 1 .. k - 1, NEW j \in 1 .. k - 1, i < j, rest[j].arena = "cmd", NEW p \in Spots(rest[i])
        PROVE  Precedes(b, p, Spot(rest[j].mark))
    <3>1. rest[i] = stack[i] /\ rest[j] = stack[j] /\ j \in 1 .. k /\ i \in 1 .. k
      BY <1>2
    <3>2. Precedes(a, p, Spot(stack[j].mark)) /\ p.end \in Nat
      BY <1>4, <2>4, <3>1 DEF StackKept
    <3>3. stack[j].mark # NoMark
      <4>1. SUFFICES ASSUME stack[j].mark = NoMark PROVE FALSE
        OBVIOUS
      <4> QED
        BY <3>2, <4>1, RewindToNoMark
    <3>4. Spot(stack[j].mark) \in Spots(stack[j])
      BY <1>1, <2>4, <3>1, <3>3, SpotsType
    <3>5. Precedes(a, Spot(stack[j].mark), Spot(mark)) /\ Spot(stack[j].mark).end \in Nat
      BY <1>4, <3>4
    <3> QED
      BY <2>2, <3>1, <3>2, <3>5
  <2>5. StackKept(b, rest)
    BY <1>2, <2>3, <2>4 DEF StackKept
  <2> QED
    BY <2>2, <2>5 DEF b, mark, rest
<1> QED
  BY <1>5, <1>6

(* A command that is refused, and a preview: what was allocated is taken   *)
(* back at once.                                                           *)
LEMMA StackBorrowed ==
  ASSUME NEW a, Whole(a), NEW n \in Nat, NEW stack \in Seq(Frames), StackKept(a, stack)
  PROVE  LET b == arena_mark_rewind(arena_alloc_in(a, n), arena_mark_take(a))
         IN  Whole(b) /\ StackKept(b, stack)
<1> DEFINE c == arena_alloc_in(a, n)
           mark == arena_mark_take(a)
           frame == [k |-> "text", arena |-> "cmd", mark |-> mark, saved |-> "cmd", holds |-> {}]
           pushed == Append(stack, frame)
<1>1. a \in Arenas /\ Whole(c) /\ Grown(a, c)
  BY AllocKeeps DEF Whole
<1>2. frame \in Frames /\ frame.arena = "cmd" /\ frame.mark = mark /\ frame.holds = {}
  <2>1. mark \in Marks
    BY <1>1, MarkIsTop
  <2> HIDE DEF mark
  <2> QED
    BY <2>1 DEF Frames, Own
<1> HIDE DEF c, frame
<1>3. StackKept(c, pushed)
  BY <1>1, <1>2, StackPushed
<1>4. /\ pushed \in Seq(Frames) /\ pushed # <<>> /\ Len(pushed) = Len(stack) + 1
      /\ pushed[Len(pushed)] = frame
  BY <1>2, AppendProperties
<1>5. Front(pushed) = stack
  <2>1. Front(pushed) \in Seq(Frames) /\ Len(Front(pushed)) = Len(stack)
        /\ \A i \in 1 .. Len(stack) : Front(pushed)[i] = pushed[i] /\ pushed[i] = stack[i]
    <3>1. Len(stack) \in Nat /\ \A i \in 1 .. Len(stack) : pushed[i] = stack[i]
      BY <1>2, AppendProperties, LenProperties
    <3> HIDE DEF pushed
    <3>2. /\ Front(pushed) \in Seq(Frames) /\ Len(Front(pushed)) = Len(pushed) - 1
          /\ \A i \in 1 .. Len(pushed) - 1 : Front(pushed)[i] = pushed[i]
      BY <1>4, Popped
    <3>3. Len(pushed) - 1 = Len(stack)
      BY <1>4, <3>1
    <3> QED
      BY <3>1, <3>2, <3>3
  <2> HIDE DEF pushed
  <2> QED
    BY <2>1, SeqEqual
<1>6. Whole(arena_mark_rewind(c, mark)) /\ StackKept(arena_mark_rewind(c, mark), Front(pushed))
  BY <1>1, <1>2, <1>3, <1>4, StackRewound
<1> QED
  BY <1>5, <1>6 DEF c

-----------------------------------------------------------------------------
(* The arenas of a shell and those of functions are different.             *)
LEMMA ArenaNames ==
  /\ "cmd" \in Own \cup Functions /\ "script" \in Own \cup Functions
  /\ "cmd" \in Own /\ "script" \in Own /\ "cmd" # "script"
  /\ \A f \in Functions : f \in Own \cup Functions /\ f \notin Own /\ f # "cmd" /\ f # "script" /\ f # "" /\ f # "perm"
BY FunctionsAssumption DEF Own

(* One arena is put in order, or all those of commands are reset.          *)
LEMMA ArenaReplaced ==
  ASSUME NEW all, ArenasInv(all), NEW a \in Own \cup Functions, NEW b, Whole(b)
  PROVE  /\ ArenasInv([all EXCEPT ![a] = b])
         /\ \A x \in Own \cup Functions : [all EXCEPT ![a] = b][x] = IF x = a THEN b ELSE all[x]
<1>1. b \in Arenas
  BY DEF Whole
<1> QED
  BY <1>1 DEF ArenasInv

(* Clearing the shell's arenas leaves those of the functions alone.        *)
LEMMA ArenasCleared ==
  ASSUME NEW all, ArenasInv(all)
  PROVE  /\ ArenasInv(ClearedOf(all))
         /\ \A x \in Own : ClearedOf(all)[x].chain = <<>>
         /\ \A f \in Functions : ClearedOf(all)[f] = all[f]
<1>1. \A a \in Own \cup Functions : Whole(all[a]) /\ Whole(arena_reset(all[a])) /\ arena_reset(all[a]).chain = <<>>
  BY ResetKeeps DEF ArenasInv
<1>2. \A a \in Own \cup Functions : all[a] \in Arenas /\ arena_reset(all[a]) \in Arenas
  BY <1>1 DEF Whole
<1>3. DOMAIN all = Own \cup Functions
  BY DEF ArenasInv
<1>4. /\ ClearedOf(all) \in [Own \cup Functions -> Arenas]
      /\ \A a \in Own \cup Functions : ClearedOf(all)[a] = IF a \in Own THEN arena_reset(all[a]) ELSE all[a]
  BY <1>2, <1>3 DEF ClearedOf
<1> QED
  BY <1>1, <1>4, ArenaNames DEF ArenasInv

(* An allocation in one of the arenas, and the address that it gives.      *)
LEMMA ArenaAllocates ==
  ASSUME NEW all, ArenasInv(all), NEW a \in Own \cup Functions, NEW n \in Nat
  PROVE  /\ ArenasInv(With(all, a, n))
         /\ \A x \in Own \cup Functions : x # a => With(all, a, n)[x] = all[x]
         /\ Whole(With(all, a, n)[a]) /\ Grown(all[a], With(all, a, n)[a])
         /\ IsLive(With(all, a, n)[a], Allocated(a, With(all, a, n)[a]))
         /\ Allocated(a, With(all, a, n)[a]) \in Addresses
         /\ Allocated(a, With(all, a, n)[a]).arena = a
<1> DEFINE b == arena_alloc_in(all[a], n)
           address == Allocated(a, b)
<1>1. Whole(b) /\ Grown(all[a], b) /\ b.chain # <<>>
  BY AllocKeeps DEF ArenasInv
<1>2. With(all, a, n) = [all EXCEPT ![a] = b]
  BY DEF With
<1> HIDE DEF b
<1>3. ArenasInv(With(all, a, n)) /\ With(all, a, n)[a] = b /\ \A x \in Own \cup Functions : x # a => With(all, a, n)[x] = all[x]
  <2>1. /\ ArenasInv([all EXCEPT ![a] = b])
        /\ \A x \in Own \cup Functions : [all EXCEPT ![a] = b][x] = IF x = a THEN b ELSE all[x]
    BY <1>1, ArenaReplaced
  <2> QED
    BY <1>2, <2>1
<1>4. b \in Arenas
  BY <1>1 DEF Whole
<1>5. IsLive(b, Spot(arena_mark_take(b))) /\ arena_mark_take(b) = [block |-> Head_(b).id, used |-> Head_(b).used]
  BY <1>1, <1>4, MarkIsTop DEF arena_mark_take
<1>6. IsLive(b, address)
  BY <1>5 DEF IsLive, Spot, Allocated
<1>7. Head_(b) \in Blocks
  <2>1. Len(b.chain) \in 1 .. Len(b.chain)
    BY <1>1, <1>4, ArenaParts
  <2> QED
    BY <1>4, <2>1, ArenaParts DEF Head_, Last
<1>8. address \in Addresses /\ address.arena = a
  BY <1>7 DEF Allocated, Addresses, Blocks
<1> QED
  BY <1>1, <1>3, <1>6, <1>8

(* Functions are kept when neither they nor their caches change.           *)
LEMMA FunctionsKept ==
  ASSUME NEW all, NEW next, NEW table, FunctionsInv(all, table), \A f \in Functions : next[f] = all[f]
  PROVE  FunctionsInv(next, table)
BY DEF FunctionsInv, CacheFits

(* The innermost frame.                                                    *)
LEMMA TopFrame ==
  ASSUME NEW all, NEW now, NEW stack, FramesInv(all, now, stack), stack # <<>>
  PROVE  LET k == Len(stack) IN
         /\ now = "cmd"
         /\ stack \in Seq(Frames)
         /\ k \in Nat \ {0} /\ k \in 1 .. k
         /\ Last(stack) = stack[k]
         /\ stack[k] \in Frames /\ stack[k].arena \in {"", "cmd"}
         /\ \A i \in 1 .. k : stack[i] \in Frames
         /\ \/ k = 1 /\ stack[k].arena = "" /\ stack[k].k \in {"command", "child"}
            \/ k > 1 /\ stack[k].saved = "cmd" /\ stack[k].k # "child" /\ (stack[k].k = "command" => stack[k].arena = "cmd")
<1> DEFINE k == Len(stack)
<1>1. stack \in Seq(Frames)
  BY DEF FramesInv
<1>2. k \in Nat \ {0} /\ \A i \in 1 .. k : stack[i] \in Frames
  BY <1>1, EmptySeq, ElementOfSeq
<1>3. Last(stack) = stack[k]
  BY DEF Last
<1>4. now = "cmd"
  BY DEF FramesInv, FramesNest
<1>5. \A i \in 1 .. k : FitsAt(i, stack[i])
  BY DEF FramesInv, FramesNest
<1> HIDE DEF k
<1>6. k \in 1 .. k /\ (k = 1 \/ k > 1)
  BY <1>2
<1>7. /\ stack[k].arena \in {"", "cmd"}
      /\ k = 1 => stack[k].arena = "" /\ stack[k].k \in {"command", "child"}
      /\ k # 1 => stack[k].saved = "cmd" /\ stack[k].k # "child" /\ (stack[k].k = "command" => stack[k].arena = "cmd")
  BY <1>5, <1>6 DEF FitsAt
<1>8. k > 1 => k # 1
  BY <1>2
<1> QED
  BY <1>1, <1>2, <1>3, <1>4, <1>6, <1>7, <1>8 DEF k

(* A sequence with one thing more.                                         *)
LEMMA Pushed ==
  ASSUME NEW S, NEW stack \in Seq(S), NEW e \in S
  PROVE  LET k == Len(stack)
             pushed == Append(stack, e)
         IN  /\ pushed \in Seq(S) /\ pushed # <<>> /\ Len(pushed) = k + 1
             /\ k \in Nat /\ (stack # <<>> => k # 0)
             /\ \A i \in 1 .. k + 1 : \/ i \in 1 .. k /\ i # k + 1 /\ pushed[i] = stack[i]
                                      \/ i = k + 1 /\ (stack # <<>> => i # 1) /\ pushed[i] = e
<1> DEFINE k == Len(stack)
           pushed == Append(stack, e)
<1>1. k \in Nat /\ (stack # <<>> => k # 0)
  BY LenProperties, EmptySeq
<1>2. /\ pushed \in Seq(S) /\ pushed # <<>> /\ Len(pushed) = k + 1
      /\ (\A i \in 1 .. k : pushed[i] = stack[i]) /\ pushed[k + 1] = e
  BY AppendProperties
<1> HIDE DEF k, pushed
<1>3. \A i \in 1 .. k + 1 : (i \in 1 .. k /\ i # k + 1) \/ (i = k + 1 /\ (stack # <<>> => i # 1))
  BY <1>1
<1>4. \A i \in 1 .. k + 1 : \/ i \in 1 .. k /\ i # k + 1 /\ pushed[i] = stack[i]
                            \/ i = k + 1 /\ (stack # <<>> => i # 1) /\ pushed[i] = e
  BY <1>2, <1>3
<1> QED
  BY <1>1, <1>2, <1>4 DEF k, pushed

(* What a frame that is started in a command is like, when the arenas that *)
(* were all are next.                                                      *)
StartsWell(frame, all, next) ==
  /\ frame \in Frames
  /\ frame.saved = "cmd" /\ frame.k # "child" /\ frame.arena \in {"", "cmd"}
  /\ frame.k = "command" => frame.arena = "cmd"
  /\ frame.arena = "cmd" => frame.mark = arena_mark_take(all["cmd"])
  /\ \A h \in frame.holds : h.arena # "script" /\ (h.arena = "cmd" => IsLive(next["cmd"], h))

(* A frame is started in a command.                                        *)
LEMMA FramePushed ==
  ASSUME NEW all, ArenasInv(all), NEW now, NEW stack, FramesInv(all, now, stack), stack # <<>>,
         NEW next, ArenasInv(next), Grown(all["cmd"], next["cmd"]), next["script"] = all["script"],
         NEW frame, StartsWell(frame, all, next)
  PROVE  FramesInv(next, now, Append(stack, frame))
<1> DEFINE k == Len(stack)
           pushed == Append(stack, frame)
<1>0. frame \in Frames
  BY DEF StartsWell
<1>1. stack \in Seq(Frames) /\ k \in Nat /\ k # 0 /\ now = "cmd"
  BY TopFrame
<1>2. /\ pushed \in Seq(Frames) /\ Len(pushed) = k + 1 /\ pushed # <<>>
      /\ \A i \in 1 .. k + 1 : \/ i \in 1 .. k /\ pushed[i] = stack[i]
                               \/ i # 1 /\ i = k + 1 /\ pushed[i] = frame
  BY <1>1, <1>0, Pushed
<1>3. StackKept(next["cmd"], pushed)
  <2>1. Whole(all["cmd"]) /\ Whole(next["cmd"]) /\ StackKept(all["cmd"], stack)
    BY ArenaNames DEF ArenasInv, FramesInv
  <2> QED
    BY <1>1, <2>1, StackPushed DEF StartsWell
<1> HIDE DEF k, pushed
<1>5. FramesNest(now, pushed)
  <2>1. \A i \in 1 .. k : FitsAt(i, stack[i])
    BY DEF FramesInv, FramesNest, k
  <2>2. \A i \in Nat : i # 1 => FitsAt(i, frame)
    BY DEF FitsAt, StartsWell
  <2> QED
    BY <1>1, <1>2, <2>1, <2>2 DEF FramesNest
<1>6. ScriptIsLive(next["script"], pushed)
  BY <1>2 DEF FramesInv, ScriptIsLive, k, StartsWell
<1> QED
  BY <1>2, <1>3, <1>5, <1>6 DEF FramesInv, pushed

(* With no frame there is nothing to keep.                                 *)
LEMMA NoFrames == \A all : FramesInv(all, "perm", <<>>)
<1>1. <<>> \in Seq(Frames) /\ Len(<<>>) = 0
  BY EmptySeq
<1> QED
  BY <1>1 DEF FramesInv, FramesNest, StackKept, ScriptIsLive

(* The frames stay as they are.                                            *)
LEMMA FramesStay ==
  ASSUME NEW all, NEW now, NEW stack, FramesInv(all, now, stack),
         NEW next, StackKept(next["cmd"], stack), next["script"] = all["script"]
  PROVE  FramesInv(next, now, stack)
BY DEF FramesInv

(* A frame above another ends.                                             *)
LEMMA FramePopped ==
  ASSUME NEW all, NEW now, NEW stack, FramesInv(all, now, stack), Len(stack) > 1,
         NEW next, next["script"] = all["script"], StackKept(next["cmd"], Front(stack))
  PROVE  FramesInv(next, "cmd", Front(stack))
<1> DEFINE k == Len(stack)
           rest == Front(stack)
<1>1. stack \in Seq(Frames) /\ stack # <<>> /\ k \in Nat
  BY EmptySeq, LenProperties DEF FramesInv
<1>2. rest \in Seq(Frames) /\ Len(rest) = k - 1 /\ \A i \in 1 .. k - 1 : i \in 1 .. k /\ rest[i] = stack[i]
  BY <1>1, Popped
<1>4. StackKept(next["cmd"], rest)
  OBVIOUS
<1>5. \A i \in 1 .. k : FitsAt(i, stack[i])
  BY DEF FramesInv, FramesNest
<1>6. ScriptIsLive(next["script"], rest)
  <2>1. \A i \in 1 .. k : \A h \in stack[i].holds : h.arena = "script" => IsLive(all["script"], h)
    BY DEF FramesInv, ScriptIsLive
  <2> HIDE DEF k, rest
  <2> QED
    BY <1>2, <2>1 DEF ScriptIsLive
<1>7. k > 1
  OBVIOUS
<1> HIDE DEF k, rest
<1>8. rest # <<>>
  <2>1. k - 1 # 0
    BY <1>1, <1>7
  <2> QED
    BY <1>2, <2>1, EmptySeq
<1>9. FramesNest("cmd", rest)
  BY <1>2, <1>5, <1>8 DEF FramesNest
<1> QED
  BY <1>2, <1>4, <1>6, <1>9 DEF FramesInv, rest

(* The innermost frame goes on with what was allocated in cmd.             *)
LEMMA FrameHolds ==
  ASSUME NEW all, ArenasInv(all), NEW now, NEW stack, FramesInv(all, now, stack), stack # <<>>,
         NEW next, ArenasInv(next), Grown(all["cmd"], next["cmd"]), next["script"] = all["script"],
         NEW address \in Addresses, address.arena = "cmd", IsLive(next["cmd"], address)
  PROVE  FramesInv(next, now, [stack EXCEPT ![Len(stack)].holds = @ \cup {address}])
<1> DEFINE k == Len(stack)
           holds == stack[k].holds \cup {address}
           top == [stack[k] EXCEPT !.holds = holds]
           held == [stack EXCEPT ![k].holds = holds]
<1>1. stack \in Seq(Frames) /\ k \in Nat \ {0} /\ k \in 1 .. k /\ now = "cmd" /\ stack[k] \in Frames
  BY TopFrame
<1>2. Whole(all["cmd"]) /\ Whole(next["cmd"]) /\ StackKept(all["cmd"], stack)
  BY ArenaNames DEF ArenasInv, FramesInv
<1>3. holds \in SUBSET Addresses
  BY <1>1 DEF Frames
<1>4. StackKept(next["cmd"], held)
  BY <1>1, <1>2, <1>3, StackHolds
<1>5. /\ top \in Frames /\ top.holds = holds
      /\ top.k = stack[k].k /\ top.arena = stack[k].arena /\ top.saved = stack[k].saved
  <2> HIDE DEF holds
  <2> QED
    BY <1>1, <1>3 DEF Frames
<1>6. held = [stack EXCEPT ![k] = top]
  OBVIOUS
<1>7. held \in Seq(Frames) /\ Len(held) = k /\ \A i \in 1 .. k : held[i] = IF i = k THEN top ELSE stack[i]
  <2> HIDE DEF held, top
  <2> QED
    BY <1>1, <1>5, <1>6, ExceptSeq
<1> HIDE DEF k, held, top, holds
<1>8. \A i \in 1 .. k : FitsAt(i, stack[i])
  BY DEF FramesInv, FramesNest, k
<1>9. \A i \in 1 .. k : FitsAt(i, held[i])
  <2>1. FitsAt(k, stack[k]) => FitsAt(k, top)
    BY <1>5 DEF FitsAt
  <2> QED
    BY <1>1, <1>7, <1>8, <2>1
<1>10. held # <<>>
  BY <1>1, <1>7, EmptySeq
<1>11. FramesNest(now, held)
  BY <1>1, <1>7, <1>9, <1>10 DEF FramesNest
<1>12. ScriptIsLive(next["script"], held)
  <2>1. \A i \in 1 .. k : \A h \in stack[i].holds : h.arena = "script" => IsLive(all["script"], h)
    BY DEF FramesInv, ScriptIsLive, k
  <2>2. \A h \in holds : h.arena = "script" => h \in stack[k].holds
    BY DEF holds
  <2> QED
    BY <1>1, <1>5, <1>7, <2>1, <2>2 DEF ScriptIsLive
<1> QED
  BY <1>4, <1>7, <1>11, <1>12 DEF FramesInv, held, holds, k

(* The only frame: it has marked nothing.                                  *)
LEMMA OnlyFrame ==
  ASSUME NEW next, NEW frame \in Frames, FitsAt(1, frame),
         \A h \in frame.holds : h.arena # "cmd" /\ (h.arena = "script" => IsLive(next["script"], h))
  PROVE  FramesInv(next, "cmd", <<frame>>)
<1> DEFINE stack == <<frame>>
<1>1. stack \in Seq(Frames) /\ Len(stack) = 1 /\ stack[1] = frame /\ stack # <<>>
  OBVIOUS
<1>2. \A i \in 1 .. 1 : i = 1
  OBVIOUS
<1> HIDE DEF stack
<1>3. Spots(frame) = {} /\ frame.arena # "cmd"
  BY DEF Spots, FitsAt
<1>4. StackKept(next["cmd"], stack)
  BY <1>1, <1>2, <1>3 DEF StackKept
<1>5. FramesNest("cmd", stack) /\ ScriptIsLive(next["script"], stack)
  BY <1>1, <1>2 DEF FramesNest, ScriptIsLive
<1> QED
  BY <1>1, <1>4, <1>5 DEF FramesInv, stack

(* Marks, none or one that is taken now.                                   *)
LEMMA MarksType ==
  ASSUME NEW all, ArenasInv(all)
  PROVE  NoMark \in Marks /\ arena_mark_take(all["cmd"]) \in Marks
<1>1. all["cmd"] \in Arenas
  BY ArenaNames DEF ArenasInv
<1> QED
  BY <1>1, MarkIsTop DEF NoMark, Marks

(* Commands run in cmd, and nothing else does.                             *)
LEMMA WhereRun ==
  ASSUME FramesInv(arenas, current, frames)
  PROVE  /\ current \in {"perm", "cmd"}
         /\ top_level_command <=> frames = <<>>
         /\ frames = <<>> <=> current = "perm"
         /\ frames # <<>> <=> current = "cmd"
         /\ Running => frames # <<>>
         /\ \A kinds : InFrame(kinds) => frames # <<>>
BY DEF FramesInv, FramesNest, top_level_command, Running, InFrame, Own

-----------------------------------------------------------------------------
(* Nothing is allocated at the start.                                      *)
LEMMA InitInv == Init => LifetimesInv
<1> SUFFICES ASSUME Init PROVE LifetimesInv
  OBVIOUS
<1>1. NoBlocks \in Arenas /\ Whole(NoBlocks) /\ NoBlocks.chain = <<>>
  BY NoBlocksIsWhole DEF Whole, NoBlocks
<1>2. ArenasInv(arenas)
  BY <1>1 DEF Init, ArenasInv
<1>3. FunctionsInv(arenas, functions)
  <2>1. Absent \in FunctionStates /\ Absent.program = Nowhere
    BY DEF Absent, FunctionStates
  <2> QED
    BY <1>1, <2>1 DEF Init, FunctionsInv, CacheFits
<1>4. FramesInv(arenas, current, frames)
  BY NoFrames DEF Init
<1> QED
  BY <1>2, <1>3, <1>4 DEF LifetimesInv

(* A command of the input begins with cleared arenas.                      *)
LEMMA StartTopInv ==
  ASSUME LifetimesInv, NEW n \in Sizes, StartTop(n)
  PROVE  LifetimesInv'
<1> DEFINE cleared == ClearedOf(arenas)
           address == Allocated("script", arenas'["script"])
           frame == Frame("command", "", {address})
<1>1. ArenasInv(arenas) /\ FunctionsInv(arenas, functions) /\ FramesInv(arenas, current, frames) /\ n \in Nat
  BY SizesAssumption DEF LifetimesInv
<1>2. frames = <<>> /\ current = "perm"
  BY <1>1, WhereRun DEF StartTop
<1>3. ArenasInv(cleared) /\ \A f \in Functions : cleared[f] = arenas[f]
  BY <1>1, ArenasCleared
<1>4. arenas' = With(cleared, "script", n) /\ current' = "cmd" /\ frames' = Append(frames, frame) /\ UNCHANGED functions
  BY DEF StartTop, Push
<1> HIDE DEF cleared
<1>5. /\ ArenasInv(arenas') /\ \A f \in Functions : arenas'[f] = arenas[f]
      /\ IsLive(arenas'["script"], address) /\ address \in Addresses /\ address.arena = "script"
  <2>1. "script" \in Own \cup Functions /\ \A f \in Functions : f \in Own \cup Functions /\ f # "script"
    BY ArenaNames
  <2> DEFINE next == With(cleared, "script", n)
  <2>2. /\ ArenasInv(next) /\ \A x \in Own \cup Functions : x # "script" => next[x] = cleared[x]
        /\ IsLive(next["script"], Allocated("script", next["script"]))
        /\ Allocated("script", next["script"]) \in Addresses
        /\ Allocated("script", next["script"]).arena = "script"
    BY <1>1, <1>3, <2>1, ArenaAllocates
  <2>3. arenas' = next
    BY <1>4
  <2> HIDE DEF next
  <2> QED
    BY <1>3, <2>1, <2>2, <2>3
<1> HIDE DEF address
<1>6. frame = [k |-> "command", arena |-> "", mark |-> NoMark, saved |-> "perm", holds |-> {address}]
  BY <1>2 DEF Frame
<1> HIDE DEF frame
<1>7. frame \in Frames /\ FitsAt(1, frame) /\ frame.holds = {address}
  <2>1. NoMark \in Marks /\ {address} \in SUBSET Addresses
    BY <1>1, <1>5, MarksType
  <2>2. frame \in Frames
    BY <1>6, <2>1 DEF Frames
  <2>3. FitsAt(1, frame)
    BY <1>6 DEF FitsAt
  <2> QED
    BY <1>6, <2>2, <2>3
<1>8. FramesInv(arenas', "cmd", <<frame>>)
  BY <1>5, <1>7, OnlyFrame
<1>9. frames' = <<frame>>
  BY <1>2, <1>4
<1>10. FunctionsInv(arenas', functions')
  BY <1>1, <1>4, <1>5, FunctionsKept
<1> QED
  BY <1>4, <1>5, <1>8, <1>9, <1>10 DEF LifetimesInv

(* What commands allocate while they run, they allocate in cmd.            *)
LEMMA CommandAllocates ==
  ASSUME NEW all, ArenasInv(all), NEW n \in Nat, NEW next, next = With(all, "cmd", n)
  PROVE  /\ ArenasInv(next) /\ Grown(all["cmd"], next["cmd"])
         /\ next["script"] = all["script"] /\ \A f \in Functions : next[f] = all[f]
         /\ Allocated("cmd", next["cmd"]) \in Addresses
         /\ Allocated("cmd", next["cmd"]).arena = "cmd"
         /\ IsLive(next["cmd"], Allocated("cmd", next["cmd"]))
<1>1. "cmd" \in Own \cup Functions /\ "script" \in Own \cup Functions /\ "script" # "cmd"
  BY ArenaNames
<1>2. \A f \in Functions : f \in Own \cup Functions /\ f # "cmd"
  BY ArenaNames
<1>3. /\ ArenasInv(next) /\ Grown(all["cmd"], next["cmd"])
      /\ \A x \in Own \cup Functions : x # "cmd" => next[x] = all[x]
      /\ IsLive(next["cmd"], Allocated("cmd", next["cmd"]))
      /\ Allocated("cmd", next["cmd"]) \in Addresses
      /\ Allocated("cmd", next["cmd"]).arena = "cmd"
  BY <1>1, ArenaAllocates
<1> QED
  BY <1>1, <1>2, <1>3

(* What is allocated in cmd and taken back at once.                        *)
LEMMA CommandBorrows ==
  ASSUME NEW all, ArenasInv(all), NEW now, NEW stack, FramesInv(all, now, stack), NEW n \in Nat
  PROVE  LET next == [all EXCEPT !["cmd"] = arena_mark_rewind(arena_alloc_in(@, n), arena_mark_take(@))]
         IN  ArenasInv(next) /\ FramesInv(next, now, stack) /\ \A f \in Functions : next[f] = all[f]
<1> DEFINE next == [all EXCEPT !["cmd"] = arena_mark_rewind(arena_alloc_in(@, n), arena_mark_take(@))]
           b == arena_mark_rewind(arena_alloc_in(all["cmd"], n), arena_mark_take(all["cmd"]))
<1>1. "cmd" \in Own \cup Functions /\ "script" \in Own \cup Functions /\ "script" # "cmd"
  BY ArenaNames
<1>2. \A f \in Functions : f \in Own \cup Functions /\ f # "cmd"
  BY ArenaNames
<1>3. Whole(b) /\ StackKept(b, stack)
  <2>1. Whole(all["cmd"]) /\ StackKept(all["cmd"], stack) /\ stack \in Seq(Frames)
    BY <1>1 DEF ArenasInv, FramesInv
  <2> QED
    BY <2>1, StackBorrowed
<1>4. next = [all EXCEPT !["cmd"] = b]
  OBVIOUS
<1> HIDE DEF b, next
<1>5. ArenasInv(next) /\ \A x \in Own \cup Functions : next[x] = IF x = "cmd" THEN b ELSE all[x]
  <2>1. /\ ArenasInv([all EXCEPT !["cmd"] = b])
        /\ \A x \in Own \cup Functions : [all EXCEPT !["cmd"] = b][x] = IF x = "cmd" THEN b ELSE all[x]
    BY <1>1, <1>3, ArenaReplaced
  <2> QED
    BY <1>4, <2>1
<1>6. FramesInv(next, now, stack)
  BY <1>1, <1>3, <1>5, FramesStay
<1> QED
  BY <1>1, <1>2, <1>5, <1>6 DEF next

(* A nested command marks the arena it is parsed into.                     *)
LEMMA StartNestedInv ==
  ASSUME LifetimesInv, NEW n \in Sizes, StartNested(n)
  PROVE  LifetimesInv'
<1> DEFINE address == Allocated("cmd", arenas'["cmd"])
           frame == Frame("command", "cmd", {address})
<1>1. ArenasInv(arenas) /\ FunctionsInv(arenas, functions) /\ FramesInv(arenas, current, frames) /\ n \in Nat
  BY SizesAssumption DEF LifetimesInv
<1>2. frames # <<>> /\ current = "cmd"
  BY <1>1, WhereRun DEF StartNested
<1>3. arenas' = With(arenas, "cmd", n) /\ current' = current /\ frames' = Append(frames, frame) /\ functions' = functions
  BY <1>2 DEF StartNested, Push
<1>4. /\ ArenasInv(arenas') /\ Grown(arenas["cmd"], arenas'["cmd"])
      /\ arenas'["script"] = arenas["script"] /\ \A f \in Functions : arenas'[f] = arenas[f]
      /\ address \in Addresses /\ address.arena = "cmd" /\ IsLive(arenas'["cmd"], address)
  BY <1>1, <1>3, CommandAllocates
<1>5. frame = [k |-> "command", arena |-> "cmd", mark |-> arena_mark_take(arenas["cmd"]), saved |-> "cmd",
               holds |-> {address}]
  BY <1>2 DEF Frame
<1> HIDE DEF address, frame
<1>6. StartsWell(frame, arenas, arenas')
  <2>1. arena_mark_take(arenas["cmd"]) \in Marks /\ {address} \in SUBSET Addresses
    BY <1>1, <1>4, MarksType
  <2>2. frame \in Frames
    BY <1>5, <2>1, ArenaNames DEF Frames
  <2> QED
    BY <1>4, <1>5, <2>2 DEF StartsWell
<1>7. FramesInv(arenas', current, frames')
  BY <1>1, <1>2, <1>3, <1>4, <1>6, FramePushed
<1>8. FunctionsInv(arenas', functions)
  BY <1>1, <1>4, FunctionsKept
<1> QED
  BY <1>3, <1>4, <1>7, <1>8 DEF LifetimesInv

(* A text of the input that is not run leaves nothing that is used.        *)
LEMMA RefuseTopInv ==
  ASSUME LifetimesInv, NEW n \in Sizes, RefuseTop(n)
  PROVE  LifetimesInv'
<1> DEFINE cleared == ClearedOf(arenas)
           parsed == With(cleared, "script", n)
<1>1. ArenasInv(arenas) /\ FunctionsInv(arenas, functions) /\ FramesInv(arenas, current, frames) /\ n \in Nat
  BY SizesAssumption DEF LifetimesInv
<1>2. frames = <<>> /\ current = "perm"
  BY <1>1, WhereRun DEF RefuseTop
<1>3. ArenasInv(cleared) /\ \A f \in Functions : cleared[f] = arenas[f]
  BY <1>1, ArenasCleared
<1>4. UNCHANGED <<current, functions, frames>> /\ (arenas' = parsed \/ arenas' = ClearedOf(parsed))
  BY DEF RefuseTop
<1> HIDE DEF cleared
<1>5. ArenasInv(parsed) /\ \A f \in Functions : parsed[f] = arenas[f]
  <2>1. "script" \in Own \cup Functions /\ \A f \in Functions : f \in Own \cup Functions /\ f # "script"
    BY ArenaNames
  <2>2. ArenasInv(parsed) /\ \A x \in Own \cup Functions : x # "script" => parsed[x] = cleared[x]
    BY <1>1, <1>3, <2>1, ArenaAllocates
  <2> HIDE DEF parsed
  <2> QED
    BY <1>3, <2>1, <2>2
<1> HIDE DEF parsed
<1>6. ArenasInv(ClearedOf(parsed)) /\ \A f \in Functions : ClearedOf(parsed)[f] = arenas[f]
  BY <1>5, ArenasCleared
<1>7. ArenasInv(arenas') /\ \A f \in Functions : arenas'[f] = arenas[f]
  BY <1>4, <1>5, <1>6
<1>8. FunctionsInv(arenas', functions')
  BY <1>1, <1>4, <1>7, FunctionsKept
<1>9. FramesInv(arenas', current', frames')
  BY <1>2, <1>4, NoFrames
<1> QED
  BY <1>7, <1>8, <1>9 DEF LifetimesInv

(* A nested text that is not run is rewound at once.                       *)
LEMMA RefuseNestedInv ==
  ASSUME LifetimesInv, NEW n \in Sizes, RefuseNested(n)
  PROVE  LifetimesInv'
<1>1. ArenasInv(arenas) /\ FunctionsInv(arenas, functions) /\ FramesInv(arenas, current, frames) /\ n \in Nat
  BY SizesAssumption DEF LifetimesInv
<1>2. current = "cmd"
  BY <1>1, WhereRun DEF RefuseNested
<1>3. /\ arenas' = [arenas EXCEPT !["cmd"] = arena_mark_rewind(arena_alloc_in(@, n), arena_mark_take(@))]
      /\ UNCHANGED <<current, functions, frames>>
  BY <1>2 DEF RefuseNested
<1>4. ArenasInv(arenas') /\ FramesInv(arenas', current, frames) /\ \A f \in Functions : arenas'[f] = arenas[f]
  <2> DEFINE next == [arenas EXCEPT !["cmd"] = arena_mark_rewind(arena_alloc_in(@, n), arena_mark_take(@))]
  <2>1. ArenasInv(next) /\ FramesInv(next, current, frames) /\ \A f \in Functions : next[f] = arenas[f]
    BY <1>1, CommandBorrows
  <2>2. arenas' = next
    BY <1>3
  <2> HIDE DEF next
  <2> QED
    BY <2>1, <2>2
<1>5. FunctionsInv(arenas', functions)
  BY <1>1, <1>4, FunctionsKept
<1> QED
  BY <1>3, <1>4, <1>5 DEF LifetimesInv

(* A frame that has marked cmd ends.                                       *)
LEMMA CommandRewinds ==
  ASSUME NEW all, ArenasInv(all), NEW now, NEW stack, FramesInv(all, now, stack), stack # <<>>,
         Last(stack).arena = "cmd",
         NEW mark, mark = Last(stack).mark
  PROVE  LET next == [all EXCEPT !["cmd"] = arena_mark_rewind(@, mark)]
         IN  /\ ArenasInv(next) /\ FramesInv(next, "cmd", Front(stack))
             /\ \A f \in Functions : next[f] = all[f]
             /\ arena_mark_take(next["cmd"]) = mark
<1> DEFINE k == Len(stack)
           b == arena_mark_rewind(all["cmd"], mark)
           next == [all EXCEPT !["cmd"] = arena_mark_rewind(@, mark)]
<1>0. "cmd" \in Own \cup Functions
  BY ArenaNames
<1>1. /\ stack \in Seq(Frames) /\ Last(stack) = stack[k]
      /\ (k = 1 /\ stack[k].arena = "") \/ k > 1
  <2>1. \/ k = 1 /\ stack[k].arena = "" /\ stack[k].k \in {"command", "child"}
        \/ k > 1 /\ stack[k].saved = "cmd" /\ stack[k].k # "child" /\ (stack[k].k = "command" => stack[k].arena = "cmd")
    BY TopFrame
  <2>2. stack \in Seq(Frames) /\ Last(stack) = stack[k]
    BY TopFrame
  <2> QED
    BY <2>1, <2>2
<1>2. stack[k].arena = "cmd" /\ stack[k].mark = mark /\ k > 1
  BY <1>1
<1>3. Whole(all["cmd"]) /\ StackKept(all["cmd"], stack)
  BY ArenaNames DEF ArenasInv, FramesInv
<1>4. Whole(b) /\ arena_mark_take(b) = mark /\ StackKept(b, Front(stack))
  BY <1>1, <1>2, <1>3, StackRewound
<1>5. next = [all EXCEPT !["cmd"] = b]
  OBVIOUS
<1> HIDE DEF b, next
<1>6. ArenasInv(next) /\ \A x \in Own \cup Functions : next[x] = IF x = "cmd" THEN b ELSE all[x]
  <2>1. /\ ArenasInv([all EXCEPT !["cmd"] = b])
        /\ \A x \in Own \cup Functions : [all EXCEPT !["cmd"] = b][x] = IF x = "cmd" THEN b ELSE all[x]
    BY <1>0, <1>4, ArenaReplaced
  <2> QED
    BY <1>5, <2>1
<1>7. next["cmd"] = b /\ next["script"] = all["script"] /\ \A f \in Functions : next[f] = all[f]
  BY <1>6, ArenaNames
<1>8. FramesInv(next, "cmd", Front(stack))
  BY <1>2, <1>4, <1>7, FramePopped
<1> QED
  BY <1>4, <1>6, <1>7, <1>8 DEF next

(* A frame ends above another, and the arenas stay.                        *)
LEMMA UnmarkedEnds ==
  ASSUME NEW all, NEW now, NEW stack, FramesInv(all, now, stack), Len(stack) > 1
  PROVE  FramesInv(all, "cmd", Front(stack))
<1>1. stack \in Seq(Frames) /\ stack # <<>> /\ StackKept(all["cmd"], stack)
  BY EmptySeq DEF FramesInv
<1>2. StackKept(all["cmd"], Front(stack))
  BY <1>1, StackPopped
<1> QED
  BY <1>2, FramePopped

(* The same of the frames of the shell.                                    *)
LEMMA TopOfFrames ==
  ASSUME FramesInv(arenas, current, frames), frames # <<>>
  PROVE  /\ current = "cmd"
         /\ frames \in Seq(Frames) /\ Top = frames[Len(frames)] /\ Top \in Frames
         /\ Top.arena \in {"", "cmd"}
         /\ \/ Len(frames) = 1 /\ Top.arena = "" /\ Top.k \in {"command", "child"}
            \/ Len(frames) > 1 /\ Top.saved = "cmd" /\ Top.k # "child" /\ (Top.k = "command" => Top.arena = "cmd")
<1>1. Top = frames[Len(frames)]
  BY DEF Top, Last
<1> HIDE DEF Top
<1>2. /\ current = "cmd"
      /\ frames \in Seq(Frames) /\ frames[Len(frames)] \in Frames
      /\ frames[Len(frames)].arena \in {"", "cmd"}
  BY TopFrame
<1>3. LET top == frames[Len(frames)] IN
      \/ Len(frames) = 1 /\ top.arena = "" /\ top.k \in {"command", "child"}
      \/ Len(frames) > 1 /\ top.saved = "cmd" /\ top.k # "child" /\ (top.k = "command" => top.arena = "cmd")
  BY TopFrame
<1> QED
  BY <1>1, <1>2, <1>3

(* The end of a simple command or of a text rewinds to its own mark.       *)
LEMMA EndPartInv ==
  ASSUME LifetimesInv, EndPart
  PROVE  LifetimesInv' /\ (Top.arena # "" => arena_mark_take(arenas'[Top.arena]) = Top.mark)
<1>1. ArenasInv(arenas) /\ FunctionsInv(arenas, functions) /\ FramesInv(arenas, current, frames)
  BY DEF LifetimesInv
<1>2. frames # <<>> /\ Top.k \in {"simple", "text"} /\ functions' = functions /\ frames' = Front(frames)
  BY DEF EndPart, InFrame, Pop
<1>3. /\ current = "cmd" /\ Top.arena \in {"", "cmd"}
      /\ Len(frames) > 1 /\ Top.saved = "cmd" /\ Top = frames[Len(frames)]
  BY <1>1, <1>2, TopOfFrames
<1>4. current' = "cmd"
  BY <1>3 DEF EndPart
<1>5. CASE Top.arena = "cmd"
  <2>1. arenas' = [arenas EXCEPT !["cmd"] = arena_mark_rewind(@, Top.mark)]
    BY <1>5 DEF EndPart
  <2> DEFINE next == [arenas EXCEPT !["cmd"] = arena_mark_rewind(@, Top.mark)]
  <2>2. /\ ArenasInv(next) /\ FramesInv(next, "cmd", Front(frames))
        /\ \A f \in Functions : next[f] = arenas[f]
        /\ arena_mark_take(next["cmd"]) = Top.mark
    <3>1. Last(frames).arena = "cmd" /\ Top.mark = Last(frames).mark
      BY <1>5 DEF Top
    <3> QED
      BY <1>1, <1>2, <3>1, CommandRewinds
  <2>3. arenas' = next
    BY <2>1
  <2> HIDE DEF next
  <2>4. FunctionsInv(arenas', functions)
    BY <1>1, <2>2, <2>3, FunctionsKept
  <2> QED
    BY <1>2, <1>4, <1>5, <2>2, <2>3, <2>4 DEF LifetimesInv
<1>6. CASE Top.arena = ""
  <2>1. arenas' = arenas
    BY <1>6 DEF EndPart
  <2>2. FramesInv(arenas, "cmd", Front(frames))
    BY <1>1, <1>3, <1>6, UnmarkedEnds
  <2> QED
    BY <1>1, <1>2, <1>4, <1>6, <2>1, <2>2 DEF LifetimesInv
<1> QED
  BY <1>3, <1>5, <1>6

(* The end of a command rewinds to its own mark, or clears the arenas of   *)
(* commands when nothing is around it.                                     *)
LEMMA EndCommandInv ==
  ASSUME LifetimesInv, EndCommand
  PROVE  LifetimesInv' /\ (Top.arena # "" => arena_mark_take(arenas'[Top.arena]) = Top.mark)
<1>1. ArenasInv(arenas) /\ FunctionsInv(arenas, functions) /\ FramesInv(arenas, current, frames)
  BY DEF LifetimesInv
<1>2. frames # <<>> /\ Top.k = "command" /\ functions' = functions /\ frames' = Front(frames) /\ current' = Top.saved
  BY DEF EndCommand, InFrame, Pop
<1>3. /\ frames \in Seq(Frames) /\ Top = frames[Len(frames)]
      /\ \/ Len(frames) = 1 /\ Top.arena = ""
         \/ Len(frames) > 1 /\ Top.saved = "cmd" /\ Top.arena = "cmd"
  BY <1>1, <1>2, TopOfFrames
<1>4. CASE Len(frames) > 1 /\ Top.saved = "cmd" /\ Top.arena = "cmd"
  <2>1. arenas' = [arenas EXCEPT !["cmd"] = arena_mark_rewind(@, Top.mark)]
    BY <1>4 DEF EndCommand
  <2> DEFINE next == [arenas EXCEPT !["cmd"] = arena_mark_rewind(@, Top.mark)]
  <2>2. /\ ArenasInv(next) /\ FramesInv(next, "cmd", Front(frames))
        /\ \A f \in Functions : next[f] = arenas[f]
        /\ arena_mark_take(next["cmd"]) = Top.mark
    <3>1. Last(frames).arena = "cmd" /\ Top.mark = Last(frames).mark
      BY <1>4 DEF Top
    <3> QED
      BY <1>1, <1>2, <3>1, CommandRewinds
  <2>3. arenas' = next
    BY <2>1
  <2> HIDE DEF next
  <2>4. FunctionsInv(arenas', functions)
    BY <1>1, <2>2, <2>3, FunctionsKept
  <2> QED
    BY <1>2, <1>4, <2>2, <2>3, <2>4 DEF LifetimesInv
<1>5. CASE Len(frames) = 1 /\ Top.arena = ""
  <2>1. arenas' = ClearedOf(arenas)
    BY <1>5 DEF EndCommand
  <2>2. ArenasInv(arenas') /\ \A f \in Functions : arenas'[f] = arenas[f]
    BY <1>1, <2>1, ArenasCleared
  <2>3. FunctionsInv(arenas', functions)
    BY <1>1, <2>2, FunctionsKept
  <2>4. FitsAt(1, frames[1])
    <3>1. \A i \in 1 .. Len(frames) : FitsAt(i, frames[i])
      BY <1>1 DEF FramesInv, FramesNest
    <3>2. 1 \in 1 .. Len(frames)
      <4>1. \A n : n = 1 => 1 \in 1 .. n
        OBVIOUS
      <4> QED
        BY <1>5, <4>1
    <3> QED
      BY <3>1, <3>2
  <2>5. current' = "perm"
    BY <1>2, <1>3, <1>5, <2>4 DEF FitsAt
  <2>6. Front(frames) = <<>>
    <3>1. Front(frames) \in Seq(Frames) /\ Len(Front(frames)) = Len(frames) - 1
      BY <1>2, <1>3, Popped
    <3>2. Len(Front(frames)) = 0
      <4>1. \A n : n = 1 => n - 1 = 0
        OBVIOUS
      <4> QED
        BY <1>5, <3>1, <4>1
    <3> QED
      BY <3>1, <3>2, EmptySeq
  <2>7. FramesInv(arenas', current', frames')
    BY <1>2, <2>5, <2>6, NoFrames
  <2> QED
    BY <1>2, <1>5, <2>2, <2>3, <2>7 DEF LifetimesInv
<1> QED
  BY <1>3, <1>4, <1>5

(* An arena not allocated from has grown by nothing.                       *)
LEMMA GrownSame == \A a \in Arenas : Grown(a, a)
<1> SUFFICES ASSUME NEW a \in Arenas PROVE Grown(a, a)
  OBVIOUS
<1>1. Len(a.chain) \in Nat /\ \A i \in 1 .. Len(a.chain) : a.chain[i].used \in Nat
  BY ArenaParts DEF Blocks
<1>2. Len(a.chain) <= Len(a.chain)
  BY <1>1
<1>3. \A i \in 1 .. Len(a.chain) : a.chain[i].used <= a.chain[i].used
  BY <1>1
<1> QED
  BY <1>2, <1>3 DEF Grown

(* A frame that marks cmd, or nothing, is started, and allocates nothing.  *)
LEMMA MarkedStarts ==
  ASSUME LifetimesInv, frames # <<>>,
         NEW k \in {"simple", "text", "call", "file"}, NEW arena \in {"", "cmd"},
         NEW holds \in SUBSET Addresses, \A h \in holds : h.arena # "script" /\ h.arena # "cmd"
  PROVE  FramesInv(arenas, current, Append(frames, Frame(k, arena, holds)))
<1> DEFINE mark == IF arena = "" THEN NoMark ELSE arena_mark_take(arenas["cmd"])
           frame == Frame(k, arena, holds)
<1>1. ArenasInv(arenas) /\ FunctionsInv(arenas, functions) /\ FramesInv(arenas, current, frames)
  BY DEF LifetimesInv
<1>2. current = "cmd"
  BY <1>1, TopOfFrames
<1>3. mark \in Marks
  BY <1>1, MarksType
<1>4. arena = "cmd" => mark = arena_mark_take(arenas["cmd"])
  OBVIOUS
<1>5. frame = [k |-> k, arena |-> arena, mark |-> mark, saved |-> "cmd", holds |-> holds]
  BY <1>2 DEF Frame
<1> HIDE DEF mark, frame
<1>6. frame \in Frames
  BY <1>3, <1>5 DEF Frames, Own
<1>7. StartsWell(frame, arenas, arenas)
  BY <1>4, <1>5, <1>6 DEF StartsWell
<1>8. Grown(arenas["cmd"], arenas["cmd"])
  <2>1. arenas["cmd"] \in Arenas
    BY <1>1, ArenaNames DEF ArenasInv
  <2> QED
    BY <2>1, GrownSame
<1> QED
  BY <1>1, <1>7, <1>8, FramePushed DEF frame

(* A simple command marks cmd, if cmd is in use.                           *)
LEMMA StartSimpleInv ==
  ASSUME LifetimesInv, StartSimple
  PROVE  LifetimesInv'
<1>1. ArenasInv(arenas) /\ FunctionsInv(arenas, functions) /\ FramesInv(arenas, current, frames)
  BY DEF LifetimesInv
<1>2. frames # <<>> /\ current = "cmd"
  BY <1>1, WhereRun DEF StartSimple
<1>3. frames' = Append(frames, Frame("simple", "cmd", {})) /\ UNCHANGED <<arenas, current, functions>>
  BY <1>2 DEF StartSimple, Push
<1>4. FramesInv(arenas, current, Append(frames, Frame("simple", "cmd", {})))
  BY <1>2, MarkedStarts
<1> QED
  BY <1>1, <1>3, <1>4 DEF LifetimesInv

(* A text run within a command marks the arena in use.                     *)
LEMMA StartTextInv ==
  ASSUME LifetimesInv, StartText
  PROVE  LifetimesInv'
<1>1. ArenasInv(arenas) /\ FunctionsInv(arenas, functions) /\ FramesInv(arenas, current, frames)
  BY DEF LifetimesInv
<1>2. frames # <<>> /\ current = "cmd"
  BY <1>1, WhereRun DEF StartText
<1>3. frames' = Append(frames, Frame("text", "cmd", {})) /\ UNCHANGED <<arenas, current, functions>>
  BY <1>2 DEF StartText, Push
<1>4. FramesInv(arenas, current, Append(frames, Frame("text", "cmd", {})))
  BY <1>2, MarkedStarts
<1> QED
  BY <1>1, <1>3, <1>4 DEF LifetimesInv

(* A call holds the parsed program of its function.                        *)
LEMMA CallInv ==
  ASSUME LifetimesInv, NEW f \in Functions, Call(f)
  PROVE  LifetimesInv'
<1> DEFINE holds == {functions[f].program} \ {Nowhere}
<1>1. ArenasInv(arenas) /\ FunctionsInv(arenas, functions) /\ FramesInv(arenas, current, frames)
  BY DEF LifetimesInv
<1>2. frames # <<>>
  BY DEF Call, InFrame
<1>3. frames' = Append(frames, Frame("call", "", holds)) /\ UNCHANGED <<arenas, current, functions>>
  BY DEF Call, Push
<1>4. holds \in SUBSET Addresses /\ \A h \in holds : h.arena # "script" /\ h.arena # "cmd"
  <2>1. functions[f] \in FunctionStates
    BY <1>1 DEF FunctionsInv
  <2>2. functions[f].program \in Addresses \cup {Nowhere}
    BY <2>1 DEF FunctionStates
  <2>3. functions[f].program # Nowhere => functions[f].program.arena = f
    BY <1>1 DEF FunctionsInv, CacheFits
  <2>4. f # "script" /\ f # "cmd"
    BY ArenaNames
  <2> QED
    BY <2>2, <2>3, <2>4
<1> HIDE DEF holds
<1>5. FramesInv(arenas, current, Append(frames, Frame("call", "", holds)))
  BY <1>2, <1>4, MarkedStarts
<1> QED
  BY <1>1, <1>3, <1>5 DEF LifetimesInv

(* An allocation goes behind everything that is live.                      *)
LEMMA AllocateInv ==
  ASSUME LifetimesInv, NEW n \in Sizes, Allocate(n)
  PROVE  LifetimesInv'
<1> DEFINE address == Allocated("cmd", arenas'["cmd"])
<1>1. ArenasInv(arenas) /\ FunctionsInv(arenas, functions) /\ FramesInv(arenas, current, frames) /\ n \in Nat
  BY SizesAssumption DEF LifetimesInv
<1>2. frames # <<>> /\ current = "cmd"
  BY <1>1, WhereRun DEF Allocate
<1>3. /\ arenas' = With(arenas, "cmd", n) /\ current' = current /\ functions' = functions
      /\ frames' = [frames EXCEPT ![Len(frames)].holds = @ \cup {address}]
  BY <1>2 DEF Allocate
<1>4. /\ ArenasInv(arenas') /\ Grown(arenas["cmd"], arenas'["cmd"])
      /\ arenas'["script"] = arenas["script"] /\ \A f \in Functions : arenas'[f] = arenas[f]
      /\ address \in Addresses /\ address.arena = "cmd" /\ IsLive(arenas'["cmd"], address)
  BY <1>1, <1>3, CommandAllocates
<1> HIDE DEF address
<1>5. FramesInv(arenas', current, [frames EXCEPT ![Len(frames)].holds = @ \cup {address}])
  BY <1>1, <1>2, <1>4, FrameHolds
<1>6. FunctionsInv(arenas', functions)
  BY <1>1, <1>4, FunctionsKept
<1> QED
  BY <1>3, <1>4, <1>5, <1>6 DEF LifetimesInv

(* The cache of a function is replaced: the arenas of commands stay.       *)
LEMMA CacheReplaced ==
  ASSUME NEW all, ArenasInv(all), NEW now, NEW stack, FramesInv(all, now, stack),
         NEW f \in Functions, NEW b, Whole(b)
  PROVE  LET next == [all EXCEPT ![f] = b]
         IN  /\ ArenasInv(next) /\ FramesInv(next, now, stack)
             /\ next["cmd"] = all["cmd"] /\ next["script"] = all["script"]
             /\ \A g \in Functions : next[g] = IF g = f THEN b ELSE all[g]
<1> DEFINE next == [all EXCEPT ![f] = b]
<1>1. "cmd" \in Own \cup Functions /\ "script" \in Own \cup Functions /\ f # "cmd" /\ f # "script"
  BY ArenaNames
<1>2. f \in Own \cup Functions /\ \A g \in Functions : g \in Own \cup Functions
  OBVIOUS
<1>3. ArenasInv(next) /\ \A x \in Own \cup Functions : next[x] = IF x = f THEN b ELSE all[x]
  BY <1>2, ArenaReplaced
<1> HIDE DEF next
<1>4. next["cmd"] = all["cmd"] /\ next["script"] = all["script"]
  BY <1>1, <1>3
<1>5. StackKept(next["cmd"], stack)
  BY <1>4 DEF FramesInv
<1>6. FramesInv(next, now, stack)
  BY <1>4, <1>5, FramesStay
<1> QED
  BY <1>2, <1>3, <1>4, <1>6 DEF next

(* The entry of a function is replaced along with its cache.               *)
LEMMA EntryReplaced ==
  ASSUME NEW all, NEW table, FunctionsInv(all, table),
         NEW f \in Functions, NEW entry \in FunctionStates, NEW next,
         \A g \in Functions : g # f => next[g] = all[g],
         entry.program # Nowhere => entry.program.arena = f,
         ~entry.attempted => next[f].chain = <<>>
  PROVE  FunctionsInv(next, [table EXCEPT ![f] = entry])
BY DEF FunctionsInv, CacheFits

(* Defining a function empties its cache and touches no other arena.       *)
LEMMA functions_setInv ==
  ASSUME LifetimesInv, NEW f \in Functions, functions_set(f)
  PROVE  LifetimesInv'
<1> DEFINE b == arena_reset(arenas[f])
<1>1. ArenasInv(arenas) /\ FunctionsInv(arenas, functions) /\ FramesInv(arenas, current, frames)
  BY DEF LifetimesInv
<1>2. /\ arenas' = [arenas EXCEPT ![f] = b] /\ functions' = [functions EXCEPT ![f] = Unparsed]
      /\ UNCHANGED <<current, frames>>
  BY DEF functions_set
<1>3. Whole(b) /\ b.chain = <<>>
  BY <1>1, ResetKeeps DEF ArenasInv
<1> HIDE DEF b
<1>4. /\ ArenasInv(arenas') /\ FramesInv(arenas', current, frames)
      /\ \A g \in Functions : arenas'[g] = IF g = f THEN b ELSE arenas[g]
  <2> DEFINE next == [arenas EXCEPT ![f] = b]
  <2>1. /\ ArenasInv(next) /\ FramesInv(next, current, frames)
        /\ \A g \in Functions : next[g] = IF g = f THEN b ELSE arenas[g]
    BY <1>1, <1>3, CacheReplaced
  <2>2. arenas' = next
    BY <1>2
  <2> HIDE DEF next
  <2> QED
    BY <2>1, <2>2
<1>5. Unparsed \in FunctionStates /\ Unparsed.program = Nowhere
  BY DEF Unparsed, FunctionStates
<1>6. FunctionsInv(arenas', functions')
  BY <1>1, <1>2, <1>3, <1>4, <1>5, EntryReplaced
<1> QED
  BY <1>2, <1>4, <1>6 DEF LifetimesInv

(* Removing a function frees its cache and touches no other arena.         *)
LEMMA functions_removeInv ==
  ASSUME LifetimesInv, NEW f \in Functions, functions_remove(f)
  PROVE  LifetimesInv'
<1>1. ArenasInv(arenas) /\ FunctionsInv(arenas, functions) /\ FramesInv(arenas, current, frames)
  BY DEF LifetimesInv
<1>2. /\ arenas' = [arenas EXCEPT ![f] = NoBlocks] /\ functions' = [functions EXCEPT ![f] = Absent]
      /\ UNCHANGED <<current, frames>>
  BY DEF functions_remove
<1>3. Whole(NoBlocks) /\ NoBlocks.chain = <<>>
  BY NoBlocksIsWhole DEF NoBlocks
<1>4. /\ ArenasInv(arenas') /\ FramesInv(arenas', current, frames)
      /\ \A g \in Functions : arenas'[g] = IF g = f THEN NoBlocks ELSE arenas[g]
  <2> DEFINE next == [arenas EXCEPT ![f] = NoBlocks]
  <2>1. /\ ArenasInv(next) /\ FramesInv(next, current, frames)
        /\ \A g \in Functions : next[g] = IF g = f THEN NoBlocks ELSE arenas[g]
    BY <1>1, <1>3, CacheReplaced
  <2>2. arenas' = next
    BY <1>2
  <2> HIDE DEF next
  <2> QED
    BY <2>1, <2>2
<1>5. Absent \in FunctionStates /\ Absent.program = Nowhere
  BY DEF Absent, FunctionStates
<1>6. FunctionsInv(arenas', functions')
  BY <1>1, <1>2, <1>3, <1>4, <1>5, EntryReplaced
<1> QED
  BY <1>2, <1>4, <1>6 DEF LifetimesInv

(* The first call parses the stored text into the function's arena.        *)
LEMMA FirstCallInv ==
  ASSUME LifetimesInv, NEW f \in Functions, NEW n \in Sizes, NEW parsed \in BOOLEAN, FirstCall(f, n, parsed)
  PROVE  LifetimesInv'
<1> DEFINE grown == arena_alloc_in(arenas[f], n)
           b == IF parsed THEN grown ELSE arena_reset(grown)
           program == IF parsed THEN Allocated(f, grown) ELSE Nowhere
           entry == [set |-> TRUE, attempted |-> TRUE, program |-> program]
           holds == {program} \ {Nowhere}
<1>1. ArenasInv(arenas) /\ FunctionsInv(arenas, functions) /\ FramesInv(arenas, current, frames) /\ n \in Nat
  BY SizesAssumption DEF LifetimesInv
<1>2. frames # <<>> /\ f \in Own \cup Functions /\ f # "script" /\ f # "cmd"
  BY ArenaNames DEF FirstCall, InFrame
<1>3. Whole(grown) /\ Allocated(f, grown) \in Addresses /\ Allocated(f, grown).arena = f
  <2>1. With(arenas, f, n)[f] = grown
    BY <1>1, <1>2 DEF With, ArenasInv
  <2>2. /\ Whole(With(arenas, f, n)[f])
        /\ Allocated(f, With(arenas, f, n)[f]) \in Addresses
        /\ Allocated(f, With(arenas, f, n)[f]).arena = f
    BY <1>1, <1>2, ArenaAllocates
  <2> HIDE DEF grown
  <2> QED
    BY <2>1, <2>2
<1>4. arenas' = [arenas EXCEPT ![f] = b] /\ current' = current
  BY DEF FirstCall, CacheArena, AfterParsing
<1>5. functions' = [functions EXCEPT ![f] = entry]
  <2>1. f \in DOMAIN arenas
    BY <1>1, <1>2 DEF ArenasInv
  <2>2. parsed => arenas'[f] = grown
    BY <1>4, <2>1
  <2>3. functions' = [functions EXCEPT ![f] =
          [set |-> TRUE, attempted |-> TRUE,
           program |-> IF parsed THEN Allocated(f, arenas'[f]) ELSE Nowhere]]
    BY DEF FirstCall, CacheArena
  <2>4. program = IF parsed THEN Allocated(f, arenas'[f]) ELSE Nowhere
    BY <2>2
  <2> HIDE DEF program, grown
  <2> QED
    BY <2>3, <2>4
<1> HIDE DEF grown
<1>6. Whole(b) /\ program \in Addresses \cup {Nowhere} /\ (program # Nowhere => program.arena = f)
  BY <1>3, ResetKeeps
<1> HIDE DEF b, program
<1>7. frames' = Append(frames, Frame("call", "", holds))
  <2>1. functions'[f].program = program
    BY <1>1, <1>5 DEF FunctionsInv
  <2>2. frames' = Append(frames, Frame("call", "", {functions'[f].program} \ {Nowhere}))
    BY DEF FirstCall, Push
  <2> QED
    BY <2>1, <2>2
<1>8. holds \in SUBSET Addresses /\ \A h \in holds : h.arena # "script" /\ h.arena # "cmd"
  BY <1>2, <1>6
<1> HIDE DEF holds
<1>9. FramesInv(arenas, current, frames')
  BY <1>2, <1>7, <1>8, MarkedStarts
<1>10. /\ ArenasInv(arenas') /\ FramesInv(arenas', current, frames')
       /\ \A g \in Functions : arenas'[g] = IF g = f THEN b ELSE arenas[g]
  <2> DEFINE next == [arenas EXCEPT ![f] = b]
  <2>1. /\ ArenasInv(next) /\ FramesInv(next, current, frames')
        /\ \A g \in Functions : next[g] = IF g = f THEN b ELSE arenas[g]
    BY <1>1, <1>6, <1>9, CacheReplaced
  <2>2. arenas' = next
    BY <1>4
  <2> HIDE DEF next
  <2> QED
    BY <2>1, <2>2
<1>11. entry \in FunctionStates /\ entry.program = program /\ entry.attempted
  BY <1>6 DEF FunctionStates
<1> HIDE DEF entry
<1>12. FunctionsInv(arenas', functions')
  BY <1>1, <1>5, <1>6, <1>10, <1>11, EntryReplaced
<1> QED
  BY <1>4, <1>10, <1>12 DEF LifetimesInv

(* A call or a file ends: nothing was marked.                              *)
LEMMA FrameEndsInv ==
  ASSUME LifetimesInv, Return \/ EndFile
  PROVE  LifetimesInv'
<1>1. ArenasInv(arenas) /\ FunctionsInv(arenas, functions) /\ FramesInv(arenas, current, frames)
  BY DEF LifetimesInv
<1>2. /\ frames # <<>> /\ Top.k \in {"call", "file"}
      /\ frames' = Front(frames) /\ UNCHANGED <<arenas, current, functions>>
  BY DEF Return, EndFile, InFrame, Pop
<1>3. current = "cmd" /\ Len(frames) > 1
  BY <1>1, <1>2, TopOfFrames
<1>4. FramesInv(arenas, "cmd", Front(frames))
  BY <1>1, <1>3, UnmarkedEnds
<1> QED
  BY <1>1, <1>2, <1>3, <1>4 DEF LifetimesInv

(* dot holds the path it has expanded while it reads the file.             *)
LEMMA DotInv ==
  ASSUME LifetimesInv, NEW n \in Sizes, Dot(n)
  PROVE  LifetimesInv'
<1> DEFINE address == Allocated("cmd", arenas'["cmd"])
           frame == Frame("file", "", {address})
<1>1. ArenasInv(arenas) /\ FunctionsInv(arenas, functions) /\ FramesInv(arenas, current, frames) /\ n \in Nat
  BY SizesAssumption DEF LifetimesInv
<1>2. frames # <<>> /\ current = "cmd"
  BY <1>1, WhereRun DEF Dot
<1>3. arenas' = With(arenas, "cmd", n) /\ current' = current /\ frames' = Append(frames, frame) /\ functions' = functions
  BY <1>2 DEF Dot, Push
<1>4. /\ ArenasInv(arenas') /\ Grown(arenas["cmd"], arenas'["cmd"])
      /\ arenas'["script"] = arenas["script"] /\ \A f \in Functions : arenas'[f] = arenas[f]
      /\ address \in Addresses /\ address.arena = "cmd" /\ IsLive(arenas'["cmd"], address)
  BY <1>1, <1>3, CommandAllocates
<1>5. frame = [k |-> "file", arena |-> "", mark |-> NoMark, saved |-> "cmd", holds |-> {address}]
  BY <1>2 DEF Frame
<1> HIDE DEF address, frame
<1>6. StartsWell(frame, arenas, arenas')
  <2>1. NoMark \in Marks /\ {address} \in SUBSET Addresses
    BY <1>1, <1>4, MarksType
  <2>2. frame \in Frames
    BY <1>5, <2>1 DEF Frames
  <2> QED
    BY <1>4, <1>5, <2>2 DEF StartsWell
<1>7. FramesInv(arenas', current, frames')
  BY <1>1, <1>2, <1>3, <1>4, <1>6, FramePushed
<1>8. FunctionsInv(arenas', functions)
  BY <1>1, <1>4, FunctionsKept
<1> QED
  BY <1>3, <1>4, <1>7, <1>8 DEF LifetimesInv

(* A preview for the prompt is rewound before anything uses it.            *)
LEMMA PreviewInv ==
  ASSUME LifetimesInv, NEW n \in Sizes, Preview(n)
  PROVE  LifetimesInv'
<1>1. ArenasInv(arenas) /\ FunctionsInv(arenas, functions) /\ FramesInv(arenas, current, frames) /\ n \in Nat
  BY SizesAssumption DEF LifetimesInv
<1>2. UNCHANGED <<current, functions, frames>>
  BY DEF Preview
<1>3. ArenasInv(arenas') /\ FramesInv(arenas', current, frames) /\ \A f \in Functions : arenas'[f] = arenas[f]
  <2>1. CASE current = "cmd"
    <3>1. arenas' = With(arenas, "cmd", n)
      BY <2>1 DEF Preview, With
    <3>2. /\ ArenasInv(arenas') /\ Grown(arenas["cmd"], arenas'["cmd"])
          /\ arenas'["script"] = arenas["script"] /\ \A f \in Functions : arenas'[f] = arenas[f]
      BY <1>1, <3>1, CommandAllocates
    <3>3. arenas["cmd"] \in Arenas /\ arenas'["cmd"] \in Arenas
      BY <1>1, <3>2, ArenaNames DEF ArenasInv
    <3>4. frames \in Seq(Frames) /\ StackKept(arenas["cmd"], frames)
      BY <1>1 DEF FramesInv
    <3>5. StackKept(arenas'["cmd"], frames)
      BY <3>2, <3>3, <3>4, StackGrows
    <3> QED
      BY <1>1, <3>2, <3>5, FramesStay
  <2>2. CASE current # "cmd"
    <3> DEFINE next == [arenas EXCEPT !["cmd"] = arena_mark_rewind(arena_alloc_in(@, n), arena_mark_take(@))]
    <3>1. ArenasInv(next) /\ FramesInv(next, current, frames) /\ \A f \in Functions : next[f] = arenas[f]
      BY <1>1, CommandBorrows
    <3>2. arenas' = next
      BY <2>2 DEF Preview
    <3> HIDE DEF next
    <3> QED
      BY <3>1, <3>2
  <2> QED
    BY <2>1, <2>2
<1>4. FunctionsInv(arenas', functions)
  BY <1>1, <1>3, FunctionsKept
<1> QED
  BY <1>2, <1>3, <1>4 DEF LifetimesInv

(* The arenas of a child.                                                  *)
LEMMA FreshArenas ==
  ASSUME ArenasInv(arenas)
  PROVE  ArenasInv(Fresh) /\ \A f \in Functions : Fresh[f] = arenas[f]
<1>1. Whole(NoBlocks) /\ NoBlocks \in Arenas
  BY NoBlocksIsWhole DEF Whole
<1>2. DOMAIN arenas = Own \cup Functions /\ \A a \in Own \cup Functions : arenas[a] \in Arenas /\ Whole(arenas[a])
  BY DEF ArenasInv
<1>3. \A a \in Own \cup Functions : Fresh[a] = IF a \in Own THEN NoBlocks ELSE arenas[a]
  BY <1>2 DEF Fresh
<1>4. Fresh \in [Own \cup Functions -> Arenas]
  BY <1>1, <1>2 DEF Fresh
<1> QED
  BY <1>1, <1>2, <1>3, <1>4, ArenaNames DEF ArenasInv

(* The child of a substitution starts with empty arenas of commands and no *)
(* frames.                                                                 *)
LEMMA SubstitutionChildInv ==
  ASSUME LifetimesInv, SubstitutionChild
  PROVE  LifetimesInv'
<1>1. ArenasInv(arenas) /\ FunctionsInv(arenas, functions)
  BY DEF LifetimesInv
<1>2. arenas' = Fresh /\ current' = "perm" /\ frames' = <<>> /\ functions' = functions
  BY DEF SubstitutionChild
<1>3. ArenasInv(arenas') /\ \A f \in Functions : arenas'[f] = arenas[f]
  BY <1>1, <1>2, FreshArenas
<1>4. FunctionsInv(arenas', functions')
  BY <1>1, <1>2, <1>3, FunctionsKept
<1>5. FramesInv(arenas', current', frames')
  BY <1>2, NoFrames
<1> QED
  BY <1>3, <1>4, <1>5 DEF LifetimesInv

(* A child given a part of the program drops the arenas of commands and    *)
(* all frames; it keeps what it holds of functions.                        *)
LEMMA PayloadChildInv ==
  ASSUME LifetimesInv, PayloadChild
  PROVE  LifetimesInv'
<1> DEFINE holds == {h \in Top.holds : h.arena \in Functions}
           plain == Frame("child", "", holds)
           frame == [plain EXCEPT !.saved = "cmd"]
<1>1. ArenasInv(arenas) /\ FunctionsInv(arenas, functions) /\ FramesInv(arenas, current, frames)
  BY DEF LifetimesInv
<1>2. frames # <<>> /\ current = "cmd"
  BY <1>1, WhereRun DEF PayloadChild
<1>3. arenas' = Fresh /\ current' = "cmd" /\ frames' = <<frame>> /\ functions' = functions
  BY DEF PayloadChild
<1>4. ArenasInv(arenas') /\ \A f \in Functions : arenas'[f] = arenas[f]
  BY <1>1, <1>3, FreshArenas
<1>5. FunctionsInv(arenas', functions')
  BY <1>1, <1>3, <1>4, FunctionsKept
<1>6. holds \in SUBSET Addresses /\ \A h \in holds : h.arena # "cmd" /\ h.arena # "script"
  <2>1. Top \in Frames
    BY <1>1, <1>2, TopOfFrames
  <2>2. Top.holds \in SUBSET Addresses
    BY <2>1 DEF Frames
  <2> QED
    BY <2>2, ArenaNames
<1> HIDE DEF holds
<1>7. plain = [k |-> "child", arena |-> "", mark |-> NoMark, saved |-> "cmd", holds |-> holds]
  BY <1>2 DEF Frame
<1>8. plain \in Frames /\ plain.k = "child" /\ plain.arena = "" /\ plain.holds = holds
  <2> HIDE DEF plain
  <2>1. NoMark \in Marks
    BY <1>1, MarksType
  <2>2. plain \in Frames
    BY <1>6, <1>7, <2>1 DEF Frames
  <2> QED
    BY <1>7, <2>2
<1> HIDE DEF plain
<1>9. frame \in Frames /\ frame.k = "child" /\ frame.arena = "" /\ frame.holds = holds
  BY <1>8 DEF Frames
<1> HIDE DEF frame
<1>10. FitsAt(1, frame)
  BY <1>9 DEF FitsAt
<1>11. FramesInv(arenas', "cmd", <<frame>>)
  BY <1>6, <1>9, <1>10, OnlyFrame
<1> QED
  BY <1>3, <1>4, <1>5, <1>11 DEF LifetimesInv

-----------------------------------------------------------------------------
(* Every step keeps the invariant.                                         *)
LEMMA StepInv == LifetimesInv /\ [Next]_vars => LifetimesInv'
<1> SUFFICES ASSUME LifetimesInv, [Next]_vars PROVE LifetimesInv'
  OBVIOUS
<1>1. CASE UNCHANGED vars
  <2>1. LifetimesInv' = LifetimesInv
    BY <1>1 DEF vars, LifetimesInv
  <2> QED
    BY <2>1
<1>2. ASSUME NEW n \in Sizes,
             \/ StartTop(n) \/ StartNested(n) \/ RefuseTop(n) \/ RefuseNested(n)
             \/ Allocate(n) \/ Dot(n) \/ Preview(n)
      PROVE  LifetimesInv'
  BY <1>2, StartTopInv, StartNestedInv, RefuseTopInv, RefuseNestedInv, AllocateInv, DotInv, PreviewInv
<1>3. CASE EndCommand \/ StartSimple \/ StartText \/ EndPart
  BY <1>3, EndCommandInv, StartSimpleInv, StartTextInv, EndPartInv
<1>4. ASSUME NEW f \in Functions,
             \/ functions_set(f) \/ functions_remove(f) \/ Call(f)
             \/ \E n \in Sizes, parsed \in BOOLEAN : FirstCall(f, n, parsed)
      PROVE  LifetimesInv'
  BY <1>4, functions_setInv, functions_removeInv, CallInv, FirstCallInv
<1>5. CASE Return \/ EndFile \/ SubstitutionChild \/ PayloadChild
  BY <1>5, FrameEndsInv, SubstitutionChildInv, PayloadChildInv
<1> QED
  BY <1>1, <1>2, <1>3, <1>4, <1>5 DEF Next

(* The invariant holds in every state.                                     *)
LEMMA InvHolds == Spec => []LifetimesInv
<1> QED
  BY InitInv, StepInv, PTL DEF Spec

(* Every variable has its type: the arenas are made of blocks, the frames  *)
(* hold addresses in them, and current is that of the process or cmd.      *)
THEOREM TypeCorrect == Spec => []TypeOK
<1>1. LifetimesInv => TypeOK
  <2> SUFFICES ASSUME LifetimesInv PROVE TypeOK
    OBVIOUS
  <2>1. arenas \in [Own \cup Functions -> Arenas] /\ functions \in [Functions -> FunctionStates]
    BY DEF LifetimesInv, ArenasInv, FunctionsInv
  <2>2. frames \in Seq(Frames) /\ current \in {"perm", "cmd"}
    BY WhereRun DEF LifetimesInv, FramesInv
  <2> QED
    BY <2>1, <2>2 DEF TypeOK
<1> QED
  BY <1>1, InvHolds, PTL

(* What a frame goes on using of script and cmd has not been released, and *)
(* no block is at two places, whatever is nested in the frame.             *)
THEOREM UsedStaysLive == Spec => []UsedIsLive
<1>1. LifetimesInv => UsedIsLive
  <2> SUFFICES ASSUME LifetimesInv PROVE UsedIsLive
    OBVIOUS
  <2>1. ArenasInv(arenas) /\ FramesInv(arenas, current, frames)
    BY DEF LifetimesInv
  <2>2. \A a \in DOMAIN arenas : Intact(arenas[a])
    BY <2>1, WholeIsIntact DEF ArenasInv
  <2>3. frames \in Seq(Frames) /\ DOMAIN frames = 1 .. Len(frames)
    BY <2>1, LenProperties DEF FramesInv
  <2>4. ASSUME NEW i \in 1 .. Len(frames), NEW h \in frames[i].holds, h.arena \in Own
        PROVE  IsLive(arenas[h.arena], h)
    <3>1. CASE h.arena = "script"
      BY <2>1, <3>1 DEF FramesInv, ScriptIsLive
    <3>2. CASE h.arena = "cmd"
      <4>1. frames[i] \in Frames
        BY <2>3, ElementOfSeq
      <4>2. [block |-> h.block, end |-> h.end] \in Spots(frames[i])
        BY <3>2, <4>1, SpotsType
      <4>3. IsLive(arenas["cmd"], [block |-> h.block, end |-> h.end])
        BY <2>1, <4>2 DEF FramesInv, StackKept
      <4> QED
        BY <3>2, <4>3 DEF IsLive
    <3> QED
      BY <2>4, <3>1, <3>2 DEF Own
  <2> QED
    BY <2>2, <2>3, <2>4 DEF UsedIsLive
<1> QED
  BY <1>1, InvHolds, PTL

(* The end of a command, of a simple command or of a text leaves the arena *)
(* it has marked as it has found it (arena_mark_rewind at the ends of      *)
(* shell_run_command, simple_command_execute_parts and of texts).          *)
THEOREM EndsRestoreMarks == Spec => MarksAreRestored
<1> DEFINE Restores == (EndCommand \/ EndPart) /\ Top.arena # "" => arena_mark_take(arenas'[Top.arena]) = Top.mark
<1>1. LifetimesInv /\ [Next]_vars => [Restores]_vars
  BY EndCommandInv, EndPartInv
<1> QED
  BY <1>1, InvHolds, PTL DEF Spec, MarksAreRestored

(* Which steps touch the cache of a function.                              *)
LEMMA CachesStay ==
  ASSUME LifetimesInv, [Next]_vars, NEW f \in Functions
  PROVE  \/ arenas'[f] = arenas[f]
         \/ functions_set(f) \/ functions_remove(f)
         \/ \E n \in Sizes, parsed \in BOOLEAN : FirstCall(f, n, parsed)
<1>1. ArenasInv(arenas) /\ FramesInv(arenas, current, frames)
  BY DEF LifetimesInv
<1>2. /\ current \in {"perm", "cmd"} /\ f \in Own \cup Functions /\ f \notin Own
      /\ f # "perm" /\ f # "cmd" /\ f # "script" /\ f # ""
      /\ frames # <<>> => Top.arena \in {"", "cmd"}
  BY <1>1, WhereRun, TopOfFrames, ArenaNames
<1>3. DOMAIN arenas = Own \cup Functions
  BY <1>1 DEF ArenasInv
<1>4. \A all, a, b : f # a => [all EXCEPT ![a] = b][f] = all[f]
  OBVIOUS
<1>5. \A all : DOMAIN all = Own \cup Functions => ClearedOf(all)[f] = all[f] /\ DOMAIN ClearedOf(all) = Own \cup Functions
  BY <1>2 DEF ClearedOf
<1>6. \A all, a, n : a # f => With(all, a, n)[f] = all[f] /\ DOMAIN With(all, a, n) = DOMAIN all
  BY DEF With
<1>7. current # f
  BY <1>2
<1>8. Fresh[f] = arenas[f]
  BY <1>2, <1>3 DEF Fresh
<1>9. CASE UNCHANGED vars
  BY <1>9 DEF vars
<1>10. ASSUME NEW n \in Sizes, StartTop(n) \/ RefuseTop(n)
       PROVE  arenas'[f] = arenas[f]
  <2> DEFINE cleared == ClearedOf(arenas)
             parsed == With(cleared, "script", n)
  <2>1. cleared[f] = arenas[f] /\ DOMAIN cleared = Own \cup Functions
    BY <1>3, <1>5
  <2>2. arenas' = parsed \/ arenas' = ClearedOf(parsed)
    BY <1>10 DEF StartTop, RefuseTop
  <2> HIDE DEF cleared
  <2>3. parsed[f] = arenas[f] /\ DOMAIN parsed = Own \cup Functions
    BY <1>2, <1>6, <2>1
  <2> HIDE DEF parsed
  <2>4. ClearedOf(parsed)[f] = arenas[f]
    BY <1>5, <2>3
  <2> QED
    BY <2>2, <2>3, <2>4
<1>11. ASSUME NEW n \in Sizes, StartNested(n) \/ Allocate(n) \/ Dot(n)
       PROVE  arenas'[f] = arenas[f]
  <2>1. arenas' = With(arenas, current, n)
    BY <1>11 DEF StartNested, Allocate, Dot
  <2> QED
    BY <1>6, <1>7, <2>1
<1>12. ASSUME NEW n \in Sizes, RefuseNested(n) \/ Preview(n)
       PROVE  arenas'[f] = arenas[f]
  <2>1. CASE RefuseNested(n)
    <3> DEFINE b == arena_mark_rewind(arena_alloc_in(arenas[current], n), arena_mark_take(arenas[current]))
    <3>1. arenas' = [arenas EXCEPT ![current] = b]
      BY <2>1 DEF RefuseNested
    <3> HIDE DEF b
    <3> QED
      BY <1>4, <1>7, <3>1
  <2>2. CASE Preview(n)
    <3> DEFINE grown == arena_alloc_in(arenas["cmd"], n)
               b == IF current = "cmd" THEN grown ELSE arena_mark_rewind(grown, arena_mark_take(arenas["cmd"]))
    <3>1. arenas' = [arenas EXCEPT !["cmd"] = b]
      BY <2>2 DEF Preview
    <3> HIDE DEF b
    <3> QED
      BY <1>2, <1>4, <3>1
  <2> QED
    BY <1>12, <2>1, <2>2
<1>13. CASE EndCommand \/ EndPart
  <2>1. frames # <<>> /\ Top.arena # f
    BY <1>2, <1>13 DEF EndCommand, EndPart, InFrame
  <2> QED
    BY <1>3, <1>4, <1>5, <1>13, <2>1 DEF EndCommand, EndPart
<1>14. CASE StartSimple \/ StartText \/ Return \/ EndFile \/ \E g \in Functions : Call(g)
  BY <1>14 DEF StartSimple, StartText, Return, EndFile, Call
<1>15. CASE SubstitutionChild \/ PayloadChild
  BY <1>8, <1>15 DEF SubstitutionChild, PayloadChild
<1>16. ASSUME NEW g \in Functions, g # f,
              \/ functions_set(g) \/ functions_remove(g)
              \/ \E n \in Sizes, parsed \in BOOLEAN : FirstCall(g, n, parsed)
       PROVE  arenas'[f] = arenas[f]
  <2>1. CASE functions_set(g)
    BY <1>4, <1>16, <2>1 DEF functions_set
  <2>2. CASE functions_remove(g)
    BY <1>4, <1>16, <2>2 DEF functions_remove
  <2>3. ASSUME NEW n \in Sizes, NEW parsed \in BOOLEAN, FirstCall(g, n, parsed)
        PROVE  arenas'[f] = arenas[f]
    <3> DEFINE grown == arena_alloc_in(arenas[g], n)
               b == IF parsed THEN grown ELSE arena_reset(grown)
    <3>1. arenas' = [arenas EXCEPT ![g] = b]
      BY <2>3 DEF FirstCall, CacheArena
    <3> HIDE DEF b
    <3> QED
      BY <1>4, <1>16, <3>1
  <2> QED
    BY <1>16, <2>1, <2>2, <2>3
<1> QED
  BY <1>9, <1>10, <1>11, <1>12, <1>13, <1>14, <1>15, <1>16 DEF Next

(* The parsed program of a function, in the table or run by frames, goes   *)
(* on being live unless this function is defined again or removed          *)
(* (functions.c:155, 183).                                                 *)
THEOREM ProgramsStayLive == Spec => ProgramsLast
<1> DEFINE Lasts ==
      \A f \in Functions : functions'[f] = functions[f] =>
        \A p \in ProgramsOf(f) : IsLive(arenas[p.arena], p) => IsLive(arenas'[p.arena], p)
<1>1. LifetimesInv /\ [Next]_vars => [Lasts]_vars
  <2> SUFFICES ASSUME LifetimesInv, [Next]_vars,
                      NEW f \in Functions, functions'[f] = functions[f],
                      NEW p \in ProgramsOf(f), IsLive(arenas[p.arena], p)
               PROVE  IsLive(arenas'[p.arena], p)
    OBVIOUS
  <2>1. FunctionsInv(arenas, functions) /\ functions \in [Functions -> FunctionStates]
    BY DEF LifetimesInv, FunctionsInv
  <2>2. p.arena = f
    BY <2>1 DEF ProgramsOf, FunctionsInv, CacheFits
  <2>3. functions[f].attempted
    <3>1. ~functions[f].attempted => arenas[f].chain = <<>>
      BY <2>1 DEF FunctionsInv, CacheFits
    <3>2. arenas[f].chain # <<>>
      BY <2>2 DEF IsLive
    <3> QED
      BY <3>1, <3>2
  <2>4. ~functions_set(f) /\ ~functions_remove(f)
    BY <2>1, <2>3 DEF functions_set, functions_remove, Unparsed, Absent
  <2>5. ~ \E n \in Sizes, parsed \in BOOLEAN : FirstCall(f, n, parsed)
    BY <2>3 DEF FirstCall
  <2>6. arenas'[f] = arenas[f]
    BY <2>4, <2>5, CachesStay
  <2> QED
    BY <2>2, <2>6
<1> QED
  BY <1>1, InvHolds, PTL DEF Spec, ProgramsLast
=============================================================================
