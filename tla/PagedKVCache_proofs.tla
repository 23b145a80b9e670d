------------------------ MODULE PagedKVCache_proofs ------------------------
(***************************************************************************)
(* Proofs about the block allocator, for every pool size and every set of  *)
(* owners, and about the paged cache on top of it, for any requests,       *)
(* prompts, block size and bound of the prefix cache. The lemmas are about *)
(* the operators, so that those of the allocator hold wherever the cache   *)
(* calls it.                                                               *)
(***************************************************************************)
EXTENDS BlockAllocator, PagedKVCache, FiniteSetTheorems, SequenceTheorems,
        WellFoundedInduction, TLAPS

-----------------------------------------------------------------------------
(* The allocator.                                                          *)

PoolSound(a) == a \in AllocatorType /\ Exact(a)

PoolInv == PoolSound(alloc)

-----------------------------------------------------------------------------
(* __init__ leaves every block free, each listed once.                     *)
LEMMA InitSound == PoolSound(InitAllocator)
<1> DEFINE a == InitAllocator
<1>1. a \in AllocatorType
  BY NumBlocksAssumption DEF InitAllocator, AllocatorType, Blocks
<1>2. Len(a.free) = NumBlocks /\ \A i \in 1 .. NumBlocks : a.free[i] = i - 1
  BY NumBlocksAssumption DEF InitAllocator
<1>3. NoRepeat(a.free)
  BY <1>2, NumBlocksAssumption DEF NoRepeat
<1>4. ASSUME NEW b \in Blocks
      PROVE  a.owner[b] = NoOwner /\ \E i \in 1 .. Len(a.free) : a.free[i] = b
  <2>1. b + 1 \in 1 .. Len(a.free) /\ a.free[b + 1] = b
    BY <1>2, NumBlocksAssumption DEF Blocks
  <2> QED BY <2>1 DEF InitAllocator
<1> QED BY <1>1, <1>3, <1>4 DEF PoolSound, Exact

(* allocate(), which only happens when the blocks suffice, keeps the free  *)
(* list exact: what it pops gets an owner, and nothing else changes.       *)
LEMMA AllocateSound ==
  ASSUME NEW a, PoolSound(a), NEW o \in Owners, NEW n \in Nat, CanSatisfy(a, n)
  PROVE  PoolSound(AfterAllocate(a, o, n))
<1> DEFINE c == AfterAllocate(a, o, n)
           m == Len(a.free) - n
<1>1. a.free \in Seq(Blocks) /\ a.owner \in [Blocks -> Owners \cup {NoOwner}]
  BY DEF PoolSound, AllocatorType
<1>2. m \in Nat /\ m <= Len(a.free)
  BY <1>1 DEF CanSatisfy
<1>3. c.free = [i \in 1 .. m |-> a.free[i]] /\ c.free \in Seq(Blocks) /\ Len(c.free) = m
  BY <1>1, <1>2 DEF AfterAllocate
<1>4. c.owner = [b \in Blocks |->
        IF \E i \in 1 .. n : Popped(a.free, n)[i] = b THEN o ELSE a.owner[b]]
  BY DEF AfterAllocate
<1>5. c \in AllocatorType
  BY <1>1, <1>3, <1>4 DEF AfterAllocate, AllocatorType
<1>6. NoRepeat(c.free)
  <2> SUFFICES ASSUME NEW i \in 1 .. m, NEW j \in 1 .. m, c.free[i] = c.free[j]
               PROVE  i = j
    BY <1>3 DEF NoRepeat
  <2>1. a.free[i] = a.free[j] /\ i \in 1 .. Len(a.free) /\ j \in 1 .. Len(a.free)
    BY <1>1, <1>2, <1>3
  <2> QED BY <2>1 DEF PoolSound, Exact, NoRepeat
<1>7. ASSUME NEW b \in Blocks
      PROVE  (\E i \in 1 .. n : Popped(a.free, n)[i] = b)
               <=> \E k \in m + 1 .. Len(a.free) : a.free[k] = b
  <2>1. \A i \in 1 .. n : Popped(a.free, n)[i] = a.free[Len(a.free) + 1 - i]
    BY DEF Popped
  <2>2. \A i \in 1 .. n : Len(a.free) + 1 - i \in m + 1 .. Len(a.free)
    BY <1>1, <1>2
  <2>3. \A k \in m + 1 .. Len(a.free) :
          Len(a.free) + 1 - k \in 1 .. n /\ Len(a.free) + 1 - (Len(a.free) + 1 - k) = k
    BY <1>1, <1>2
  <2> QED BY <2>1, <2>2, <2>3
<1>8. ASSUME NEW b \in Blocks
      PROVE  c.owner[b] = NoOwner <=> \E i \in 1 .. Len(c.free) : c.free[i] = b
  <2>1. CASE \E i \in 1 .. n : Popped(a.free, n)[i] = b
    <3>1. c.owner[b] # NoOwner
      BY <1>4, <2>1, NoOwnerAssumption
    <3>2. PICK k \in m + 1 .. Len(a.free) : a.free[k] = b
      BY <1>7, <2>1
    <3>3. \A i \in 1 .. m : a.free[i] # b
      BY <1>1, <1>2, <3>2 DEF PoolSound, Exact, NoRepeat
    <3> QED BY <1>3, <3>1, <3>3
  <2>2. CASE ~\E i \in 1 .. n : Popped(a.free, n)[i] = b
    <3>1. c.owner[b] = a.owner[b]
      BY <1>4, <2>2
    <3>2. (\E i \in 1 .. Len(a.free) : a.free[i] = b) <=> \E i \in 1 .. m : a.free[i] = b
      BY <1>1, <1>2, <1>7, <2>2
    <3> QED BY <1>3, <3>1, <3>2 DEF PoolSound, Exact
  <2> QED BY <2>1, <2>2
<1> QED BY <1>5, <1>6, <1>8 DEF PoolSound, Exact

(* free(), which checks that the blocks are distinct and have the owner,   *)
(* keeps the free list exact: no block gets into it a second time.         *)
LEMMA FreeSound ==
  ASSUME NEW a, PoolSound(a), NEW o \in Owners, NEW s \in Seq(Blocks), MayFree(a, s, o)
  PROVE  PoolSound(AfterFree(a, s))
<1> DEFINE c == AfterFree(a, s)
           L == Len(a.free)
<1>1. a.free \in Seq(Blocks) /\ a.owner \in [Blocks -> Owners \cup {NoOwner}] /\ L \in Nat
  BY DEF PoolSound, AllocatorType
<1>2. c.free = a.free \o s /\ c.free \in Seq(Blocks) /\ Len(c.free) = L + Len(s)
  BY <1>1 DEF AfterFree
<1>3. c.owner = [b \in Blocks |->
        IF \E i \in 1 .. Len(s) : s[i] = b THEN NoOwner ELSE a.owner[b]]
  BY DEF AfterFree
<1>4. c \in AllocatorType
  BY <1>1, <1>2, <1>3 DEF AfterFree, AllocatorType
<1>5. \A i \in 1 .. L : c.free[i] = a.free[i]
  BY <1>1, <1>2
<1>6. \A i \in L + 1 .. L + Len(s) : c.free[i] = s[i - L] /\ i - L \in 1 .. Len(s)
  BY <1>1, <1>2
<1>7. \A i \in 1 .. L, j \in 1 .. Len(s) : a.free[i] # s[j]
  <2>1. \A j \in 1 .. Len(s) : s[j] \in Blocks /\ a.owner[s[j]] # NoOwner
    BY NoOwnerAssumption DEF MayFree
  <2> QED BY <1>1, <2>1 DEF PoolSound, Exact
<1>8. NoRepeat(c.free)
  <2> SUFFICES ASSUME NEW i \in 1 .. L + Len(s), NEW j \in 1 .. L + Len(s),
                      c.free[i] = c.free[j]
               PROVE  i = j
    BY <1>2 DEF NoRepeat
  <2>1. CASE i <= L /\ j <= L
    <3>1. a.free[i] = a.free[j] /\ i \in 1 .. Len(a.free) /\ j \in 1 .. Len(a.free)
      BY <1>1, <1>5, <2>1
    <3> QED BY <3>1 DEF PoolSound, Exact, NoRepeat
  <2>2. CASE i > L /\ j > L
    <3>1. s[i - L] = s[j - L] /\ i - L \in 1 .. Len(s) /\ j - L \in 1 .. Len(s)
      BY <1>1, <1>6, <2>2
    <3>2. i - L = j - L
      BY <3>1 DEF MayFree, NoRepeat
    <3> QED BY <1>1, <3>2
  <2>3. CASE i <= L /\ j > L
    BY <1>1, <1>5, <1>6, <1>7, <2>3
  <2>4. CASE i > L /\ j <= L
    <3>1. c.free[i] = s[i - L] /\ i - L \in 1 .. Len(s) /\ c.free[j] = a.free[j] /\ j \in 1 .. L
      BY <1>1, <1>5, <1>6, <2>4
    <3> QED BY <1>7, <3>1
  <2> QED BY <1>1, <2>1, <2>2, <2>3, <2>4
<1>9. ASSUME NEW b \in Blocks
      PROVE  c.owner[b] = NoOwner <=> \E i \in 1 .. Len(c.free) : c.free[i] = b
  <2>1. (\E i \in 1 .. Len(c.free) : c.free[i] = b)
          <=> (\E i \in 1 .. L : a.free[i] = b) \/ \E j \in 1 .. Len(s) : s[j] = b
    <3>1. ASSUME NEW j \in 1 .. Len(s)
          PROVE  L + j \in 1 .. Len(c.free) /\ c.free[L + j] = s[j]
      BY <1>1, <1>2, <1>6
    <3>2. \A i \in 1 .. Len(c.free) : i \in 1 .. L \/ i \in L + 1 .. L + Len(s)
      BY <1>1, <1>2
    <3>3. \A i \in 1 .. L : i \in 1 .. Len(c.free)
      BY <1>1, <1>2
    <3> QED BY <1>5, <1>6, <3>1, <3>2, <3>3
  <2> QED BY <1>3, <2>1 DEF PoolSound, Exact
<1> QED BY <1>4, <1>8, <1>9 DEF PoolSound, Exact

(* The lists free_for() may build pass free()'s own checks.                *)
LEMMA OwnedListFrees ==
  ASSUME NEW a, PoolSound(a), NEW o \in Owners, NEW s \in SetToSeqs(Owned(a, o))
  PROVE  s \in Seq(Blocks) /\ MayFree(a, s, o)
<1>1. IsFiniteSet(Blocks)
  BY FS_Interval, NumBlocksAssumption DEF Blocks
<1>2. IsFiniteSet(Owned(a, o))
  BY <1>1, FS_Subset DEF Owned
<1> DEFINE k == Cardinality(Owned(a, o))
<1>3. k \in Nat
  BY <1>2, FS_CardinalityType
<1>4. s \in [1 .. k -> Owned(a, o)] /\ \A i, j \in 1 .. k : i # j => s[i] # s[j]
  BY DEF SetToSeqs
<1>5. s \in Seq(Blocks) /\ Len(s) = k
  BY <1>3, <1>4 DEF Owned
<1> HIDE DEF k
<1> QED BY <1>4, <1>5 DEF MayFree, NoRepeat, Owned

-----------------------------------------------------------------------------
(* Every list of blocks that Free is tried with is a sequence of blocks.   *)
LEMMA BoundedIsSeq == BoundedSeq(Blocks, NumBlocks) \subseteq Seq(Blocks)
  BY NumBlocksAssumption DEF BoundedSeq, SeqOf

(* The inductive invariant: the record is well typed and its free list is  *)
(* exact. Types alone would not do: that a popped block has no owner, and  *)
(* that a freed one is not in the list already, is what the list's         *)
(* exactness says.                                                         *)
THEOREM AllocatorInvariant == AllocatorSpec => []PoolInv
<1>1. AllocatorInit => PoolInv
  BY InitSound DEF AllocatorInit, PoolInv
<1>2. PoolInv /\ [AllocatorNext]_alloc => PoolInv'
  <2> SUFFICES ASSUME PoolInv, [AllocatorNext]_alloc
               PROVE  PoolInv'
    OBVIOUS
  <2>0. PoolSound(alloc)
    BY DEF PoolInv
  <2>1. ASSUME NEW o \in Owners, NEW n \in 0 .. NumBlocks, Allocate(o, n)
        PROVE  PoolInv'
    <3>1. n \in Nat
      BY NumBlocksAssumption
    <3> QED BY <2>0, <2>1, <3>1, AllocateSound DEF Allocate, PoolInv
  <2>2. ASSUME NEW o \in Owners, NEW s \in BoundedSeq(Blocks, NumBlocks), Free(o, s)
        PROVE  PoolInv'
    BY <2>0, <2>2, BoundedIsSeq, FreeSound DEF Free, PoolInv
  <2>3. ASSUME NEW o \in Owners, FreeFor(o)
        PROVE  PoolInv'
    <3>1. PICK s \in SetToSeqs(Owned(alloc, o)) : alloc' = AfterFree(alloc, s)
      BY <2>3 DEF FreeFor
    <3>2. s \in Seq(Blocks) /\ MayFree(alloc, s, o)
      BY <2>0, OwnedListFrees
    <3> QED BY <2>0, <3>1, <3>2, FreeSound DEF PoolInv
  <2>4. CASE UNCHANGED alloc
    BY <2>4 DEF PoolInv
  <2> QED BY <2>1, <2>2, <2>3, <2>4 DEF AllocatorNext
<1> QED BY <1>1, <1>2, PTL DEF AllocatorSpec

(* The allocator's record keeps its type, and with it every listed block   *)
(* is a block of the pool.                                                 *)
THEOREM AllocatorTypeCorrect == AllocatorSpec => []AllocatorTypeOK
<1>1. PoolInv => AllocatorTypeOK
  BY DEF PoolInv, PoolSound, AllocatorTypeOK
<1> QED BY <1>1, AllocatorInvariant, PTL

(* The free list is exactly the blocks without an owner, each once: no     *)
(* block is lost, doubled or handed to two sequences.                      *)
THEOREM FreeListIsExact == AllocatorSpec => []FreeListExact
<1>1. PoolInv => FreeListExact
  BY DEF PoolInv, PoolSound, Exact, FreeListExact
<1> QED BY <1>1, AllocatorInvariant, PTL

(* An exact free list and the owner map count up to the pool's size.       *)
LEMMA ExactConserves ==
  ASSUME NEW a, PoolSound(a)
  PROVE  Len(a.free) + Cardinality(Allocated(a)) = NumBlocks
<1> DEFINE Unowned == {b \in Blocks : a.owner[b] = NoOwner}
           L == Len(a.free)
<1>1. a.free \in Seq(Blocks) /\ L \in Nat
  BY DEF PoolSound, AllocatorType
<1>2. IsFiniteSet(Blocks) /\ Cardinality(Blocks) = NumBlocks
  BY FS_Interval, NumBlocksAssumption DEF Blocks
<1>3. Cardinality(Unowned) = L
  <2>1. a.free \in [1 .. L -> Unowned]
    BY <1>1 DEF PoolSound, Exact
  <2>2. a.free \in Bijection(1 .. L, Unowned)
    <3>1. a.free \in Injection(1 .. L, Unowned)
      BY <1>1, <2>1 DEF PoolSound, Exact, NoRepeat, Injection, IsInjective
    <3>2. a.free \in Surjection(1 .. L, Unowned)
      BY <2>1 DEF PoolSound, Exact, Surjection
    <3> QED BY <3>1, <3>2 DEF Bijection
  <2>3. ExistsBijection(1 .. L, Unowned)
    BY <2>2 DEF ExistsBijection
  <2>4. IsFiniteSet(1 .. L) /\ Cardinality(1 .. L) = L
    BY <1>1, FS_Interval
  <2> QED BY <2>3, <2>4, FS_Bijection
<1>4. Allocated(a) = Blocks \ Unowned /\ Blocks \cap Unowned = Unowned
  BY DEF Allocated
<1>5. Cardinality(Blocks \ Unowned) = Cardinality(Blocks) - Cardinality(Blocks \cap Unowned)
  BY <1>2, FS_Difference
<1>6. Cardinality(Allocated(a)) = NumBlocks - L
  BY <1>2, <1>3, <1>4, <1>5
<1> HIDE DEF L
<1>7. L + Cardinality(Allocated(a)) = NumBlocks
  BY <1>1, <1>6, NumBlocksAssumption
<1> QED BY <1>7 DEF L

(* Free blocks and owned blocks add up to the pool, whatever sequence of   *)
(* calls led there (cache.py:84).                                          *)
THEOREM Conserved == AllocatorSpec => []Conservation
<1>1. PoolInv => Conservation
  BY ExactConserves DEF PoolInv, Conservation
<1> QED BY <1>1, AllocatorInvariant, PTL

(* No operation takes over a block that another sequence still owns.       *)
THEOREM NeverStolen == AllocatorSpec => NoSteal
<1> DEFINE Kept == \A b \in Blocks :
             alloc.owner[b] # NoOwner => alloc'.owner[b] \in {alloc.owner[b], NoOwner}
<1>1. PoolInv /\ [AllocatorNext]_alloc => [Kept]_alloc
  <2> SUFFICES ASSUME PoolSound(alloc), AllocatorNext, NEW b \in Blocks, alloc.owner[b] # NoOwner
               PROVE  alloc'.owner[b] \in {alloc.owner[b], NoOwner}
    BY DEF PoolInv
  <2>1. ASSUME NEW o \in Owners, NEW n \in 0 .. NumBlocks, Allocate(o, n)
        PROVE  alloc'.owner[b] = alloc.owner[b]
    <3>1. alloc.free \in Seq(Blocks) /\ \A i \in 1 .. Len(alloc.free) : alloc.free[i] # b
      BY DEF PoolSound, Exact, AllocatorType
    <3>2. \A i \in 1 .. n : Popped(alloc.free, n)[i] # b
      BY <2>1, <3>1, NumBlocksAssumption DEF Allocate, CanSatisfy, Popped
    <3>3. alloc'.owner[b] = IF \E i \in 1 .. n : Popped(alloc.free, n)[i] = b
                            THEN o ELSE alloc.owner[b]
      BY <2>1 DEF Allocate, AfterAllocate
    <3> QED BY <3>2, <3>3
  <2>2. ASSUME NEW s, alloc' = AfterFree(alloc, s)
        PROVE  alloc'.owner[b] \in {alloc.owner[b], NoOwner}
    BY <2>2 DEF AfterFree
  <2> QED BY <2>1, <2>2 DEF AllocatorNext, Free, FreeFor
<1> QED BY <1>1, AllocatorInvariant, PTL DEF AllocatorSpec, NoSteal

-----------------------------------------------------------------------------
(* Positions and blocks.                                                   *)

\* Division with a remainder.
LEMMA Division ==
  ASSUME NEW B \in Nat, B > 0, NEW p \in Nat
  PROVE  p \div B \in Nat /\ p % B \in 0 .. B - 1 /\ p = B * (p \div B) + (p % B)
<1> DEFINE d == p \div B
           m == p - B * d
           r == p % B
<1>1. d \in Nat /\ B * d <= p /\ p - B * d < B OBVIOUS
<1> HIDE DEF d
<1>2. B * d \in Nat BY <1>1
<1>3. m \in 0 .. B - 1 /\ p = B * d + m BY <1>1, <1>2
<1> HIDE DEF m
<1>4. r = m BY <1>1, <1>3
<1> HIDE DEF r
<1>5. d \in Nat /\ r \in 0 .. B - 1 /\ p = B * d + r BY <1>1, <1>3, <1>4
<1> QED BY <1>5 DEF d, r

LEMMA MultipleIs == ASSUME NEW B \in Nat, B > 0, NEW d \in Nat PROVE (B * d) % B = 0
OBVIOUS

(* The position p is in slot p % BlockSize of block p \div BlockSize.      *)
LEMMA SlotFacts ==
  ASSUME NEW p \in Nat
  PROVE  p \div BlockSize \in Nat /\ SlotAt(p) \in Slots
         /\ p = BlockSize * (p \div BlockSize) + SlotAt(p)
BY Division, SizeAssumption DEF SlotAt, Slots

LEMMA SlotsApart ==
  ASSUME NEW p \in Nat, NEW q \in Nat, p \div BlockSize = q \div BlockSize, SlotAt(p) = SlotAt(q)
  PROVE  p = q
<1>1. p = BlockSize * (p \div BlockSize) + SlotAt(p) BY SlotFacts
<1>2. q = BlockSize * (q \div BlockSize) + SlotAt(q) BY SlotFacts
<1> QED BY <1>1, <1>2

\* Blocks for n positions have room for each of them.
LEMMA BlocksReach ==
  ASSUME NEW n \in Nat, NEW p \in 0 .. n - 1
  PROVE  BlocksFor(n) \in Nat /\ p \div BlockSize + 1 \in 1 .. BlocksFor(n)
<1> DEFINE B == BlockSize
           d == p \div B
           e == (n + B - 1) \div B
           m == p % B
           k == (n + B - 1) % B
<1>1. B \in Nat /\ B > 0 BY SizeAssumption
<1>2. d \in Nat /\ m \in 0 .. B - 1 /\ p = B * d + m BY <1>1, Division
<1>3. e \in Nat /\ k \in 0 .. B - 1 /\ n + B - 1 = B * e + k BY <1>1, Division
<1> HIDE DEF B, d, e, m, k
<1>4. B * d + B <= B * e + k BY <1>1, <1>2, <1>3
<1>5. B * (d + 1) <= B * e + (B - 1) BY <1>1, <1>2, <1>3, <1>4
<1>6. d + 1 <= e
  <2> SUFFICES ASSUME d >= e PROVE FALSE BY <1>2, <1>3
  <2>1. B * d >= B * e BY <1>1, <1>2, <1>3
  <2> QED BY <2>1, <1>1, <1>2, <1>3, <1>4
<1> QED BY <1>2, <1>3, <1>6 DEF B, d, e, BlocksFor

LEMMA AlignedReach ==
  ASSUME NEW n \in Nat, n % BlockSize = 0, NEW p \in 0 .. n - 1
  PROVE  p \div BlockSize + 1 \in 1 .. n \div BlockSize
<1> DEFINE B == BlockSize
           d == p \div B
           e == n \div B
           m == p % B
<1>1. B \in Nat /\ B > 0 BY SizeAssumption
<1>2. d \in Nat /\ m \in 0 .. B - 1 /\ p = B * d + m BY <1>1, Division
<1>3. e \in Nat /\ n = B * e BY <1>1, Division
<1> HIDE DEF B, d, e, m
<1>4. d + 1 <= e
  <2> SUFFICES ASSUME d >= e PROVE FALSE BY <1>2, <1>3
  <2>1. B * d >= B * e BY <1>1, <1>2, <1>3
  <2> QED BY <2>1, <1>1, <1>2, <1>3
<1> QED BY <1>2, <1>3, <1>4 DEF B, d, e

LEMMA AlignedFacts ==
  ASSUME NEW r \in Reqs
  PROVE  /\ Len(Prompt[r]) \in Nat /\ Aligned(r) \in Nat
         /\ Aligned(r) < Len(Prompt[r]) /\ Aligned(r) % BlockSize = 0
<1> DEFINE B == BlockSize
           L == Len(Prompt[r])
           d == (L - 1) \div B
           m == (L - 1) % B
<1>1. B \in Nat /\ B > 0 BY SizeAssumption
<1>2. L \in Nat /\ L > 0
  <2>1. Prompt[r] \in Seq(Nat) /\ Prompt[r] # <<>> BY TextAssumption
  <2> QED BY <2>1, EmptySeq
<1>3. Aligned(r) = d * B BY DEF Aligned
<1> HIDE DEF L
<1>4. d \in Nat /\ m \in 0 .. B - 1 /\ L - 1 = B * d + m BY <1>1, <1>2, Division
<1> HIDE DEF B, d, m
<1>5. d * B \in Nat /\ d * B < L /\ d * B = B * d BY <1>1, <1>2, <1>4
<1>6. (B * d) % B = 0 BY <1>1, <1>4, MultipleIs
<1> QED BY <1>2, <1>3, <1>5, <1>6 DEF L, B

-----------------------------------------------------------------------------
\* A set of numbers has a least one.
LEMMA LeastNumber ==
  ASSUME NEW T, T \subseteq Nat, T # {}
  PROVE  \E n \in T : \A m \in Nat : m < n => m \notin T
<1>1. PICK n \in T : \A m \in T : ~ (<<m, n>> \in OpToRel(<, Nat))
  BY NatLessThanWellFounded, WFMin
<1>2. \A m \in Nat : m < n => <<m, n>> \in OpToRel(<, Nat) BY DEF OpToRel
<1> QED BY <1>1, <1>2

LEMMA MinOfIs == ASSUME NEW T, T \subseteq Nat, T # {} PROVE MinOf(T) \in T
<1>1. PICK n \in T : \A m \in Nat : m < n => m \notin T BY LeastNumber
<1>2. \A m \in T : n <= m BY <1>1
<1> QED BY <1>2 DEF MinOf

\* And a bounded one a greatest.
LEMMA MaxOfIs ==
  ASSUME NEW n \in Nat, NEW T, T \subseteq 0 .. n, T # {}
  PROVE  MaxOf(T) \in T
<1> DEFINE D == {n - m : m \in T}
<1>0. \A m \in T : m \in Nat /\ m <= n /\ n - m \in Nat OBVIOUS
<1>1. D \subseteq Nat /\ D # {} BY <1>0
<1>2. PICK d \in D : \A k \in Nat : k < d => k \notin D
  <2> HIDE DEF D
  <2> QED BY <1>1, LeastNumber
<1>3. PICK m \in T : d = n - m BY <1>2
<1>4. ASSUME NEW k \in T PROVE k <= m
  <2>1. n - k \in D /\ n - k \in Nat /\ k \in Nat /\ m \in Nat BY <1>0
  <2> QED BY <2>1, <1>2, <1>3
<1>5. \E x \in T : \A k \in T : k <= x BY <1>4
<1> QED BY <1>5 DEF MaxOf

-----------------------------------------------------------------------------
\* The beginning of a beginning.
LEMMA BeginningOf ==
  ASSUME NEW s \in Seq(Nat), NEW n \in 0 .. Len(s), NEW m \in 0 .. n
  PROVE  SubSeq(SubSeq(s, 1, n), 1, m) = SubSeq(s, 1, m)
<1> DEFINE t == SubSeq(s, 1, n)
           u == SubSeq(t, 1, m)
           v == SubSeq(s, 1, m)
<1>1. t \in Seq(Nat) /\ Len(t) = n /\ \A i \in 1 .. n : t[i] = s[i] BY SubSeqProperties
<1>2. v \in Seq(Nat) /\ Len(v) = m /\ \A i \in 1 .. m : v[i] = s[i] BY SubSeqProperties
<1> HIDE DEF t
<1>3. u \in Seq(Nat) /\ Len(u) = m /\ \A i \in 1 .. m : u[i] = t[i] BY <1>1, SubSeqProperties
<1> HIDE DEF u, v
<1>4. \A i \in 1 .. m : u[i] = v[i] BY <1>1, <1>2, <1>3
<1>5. u = v BY <1>2, <1>3, <1>4, SeqEqual
<1> QED BY <1>5 DEF t, u, v

\* A request's text begins with its prompt.
LEMMA TextBegins ==
  ASSUME NEW r \in Reqs, NEW m \in 0 .. Len(Prompt[r])
  PROVE  /\ Text[r] \in Seq(Nat) /\ Prompt[r] \in Seq(Nat)
         /\ Len(Prompt[r]) <= Len(Text[r])
         /\ SubSeq(Text[r], 1, m) = SubSeq(Prompt[r], 1, m)
<1> DEFINE s == Prompt[r]
           t == Text[r]
           n == Len(s)
<1>1. s \in Seq(Nat) /\ t \in Seq(Nat) /\ n \in Nat /\ Len(t) \in Nat BY TextAssumption, LenProperties
<1>2. n <= Len(t) /\ SubSeq(s, 1, n) = SubSeq(t, 1, n) BY TextAssumption DEF IsPrefix
<1> HIDE DEF s, t, n
<1>3. SubSeq(SubSeq(s, 1, n), 1, m) = SubSeq(s, 1, m)
  <2>1. n \in 0 .. Len(s) /\ m \in 0 .. n BY <1>1 DEF n, s
  <2> QED BY <1>1, <2>1, BeginningOf
<1>4. SubSeq(SubSeq(t, 1, n), 1, m) = SubSeq(t, 1, m)
  <2>1. n \in 0 .. Len(t) /\ m \in 0 .. n BY <1>1, <1>2 DEF n, s
  <2> QED BY <1>1, <2>1, BeginningOf
<1> QED BY <1>1, <1>2, <1>3, <1>4 DEF s, t, n

\* Keys are sequences of tokens, and owners that are no requests.
LEMMA KeysAre == \A k \in Keys : k \in Seq(Nat) /\ k \in Owners /\ k \notin Reqs
<1>1. ASSUME NEW r \in Reqs, NEW n \in AlignedLengths(r) PROVE Key(r, n) \in Seq(Nat)
  <2>1. n \in 0 .. Len(Prompt[r]) /\ Prompt[r] \in Seq(Nat)
    BY AlignedFacts, TextAssumption DEF AlignedLengths
  <2> QED BY <2>1, SubSeqProperties DEF Key
<1> QED BY <1>1, OwnersAssumption DEF Keys

\* An aligned length of a prompt and the key that has it.
LEMMA KeyFacts ==
  ASSUME NEW r \in Reqs, NEW n \in AlignedLengths(r)
  PROVE  /\ n \in Nat /\ n < Len(Prompt[r]) /\ n % BlockSize = 0
         /\ Key(r, n) \in Keys /\ Len(Key(r, n)) = n
         /\ \A p \in 0 .. n - 1 : SubSeq(Key(r, n), 1, p + 1) = SubSeq(Text[r], 1, p + 1)
<1>1. /\ n \in Nat /\ n <= Aligned(r) /\ n % BlockSize = 0
      /\ Len(Prompt[r]) \in Nat /\ n < Len(Prompt[r])
  BY AlignedFacts DEF AlignedLengths
<1>2. Key(r, n) \in Keys BY DEF Keys
<1>3. Prompt[r] \in Seq(Nat) BY TextAssumption
<1>4. Len(Key(r, n)) = n BY <1>1, <1>3, SubSeqProperties DEF Key
<1>5. ASSUME NEW p \in 0 .. n - 1
      PROVE  SubSeq(Key(r, n), 1, p + 1) = SubSeq(Text[r], 1, p + 1)
  <2> DEFINE q == p + 1
  <2>1. q \in 0 .. n /\ n \in 0 .. Len(Prompt[r]) /\ q \in 0 .. Len(Prompt[r]) BY <1>1
  <2> HIDE DEF q
  <2>2. SubSeq(SubSeq(Prompt[r], 1, n), 1, q) = SubSeq(Prompt[r], 1, q) BY <1>3, <2>1, BeginningOf
  <2>3. SubSeq(Text[r], 1, q) = SubSeq(Prompt[r], 1, q) BY <2>1, TextBegins
  <2> QED BY <2>2, <2>3 DEF Key, q
<1> QED BY <1>1, <1>2, <1>4, <1>5

\* The longest aligned length is one of them, unless it is 0.
LEMMA AlignedIs ==
  ASSUME NEW r \in Reqs, Aligned(r) # 0
  PROVE  Aligned(r) \in AlignedLengths(r)
BY AlignedFacts DEF AlignedLengths

-----------------------------------------------------------------------------
\* The members of a sequence.
LEMMA Members ==
  ASSUME NEW S, NEW s \in Seq(S), NEW x
  PROVE  x \in ToSet(s) <=> \E i \in 1 .. Len(s) : s[i] = x
<1>1. DOMAIN s = 1 .. Len(s) BY LenProperties
<1> QED BY <1>1 DEF ToSet

\* A new member at the end.
LEMMA AppendNew ==
  ASSUME NEW S, NEW s \in Seq(S), NEW x \in S, NoRepeat(s), x \notin ToSet(s)
  PROVE  /\ Append(s, x) \in Seq(S) /\ NoRepeat(Append(s, x))
         /\ ToSet(Append(s, x)) = ToSet(s) \cup {x}
<1> DEFINE t == Append(s, x)
           n == Len(s)
<1>1. /\ t \in Seq(S) /\ n \in Nat /\ Len(t) = n + 1 /\ t[n + 1] = x
      /\ \A i \in 1 .. n : t[i] = s[i]
  BY AppendProperties, LenProperties
<1>2. \A i \in 1 .. n : s[i] # x BY Members
<1>3. NoRepeat(t)
  <2> HIDE DEF t
  <2> SUFFICES ASSUME NEW i \in 1 .. n + 1, NEW j \in 1 .. n + 1, t[i] = t[j] PROVE i = j
    BY <1>1 DEF NoRepeat
  <2>1. CASE i \in 1 .. n /\ j \in 1 .. n BY <1>1, <2>1 DEF NoRepeat
  <2>2. CASE i = n + 1 /\ j \in 1 .. n BY <1>1, <1>2, <2>2
  <2>3. CASE i \in 1 .. n /\ j = n + 1 BY <1>1, <1>2, <2>3
  <2> QED BY <1>1, <2>1, <2>2, <2>3
<1>4. ASSUME NEW y PROVE y \in ToSet(t) <=> y \in ToSet(s) \/ y = x
  <2>1. y \in ToSet(s) <=> \E i \in 1 .. n : s[i] = y BY Members
  <2>2. y \in ToSet(t) <=> \E i \in 1 .. n + 1 : t[i] = y
    <3> HIDE DEF t
    <3> QED BY <1>1, Members
  <2>3. 1 .. n + 1 = (1 .. n) \cup {n + 1} BY <1>1
  <2> HIDE DEF t, n
  <2> QED BY <1>1, <2>1, <2>2, <2>3
<1> QED BY <1>1, <1>3, <1>4

\* A member taken out.
LEMMA WithoutIt ==
  ASSUME NEW S, NEW s \in Seq(S), NEW x \in ToSet(s), NoRepeat(s)
  PROVE  /\ Without(s, x) \in Seq(S) /\ NoRepeat(Without(s, x))
         /\ Len(Without(s, x)) = Len(s) - 1
         /\ ToSet(Without(s, x)) = ToSet(s) \ {x}
<1> DEFINE n == Len(s)
           k == CHOOSE i \in DOMAIN s : s[i] = x
           u == SubSeq(s, 1, k - 1)
           v == SubSeq(s, k + 1, n)
           t == u \o v
<1>1. n \in Nat /\ DOMAIN s = 1 .. n BY LenProperties
<1>2. \E i \in 1 .. n : s[i] = x BY Members
<1>3. k \in 1 .. n /\ s[k] = x BY <1>1, <1>2
<1>4. Without(s, x) = t BY DEF Without, RemoveAt
<1> HIDE DEF k
<1>5. u \in Seq(S) /\ Len(u) = k - 1 /\ \A i \in 1 .. k - 1 : u[i] = s[i]
  BY <1>1, <1>3, SubSeqProperties
<1>6. v \in Seq(S) /\ Len(v) = n - k /\ \A i \in 1 .. n - k : v[i] = s[i + k]
  <2>1. k + 1 \in Int /\ n \in Int /\ \A i \in k + 1 .. n : s[i] \in S BY <1>1, <1>3, ElementOfSeq
  <2>2. /\ v \in Seq(S) /\ Len(v) = IF k + 1 <= n THEN n - (k + 1) + 1 ELSE 0
        /\ \A i \in 1 .. n - (k + 1) + 1 : v[i] = s[(k + 1) + i - 1]
    BY <2>1, SubSeqProperties
  <2> HIDE DEF v
  <2>3. Len(v) = n - k
    <3>1. CASE k + 1 <= n BY <3>1, <1>1, <1>3, <2>2
    <3>2. CASE k = n BY <3>2, <1>1, <1>3, <2>2
    <3>3. n \in Nat /\ k \in 1 .. n BY <1>1, <1>3
    <3> HIDE DEF n
    <3>4. k + 1 <= n \/ k = n BY <3>3
    <3> QED BY <3>1, <3>2, <3>4
  <2>4. ASSUME NEW i \in 1 .. n - k PROVE v[i] = s[i + k]
    <3>1. i \in 1 .. n - (k + 1) + 1 /\ (k + 1) + i - 1 = i + k BY <1>1, <1>3
    <3> QED BY <3>1, <2>2
  <2> QED BY <2>2, <2>3, <2>4
<1> HIDE DEF u, v
<1>7. /\ t \in Seq(S) /\ Len(t) = n - 1
      /\ \A i \in 1 .. n - 1 : t[i] = IF i < k THEN s[i] ELSE s[i + 1]
  <2>1. t \in Seq(S) /\ Len(t) = Len(u) + Len(v) BY <1>5, <1>6, ConcatProperties
  <2>2. \A i \in 1 .. Len(u) + Len(v) : t[i] = IF i <= Len(u) THEN u[i] ELSE v[i - Len(u)]
    BY <1>5, <1>6, ConcatProperties
  <2>3. Len(t) = n - 1 BY <1>1, <1>3, <1>5, <1>6, <2>1
  <2> HIDE DEF t
  <2>4. ASSUME NEW i \in 1 .. n - 1 PROVE t[i] = IF i < k THEN s[i] ELSE s[i + 1]
    <3>1. CASE i < k BY <3>1, <1>1, <1>3, <1>5, <2>1, <2>2, <2>3
    <3>2. CASE i >= k
      <4>1. i - (k - 1) \in 1 .. n - k /\ (i - (k - 1)) + k = i + 1 BY <3>2, <1>1, <1>3
      <4>2. t[i] = v[i - (k - 1)] BY <3>2, <1>1, <1>3, <1>5, <2>1, <2>2, <2>3
      <4> QED BY <4>1, <4>2, <1>1, <1>3, <1>6, <3>2
    <3> QED BY <3>1, <3>2, <1>1, <1>3
  <2> QED BY <2>1, <2>3, <2>4
<1> HIDE DEF t
<1>8. NoRepeat(t)
  <2> SUFFICES ASSUME NEW i \in 1 .. n - 1, NEW j \in 1 .. n - 1, t[i] = t[j] PROVE i = j
    BY <1>7 DEF NoRepeat
  <2>1. \A a, b \in 1 .. n : s[a] = s[b] => a = b BY DEF NoRepeat
  <2>2. i \in 1 .. n /\ j \in 1 .. n /\ i + 1 \in 1 .. n /\ j + 1 \in 1 .. n BY <1>1
  <2> QED BY <1>1, <1>3, <1>7, <2>1, <2>2
<1>9. ASSUME NEW y PROVE y \in ToSet(t) <=> y \in ToSet(s) /\ y # x
  <2>1. y \in ToSet(s) <=> \E i \in 1 .. n : s[i] = y BY Members
  <2>2. y \in ToSet(t) <=> \E i \in 1 .. n - 1 : t[i] = y BY <1>7, Members
  <2>3. \A a, b \in 1 .. n : s[a] = s[b] => a = b BY DEF NoRepeat
  <2>4. ASSUME NEW i \in 1 .. n - 1, t[i] = y PROVE y \in ToSet(s) /\ y # x
    <3>1. i \in 1 .. n /\ i + 1 \in 1 .. n /\ i # i + 1 BY <1>1
    <3> QED BY <3>1, <2>1, <2>3, <2>4, <1>1, <1>3, <1>7
  <2>5. ASSUME NEW i \in 1 .. n, s[i] = y, y # x PROVE \E j \in 1 .. n - 1 : t[j] = y
    <3>1. CASE i < k
      <4>1. i \in 1 .. n - 1 BY <3>1, <1>1, <1>3
      <4> QED BY <4>1, <3>1, <2>5, <1>7
    <3>2. CASE i > k
      <4>1. i - 1 \in 1 .. n - 1 /\ ~(i - 1 < k) /\ (i - 1) + 1 = i BY <3>2, <1>1, <1>3
      <4> QED BY <4>1, <2>5, <1>7
    <3>3. i # k BY <2>5, <1>3
    <3> QED BY <3>1, <3>2, <3>3, <1>1, <1>3
  <2> QED BY <2>1, <2>2, <2>4, <2>5
<1> QED BY <1>4, <1>7, <1>8, <1>9

\* Two sequences with no member in common, one after the other.
LEMMA JoinApart ==
  ASSUME NEW S, NEW s \in Seq(S), NEW t \in Seq(S), NoRepeat(s), NoRepeat(t),
         ToSet(s) \cap ToSet(t) = {}
  PROVE  /\ s \o t \in Seq(S) /\ NoRepeat(s \o t) /\ Len(s \o t) = Len(s) + Len(t)
         /\ ToSet(s \o t) = ToSet(s) \cup ToSet(t)
         /\ \A i \in DOMAIN s : i \in DOMAIN (s \o t) /\ (s \o t)[i] = s[i]
<1> DEFINE u == s \o t
           m == Len(s)
           n == Len(t)
<1>1. m \in Nat /\ n \in Nat /\ DOMAIN s = 1 .. m BY LenProperties
<1>2. /\ u \in Seq(S) /\ Len(u) = m + n
      /\ \A i \in 1 .. m + n : u[i] = IF i <= m THEN s[i] ELSE t[i - m]
  BY ConcatProperties
<1>3. DOMAIN u = 1 .. m + n
  <2> HIDE DEF u
  <2> QED BY <1>2, LenProperties
<1> HIDE DEF u
<1>4. \A b : b \in ToSet(s) <=> \E i \in 1 .. m : s[i] = b BY Members
<1>5. \A b : b \in ToSet(t) <=> \E i \in 1 .. n : t[i] = b BY Members
<1>6. \A b : b \in ToSet(u) <=> \E i \in 1 .. m + n : u[i] = b BY <1>2, Members
<1>7. \A a, b \in 1 .. m : s[a] = s[b] => a = b BY DEF NoRepeat
<1>8. \A a, b \in 1 .. n : t[a] = t[b] => a = b BY DEF NoRepeat
<1>9. \A a \in 1 .. m, b \in 1 .. n : s[a] # t[b] BY <1>4, <1>5
<1> HIDE DEF m, n
<1>10. \A i \in 1 .. m : i \in 1 .. m + n /\ u[i] = s[i] BY <1>1, <1>2
<1>11. \A j \in 1 .. n : m + j \in 1 .. m + n /\ u[m + j] = t[j]
  <2> TAKE j \in 1 .. n
  <2>1. m + j \in 1 .. m + n /\ ~(m + j <= m) /\ (m + j) - m = j BY <1>1
  <2> QED BY <2>1, <1>2
<1>12. \A i \in 1 .. m + n : i \in 1 .. m \/ \E j \in 1 .. n : i = m + j
  <2> TAKE i \in 1 .. m + n
  <2>1. CASE i <= m BY <2>1, <1>1
  <2>2. CASE i > m
    <3>1. i - m \in 1 .. n /\ i = m + (i - m) BY <2>2, <1>1
    <3> QED BY <3>1
  <2> QED BY <2>1, <2>2, <1>1
<1>13. \A b : b \in ToSet(u) <=> b \in ToSet(s) \/ b \in ToSet(t)
  <2> TAKE b
  <2>1. b \in ToSet(s) => b \in ToSet(u) BY <1>4, <1>6, <1>10
  <2>2. b \in ToSet(t) => b \in ToSet(u)
    <3> HAVE b \in ToSet(t)
    <3>1. PICK j \in 1 .. n : t[j] = b BY <1>5
    <3> QED BY <3>1, <1>6, <1>11
  <2>3. ASSUME b \in ToSet(u) PROVE b \in ToSet(s) \/ b \in ToSet(t)
    <3>1. PICK i \in 1 .. m + n : u[i] = b BY <2>3, <1>6
    <3>2. CASE i \in 1 .. m BY <3>1, <3>2, <1>4, <1>10
    <3>3. CASE \E j \in 1 .. n : i = m + j
      <4>1. PICK j \in 1 .. n : i = m + j BY <3>3
      <4> QED BY <4>1, <3>1, <1>5, <1>11
    <3> QED BY <3>2, <3>3, <1>12
  <2> QED BY <2>1, <2>2, <2>3
<1>14. NoRepeat(u)
  <2> SUFFICES ASSUME NEW i \in 1 .. m + n, NEW j \in 1 .. m + n, u[i] = u[j] PROVE i = j
    BY <1>2 DEF NoRepeat
  <2>1. CASE i \in 1 .. m /\ j \in 1 .. m BY <2>1, <1>7, <1>10
  <2>2. CASE i \in 1 .. m /\ j \notin 1 .. m
    <3>1. PICK b \in 1 .. n : j = m + b BY <2>2, <1>12
    <3> QED BY <3>1, <2>2, <1>9, <1>10, <1>11
  <2>3. CASE i \notin 1 .. m /\ j \in 1 .. m
    <3>1. PICK b \in 1 .. n : i = m + b BY <2>3, <1>12
    <3> QED BY <3>1, <2>3, <1>9, <1>10, <1>11
  <2>4. CASE i \notin 1 .. m /\ j \notin 1 .. m
    <3>1. PICK a \in 1 .. n : i = m + a BY <2>4, <1>12
    <3>2. PICK b \in 1 .. n : j = m + b BY <2>4, <1>12
    <3>3. t[a] = t[b] BY <3>1, <3>2, <1>11
    <3> QED BY <3>1, <3>2, <3>3, <1>8
  <2> QED BY <2>1, <2>2, <2>3, <2>4
<1>15. ToSet(u) = ToSet(s) \cup ToSet(t) BY <1>13
<1>16. \A i \in DOMAIN s : i \in DOMAIN u /\ u[i] = s[i] BY <1>1, <1>3, <1>10
<1> QED BY <1>2, <1>14, <1>15, <1>16 DEF u, m, n

-----------------------------------------------------------------------------
(* Who owns what, before and after a call of the allocator.                *)

\* What is popped are blocks of the free list, each once.
LEMMA PopIs ==
  ASSUME NEW f \in Seq(Blocks), NoRepeat(f), NEW n \in Nat, n <= Len(f)
  PROVE  /\ Popped(f, n) \in Seq(Blocks) /\ Len(Popped(f, n)) = n
         /\ NoRepeat(Popped(f, n)) /\ ToSet(Popped(f, n)) \subseteq ToSet(f)
<1> DEFINE s == Popped(f, n)
           L == Len(f)
<1>1. L \in Nat /\ n <= L /\ DOMAIN f = 1 .. L BY LenProperties
<1>2. \A i \in 1 .. n : L + 1 - i \in 1 .. L /\ f[L + 1 - i] \in Blocks
  <2> TAKE i \in 1 .. n
  <2>1. L + 1 - i \in 1 .. L BY <1>1
  <2> QED BY <2>1, ElementOfSeq
<1>3. s = [i \in 1 .. n |-> f[L + 1 - i]] BY DEF Popped
<1> HIDE DEF s
<1>4. s \in Seq(Blocks) /\ Len(s) = n
  <2>1. s \in [1 .. n -> Blocks] BY <1>2, <1>3
  <2> QED BY <2>1
<1>5. NoRepeat(s)
  <2> SUFFICES ASSUME NEW i \in 1 .. n, NEW j \in 1 .. n, s[i] = s[j] PROVE i = j
    BY <1>4 DEF NoRepeat
  <2>1. L + 1 - i = L + 1 - j BY <1>2, <1>3 DEF NoRepeat
  <2> QED BY <2>1, <1>1
<1>6. ToSet(s) \subseteq ToSet(f)
  <2> SUFFICES ASSUME NEW b \in ToSet(s) PROVE b \in ToSet(f) OBVIOUS
  <2>1. PICK i \in 1 .. n : s[i] = b BY <1>4, Members
  <2>2. L + 1 - i \in 1 .. L /\ f[L + 1 - i] = b BY <1>2, <1>3, <2>1
  <2> QED BY <2>2, Members
<1> QED BY <1>4, <1>5, <1>6 DEF s

\* allocate(): what is popped becomes the owner's, and the rest stays whose it was.
LEMMA AllocateOwns ==
  ASSUME NEW a, PoolSound(a), NEW o \in Owners, NEW n \in Nat, CanSatisfy(a, n)
  PROVE  /\ Popped(a.free, n) \in Seq(Blocks) /\ Len(Popped(a.free, n)) = n
         /\ NoRepeat(Popped(a.free, n))
         /\ \A x \in Owners : Owned(a, x) \cap ToSet(Popped(a.free, n)) = {}
         /\ Owned(AfterAllocate(a, o, n), o) = Owned(a, o) \cup ToSet(Popped(a.free, n))
         /\ \A x \in Owners \ {o} : Owned(AfterAllocate(a, o, n), x) = Owned(a, x)
         /\ Len(AfterAllocate(a, o, n).free) = Len(a.free) - n
<1> DEFINE s == Popped(a.free, n)
           t == AfterAllocate(a, o, n)
           m == Len(a.free) - n
<1>1. a.free \in Seq(Blocks) /\ NoRepeat(a.free) /\ n <= Len(a.free)
  BY DEF PoolSound, Exact, AllocatorType, CanSatisfy
<1>2. s \in Seq(Blocks) /\ Len(s) = n /\ NoRepeat(s) /\ ToSet(s) \subseteq ToSet(a.free)
  BY <1>1, PopIs
<1>3. t.owner = [b \in Blocks |-> IF \E i \in 1 .. n : s[i] = b THEN o ELSE a.owner[b]]
  BY DEF AfterAllocate
<1>4. Len(t.free) = m
  <2>1. m \in Nat BY <1>1, LenProperties
  <2>2. t.free = [i \in 1 .. m |-> a.free[i]] BY DEF AfterAllocate
  <2> QED BY <2>1, <2>2
<1> HIDE DEF s, t
<1>5. \A b : b \in ToSet(s) <=> \E i \in 1 .. n : s[i] = b BY <1>2, Members
<1>6. \A b \in ToSet(s) : b \in Blocks /\ a.owner[b] = NoOwner
  <2> TAKE b \in ToSet(s)
  <2>1. b \in ToSet(a.free) BY <1>2
  <2>2. PICK i \in 1 .. Len(a.free) : a.free[i] = b BY <1>1, <2>1, Members
  <2>3. b \in Blocks BY <1>1, <2>2, ElementOfSeq
  <2> QED BY <2>2, <2>3 DEF PoolSound, Exact
<1>7. \A b \in Blocks : t.owner[b] = IF b \in ToSet(s) THEN o ELSE a.owner[b] BY <1>3, <1>5
<1>8. \A x \in Owners : Owned(a, x) \cap ToSet(s) = {} BY <1>6, NoOwnerAssumption DEF Owned
<1>9. Owned(t, o) = Owned(a, o) \cup ToSet(s) BY <1>6, <1>7 DEF Owned
<1>10. \A x \in Owners \ {o} : Owned(t, x) = Owned(a, x)
  BY <1>6, <1>7, NoOwnerAssumption DEF Owned
<1> QED BY <1>2, <1>4, <1>8, <1>9, <1>10 DEF s, t

\* free() of all that an owner has: it has nothing then, and the rest stays.
LEMMA FreeOwns ==
  ASSUME NEW a, PoolSound(a), NEW o \in Owners, NEW s \in Seq(Blocks), NoRepeat(s),
         Owned(a, o) = ToSet(s)
  PROVE  /\ PoolSound(AfterFree(a, s))
         /\ Owned(AfterFree(a, s), o) = {}
         /\ \A x \in Owners \ {o} : Owned(AfterFree(a, s), x) = Owned(a, x)
         /\ Len(AfterFree(a, s).free) = Len(a.free) + Len(s)
<1> DEFINE t == AfterFree(a, s)
<1>1. \A b : b \in ToSet(s) <=> \E i \in 1 .. Len(s) : s[i] = b BY Members
<1>2. \A b \in ToSet(s) : b \in Blocks /\ a.owner[b] = o BY DEF Owned
<1>3. MayFree(a, s, o) BY <1>1, <1>2 DEF MayFree
<1>4. PoolSound(t) BY <1>3, FreeSound
<1>5. t.owner = [b \in Blocks |-> IF \E i \in 1 .. Len(s) : s[i] = b THEN NoOwner ELSE a.owner[b]]
  BY DEF AfterFree
<1>6. Len(t.free) = Len(a.free) + Len(s)
  <2>1. a.free \in Seq(Blocks) BY DEF PoolSound, AllocatorType
  <2> QED BY <2>1, ConcatProperties DEF AfterFree
<1> HIDE DEF t
<1>7. \A b \in Blocks : t.owner[b] = IF b \in ToSet(s) THEN NoOwner ELSE a.owner[b] BY <1>1, <1>5
<1>8. Owned(t, o) = {} BY <1>7, NoOwnerAssumption DEF Owned
<1>9. \A x \in Owners \ {o} : Owned(t, x) = Owned(a, x) BY <1>2, <1>7, NoOwnerAssumption DEF Owned
<1> QED BY <1>4, <1>6, <1>8, <1>9 DEF t

-----------------------------------------------------------------------------
(* The cache between two operations: every block in one place, and every   *)
(* position with the K/V of its own history.                               *)

Owns(c, o) == NoRepeat(c.table[o]) /\ Owned(c.alloc, o) = ToSet(c.table[o])

Content(c, o) ==
  \A p \in 0 .. c.length[o] - 1 :
    /\ p \div BlockSize + 1 \in DOMAIN c.table[o]
    /\ c.pool[BlockAt(c, o, p)][SlotAt(p)] = SubSeq(History(o), 1, p + 1)

\* Only a request with a table and an entry have blocks.
Placed(c, o) == o \notin c.resident \cup CachedKeys(c) => c.table[o] = <<>>

Sound(c) ==
  /\ c \in CacheType /\ Exact(c.alloc) /\ NoRepeat(c.prefixes)
  /\ \A o \in Owners : Owns(c, o) /\ Content(c, o) /\ Placed(c, o)

\* The entries hold the whole of their keys.
Whole(c) == \A k \in CachedKeys(c) : c.length[k] = Len(k)

\* Between c and d, nothing changed for the owners in S.
Kept(c, d, S) ==
  \A o \in S : /\ d.table[o] = c.table[o] /\ d.length[o] = c.length[o]
               /\ \A b \in ToSet(c.table[o]) : d.pool[b] = c.pool[b]

\* The fields of a cache.
LEMMA Fields ==
  ASSUME NEW c \in CacheType
  PROVE  /\ c.alloc \in AllocatorType /\ c.resident \subseteq Reqs /\ c.prefixes \in Seq(Keys)
         /\ c.table \in [Owners -> Seq(Blocks)] /\ c.length \in [Owners -> Nat]
         /\ c.pool \in [Blocks -> [Slots -> Seq(Nat)]]
         /\ c = [alloc |-> c.alloc, resident |-> c.resident, prefixes |-> c.prefixes,
                 table |-> c.table, length |-> c.length, pool |-> c.pool]
BY DEF CacheType

\* Whose table and blocks are kept, keeps its content.
LEMMA ContentKept ==
  ASSUME NEW c, NEW d, NEW S, NEW o \in S, Kept(c, d, S), Content(c, o)
  PROVE  Content(d, o)
<1>1. d.table[o] = c.table[o] /\ d.length[o] = c.length[o] /\ \A b \in ToSet(c.table[o]) : d.pool[b] = c.pool[b]
  BY DEF Kept
<1> SUFFICES ASSUME NEW p \in 0 .. c.length[o] - 1
             PROVE  /\ p \div BlockSize + 1 \in DOMAIN c.table[o]
                    /\ d.pool[BlockAt(d, o, p)][SlotAt(p)] = SubSeq(History(o), 1, p + 1)
  BY <1>1 DEF Content
<1>2. /\ p \div BlockSize + 1 \in DOMAIN c.table[o]
      /\ c.pool[BlockAt(c, o, p)][SlotAt(p)] = SubSeq(History(o), 1, p + 1)
  BY DEF Content
<1>3. BlockAt(c, o, p) \in ToSet(c.table[o]) /\ BlockAt(d, o, p) = BlockAt(c, o, p)
  BY <1>1, <1>2 DEF BlockAt, ToSet
<1> QED BY <1>1, <1>2, <1>3

(* An operation on the blocks of one owner o leaves the cache sound if it  *)
(* leaves o sound and the others alone.                                    *)
LEMMA SoundAfter ==
  ASSUME NEW c, NEW d, NEW o \in Owners, Sound(c),
         d \in CacheType, Exact(d.alloc), NoRepeat(d.prefixes),
         Kept(c, d, Owners \ {o}),
         \A x \in Owners \ {o} : Owned(d.alloc, x) = Owned(c.alloc, x),
         (c.resident \cup CachedKeys(c)) \ {o} \subseteq d.resident \cup CachedKeys(d),
         Owns(d, o), Content(d, o), Placed(d, o)
  PROVE  Sound(d)
<1> SUFFICES ASSUME NEW x \in Owners \ {o} PROVE Owns(d, x) /\ Content(d, x) /\ Placed(d, x)
  BY DEF Sound
<1>1. d.table[x] = c.table[x] BY DEF Kept
<1>2. Owns(c, x) /\ Content(c, x) /\ Placed(c, x) BY DEF Sound
<1>3. Owns(d, x) BY <1>1, <1>2 DEF Owns
<1>4. Content(d, x) BY <1>2, ContentKept
<1>5. Placed(d, x) BY <1>1, <1>2 DEF Placed
<1> QED BY <1>3, <1>4, <1>5

-----------------------------------------------------------------------------
(* What the steps an operation is made of do to a sound cache.             *)

\* A table grows.
Grows(c, d, o, n) ==
  /\ Sound(d) /\ Kept(c, d, Owners \ {o})
  /\ d.resident = c.resident /\ d.prefixes = c.prefixes
  /\ d.length = c.length /\ d.pool = c.pool
  /\ Len(d.table[o]) = Len(c.table[o]) + n
  /\ \A i \in DOMAIN c.table[o] : i \in DOMAIN d.table[o] /\ d.table[o][i] = c.table[o][i]
  /\ Len(d.alloc.free) = Len(c.alloc.free) - n

LEMMA GrantSound ==
  ASSUME NEW c, Sound(c), NEW o \in c.resident \cup CachedKeys(c), o \in Owners,
         NEW n \in Nat, CanSatisfy(c.alloc, n)
  PROVE  Grows(c, Granted(c, o, n), o, n)
<1> DEFINE d == Granted(c, o, n)
           s == Popped(c.alloc.free, n)
           t == c.table[o]
           u == t \o s
<1>1. c \in CacheType /\ PoolSound(c.alloc) /\ Owns(c, o) /\ Content(c, o)
  BY DEF Sound, CacheType, PoolSound
<1>2. /\ d.alloc = AfterAllocate(c.alloc, o, n) /\ d.resident = c.resident
      /\ d.prefixes = c.prefixes /\ d.length = c.length /\ d.pool = c.pool
      /\ d.table = [c.table EXCEPT ![o] = u]
  <2> DEFINE y == AfterAllocate(c.alloc, o, n)
  <2>1. d = [c EXCEPT !.table[o] = u, !.alloc = y] BY DEF Granted
  <2> HIDE DEF d, u, y
  <2>2. /\ d.alloc = y /\ d.resident = c.resident /\ d.prefixes = c.prefixes
        /\ d.length = c.length /\ d.pool = c.pool /\ d.table = [c.table EXCEPT ![o] = u]
    BY <1>1, <2>1 DEF CacheType
  <2> QED BY <2>2 DEF y
<1>3. /\ s \in Seq(Blocks) /\ Len(s) = n /\ NoRepeat(s) /\ Owned(c.alloc, o) \cap ToSet(s) = {}
      /\ Owned(d.alloc, o) = Owned(c.alloc, o) \cup ToSet(s)
      /\ \A x \in Owners \ {o} : Owned(d.alloc, x) = Owned(c.alloc, x)
      /\ Len(d.alloc.free) = Len(c.alloc.free) - n
  BY <1>1, <1>2, AllocateOwns
<1>4. PoolSound(d.alloc) BY <1>1, <1>2, AllocateSound
<1>5. /\ c.table \in [Owners -> Seq(Blocks)] /\ t \in Seq(Blocks)
      /\ NoRepeat(t) /\ Owned(c.alloc, o) = ToSet(t)
  BY <1>1, Fields DEF Owns
<1>6. /\ u \in Seq(Blocks) /\ NoRepeat(u) /\ Len(u) = Len(t) + Len(s)
      /\ ToSet(u) = ToSet(t) \cup ToSet(s)
      /\ \A i \in DOMAIN t : i \in DOMAIN u /\ u[i] = t[i]
  <2> HIDE DEF s, t
  <2>1. ToSet(t) \cap ToSet(s) = {} BY <1>3, <1>5
  <2>2. t \in Seq(Blocks) /\ s \in Seq(Blocks) /\ NoRepeat(t) /\ NoRepeat(s) BY <1>3, <1>5
  <2> QED BY <2>1, <2>2, JoinApart, Zenon
<1>7. d.table[o] = u /\ \A x \in Owners \ {o} : d.table[x] = c.table[x] BY <1>2, <1>5
<1>8. d \in CacheType
  <2> DEFINE y == AfterAllocate(c.alloc, o, n)
  <2>1. u \in Seq(Blocks) /\ y \in AllocatorType BY <1>2, <1>4, <1>6 DEF PoolSound
  <2>2. d = [c EXCEPT !.table[o] = u, !.alloc = y] BY DEF Granted
  <2> HIDE DEF d, u, y
  <2> QED BY <1>1, <2>1, <2>2 DEF CacheType
<1> HIDE DEF d, u
<1>9. Kept(c, d, Owners \ {o}) BY <1>2, <1>7 DEF Kept
<1>10. Owns(d, o) BY <1>3, <1>5, <1>6, <1>7 DEF Owns
<1>11. Content(d, o)
  <2> SUFFICES ASSUME NEW p \in 0 .. c.length[o] - 1
               PROVE  /\ p \div BlockSize + 1 \in DOMAIN u
                      /\ d.pool[BlockAt(d, o, p)][SlotAt(p)] = SubSeq(History(o), 1, p + 1)
    BY <1>2, <1>7 DEF Content
  <2>1. /\ p \div BlockSize + 1 \in DOMAIN t
        /\ c.pool[BlockAt(c, o, p)][SlotAt(p)] = SubSeq(History(o), 1, p + 1)
    BY <1>1 DEF Content
  <2>2. BlockAt(d, o, p) = BlockAt(c, o, p) BY <2>1, <1>6, <1>7 DEF BlockAt
  <2> QED BY <1>2, <1>6, <2>1, <2>2
<1>12. CachedKeys(d) = CachedKeys(c) BY <1>2 DEF CachedKeys
<1>13. Placed(d, o) BY <1>2, <1>12 DEF Placed
<1>14. Sound(d)
  <2>1. Exact(d.alloc) /\ NoRepeat(d.prefixes) BY <1>2, <1>4 DEF PoolSound, Sound
  <2> QED BY <1>2, <1>3, <1>8, <1>9, <1>10, <1>11, <1>12, <1>13, <2>1, SoundAfter
<1> QED BY <1>2, <1>3, <1>6, <1>7, <1>9, <1>14 DEF d, Grows

\* No block is in the tables of two owners.
LEMMA BlocksApart ==
  ASSUME NEW c, Sound(c), NEW x \in Owners, NEW y \in Owners, x # y
  PROVE  ToSet(c.table[x]) \cap ToSet(c.table[y]) = {}
<1>1. Owned(c.alloc, x) = ToSet(c.table[x]) /\ Owned(c.alloc, y) = ToSet(c.table[y])
  BY DEF Sound, Owns
<1>2. Owned(c.alloc, x) \cap Owned(c.alloc, y) = {} BY DEF Owned
<1> QED BY <1>1, <1>2

LEMMA KeptTrans ==
  ASSUME NEW c, NEW d, NEW e, NEW S, Kept(c, d, S), Kept(d, e, S)
  PROVE  Kept(c, e, S)
BY DEF Kept

\* All blocks of an owner are given back.
LEMMA FreedSound ==
  ASSUME NEW c, Sound(c), NEW o \in Owners
  PROVE  LET d == Freed(c, o) IN
         /\ Sound(d) /\ Kept(c, d, Owners \ {o})
         /\ d.resident = c.resident /\ d.prefixes = c.prefixes
         /\ d.table[o] = <<>> /\ d.length[o] = 0
         /\ Len(d.alloc.free) = Len(c.alloc.free) + Len(c.table[o])
<1> DEFINE d == Freed(c, o)
           t == c.table[o]
           y == AfterFree(c.alloc, t)
           z == [b \in Blocks |-> IF b \in ToSet(t) THEN Blank ELSE c.pool[b]]
<1>1. c \in CacheType /\ PoolSound(c.alloc) /\ Owns(c, o)
  BY DEF Sound, CacheType, PoolSound
<1>2. /\ c.table \in [Owners -> Seq(Blocks)] /\ t \in Seq(Blocks)
      /\ NoRepeat(t) /\ Owned(c.alloc, o) = ToSet(t)
      /\ c.pool \in [Blocks -> [Slots -> Seq(Nat)]] /\ c.length \in [Owners -> Nat]
  BY <1>1, Fields DEF Owns
<1>3. /\ PoolSound(y) /\ Owned(y, o) = {}
      /\ \A x \in Owners \ {o} : Owned(y, x) = Owned(c.alloc, x)
      /\ Len(y.free) = Len(c.alloc.free) + Len(t)
  <2> DEFINE a == c.alloc
  <2>1. PoolSound(a) /\ t \in Seq(Blocks) /\ NoRepeat(t) /\ Owned(a, o) = ToSet(t) BY <1>1, <1>2
  <2> HIDE DEF t, a
  <2>2. /\ PoolSound(AfterFree(a, t)) /\ Owned(AfterFree(a, t), o) = {}
        /\ \A x \in Owners \ {o} : Owned(AfterFree(a, t), x) = Owned(a, x)
        /\ Len(AfterFree(a, t).free) = Len(a.free) + Len(t)
    BY <2>1, FreeOwns
  <2> QED BY <2>2 DEF a
<1>4. z \in [Blocks -> [Slots -> Seq(Nat)]]
  <2>1. Blank \in [Slots -> Seq(Nat)]
    <3>1. <<>> \in Seq(Nat) BY EmptySeq
    <3> QED BY <3>1 DEF Blank
  <2> HIDE DEF t
  <2> QED BY <1>2, <2>1
<1>5. y \in AllocatorType /\ Exact(y) BY <1>3 DEF PoolSound
<1>6. d = [c EXCEPT !.alloc = y, !.pool = z, !.table[o] = <<>>, !.length[o] = 0] BY DEF Freed
<1> HIDE DEF d, y, z
<1>7. d \in CacheType
  <2>1. <<>> \in Seq(Blocks) /\ 0 \in Nat BY EmptySeq
  <2> QED BY <1>1, <1>4, <1>5, <1>6, <2>1 DEF CacheType
<1>8. /\ d.alloc = y /\ d.resident = c.resident /\ d.prefixes = c.prefixes /\ d.pool = z
      /\ d.table = [c.table EXCEPT ![o] = <<>>] /\ d.length = [c.length EXCEPT ![o] = 0]
  BY <1>1, <1>6 DEF CacheType
<1>9. d.table[o] = <<>> /\ d.length[o] = 0 BY <1>2, <1>8
<1>10. Kept(c, d, Owners \ {o})
  <2> SUFFICES ASSUME NEW x \in Owners \ {o}
               PROVE  /\ d.table[x] = c.table[x] /\ d.length[x] = c.length[x]
                      /\ \A b \in ToSet(c.table[x]) : d.pool[b] = c.pool[b]
    BY DEF Kept
  <2>1. d.table[x] = c.table[x] /\ d.length[x] = c.length[x] BY <1>2, <1>8
  <2>2. ToSet(c.table[x]) \cap ToSet(t) = {} BY BlocksApart
  <2>3. Owned(c.alloc, x) = ToSet(c.table[x]) BY DEF Sound, Owns
  <2>4. \A b \in ToSet(c.table[x]) : b \in Blocks /\ b \notin ToSet(t) BY <2>2, <2>3 DEF Owned
  <2>5. \A b \in ToSet(c.table[x]) : d.pool[b] = c.pool[b] BY <2>4, <1>8 DEF z
  <2> QED BY <2>1, <2>5
<1>11. Owns(d, o)
  <2>1. NoRepeat(<<>>) /\ ToSet(<<>>) = {} BY DEF NoRepeat, ToSet
  <2> QED BY <2>1, <1>3, <1>8, <1>9 DEF Owns
<1>12. Content(d, o) /\ Placed(d, o) BY <1>9 DEF Content, Placed
<1>13. Sound(d)
  <2>1. (c.resident \cup CachedKeys(c)) \ {o} \subseteq d.resident \cup CachedKeys(d)
    BY <1>8 DEF CachedKeys
  <2>2. NoRepeat(d.prefixes) BY <1>8 DEF Sound
  <2> QED BY <1>3, <1>5, <1>7, <1>8, <1>10, <1>11, <1>12, <2>1, <2>2, SoundAfter
<1> QED BY <1>3, <1>8, <1>9, <1>10, <1>13 DEF d

\* An entry is dropped.
LEMMA DropSound ==
  ASSUME NEW c, Sound(c), NEW k \in CachedKeys(c)
  PROVE  LET d == Dropped(c, k) IN
         /\ Sound(d) /\ Kept(c, d, Owners \ {k}) /\ k \in Owners
         /\ d.resident = c.resident /\ CachedKeys(d) = CachedKeys(c) \ {k}
         /\ Len(d.prefixes) = Len(c.prefixes) - 1
         /\ Len(d.alloc.free) = Len(c.alloc.free) + Len(c.table[k])
<1> DEFINE e == Freed(c, k)
           d == Dropped(c, k)
           s == Without(c.prefixes, k)
<1>1. c \in CacheType /\ c.prefixes \in Seq(Keys) /\ NoRepeat(c.prefixes) BY Fields DEF Sound
<1>2. k \in Owners /\ k \in Keys
  <2>1. PICK i \in 1 .. Len(c.prefixes) : c.prefixes[i] = k BY <1>1, Members DEF CachedKeys
  <2>2. k \in Keys BY <1>1, <2>1, ElementOfSeq
  <2> QED BY <2>2, KeysAre
<1>3. /\ Sound(e) /\ Kept(c, e, Owners \ {k})
      /\ e.resident = c.resident /\ e.prefixes = c.prefixes
      /\ e.table[k] = <<>> /\ e.length[k] = 0
      /\ Len(e.alloc.free) = Len(c.alloc.free) + Len(c.table[k])
  BY <1>2, FreedSound
<1>4. /\ s \in Seq(Keys) /\ NoRepeat(s) /\ Len(s) = Len(c.prefixes) - 1
      /\ ToSet(s) = CachedKeys(c) \ {k}
  <2>1. k \in ToSet(c.prefixes) BY DEF CachedKeys
  <2> QED BY <1>1, <2>1, WithoutIt DEF CachedKeys
<1>5. d = [e EXCEPT !.prefixes = s] BY <1>3 DEF Dropped
<1>6. e \in CacheType BY <1>3 DEF Sound
<1> HIDE DEF e, d, s
<1>7. d \in CacheType BY <1>4, <1>5, <1>6 DEF CacheType
<1>8. /\ d.alloc = e.alloc /\ d.resident = e.resident /\ d.prefixes = s /\ d.pool = e.pool
      /\ d.table = e.table /\ d.length = e.length
  BY <1>5, <1>6 DEF CacheType
<1>9. CachedKeys(d) = CachedKeys(c) \ {k} BY <1>4, <1>8 DEF CachedKeys
<1>10. Kept(e, d, Owners) BY <1>8 DEF Kept
<1>11. Kept(c, d, Owners \ {k}) BY <1>3, <1>8 DEF Kept
<1>12. Sound(d)
  <2>1. Owns(e, k) /\ Content(e, k) /\ Exact(e.alloc) BY <1>2, <1>3 DEF Sound
  <2>2. Owns(d, k) /\ Content(d, k) BY <1>8, <2>1 DEF Owns, Content, BlockAt
  <2>3. Placed(d, k) BY <1>3, <1>8 DEF Placed
  <2>4. (e.resident \cup CachedKeys(e)) \ {k} \subseteq d.resident \cup CachedKeys(d)
    BY <1>3, <1>8, <1>9 DEF CachedKeys
  <2>5. Kept(e, d, Owners \ {k}) BY <1>10 DEF Kept
  <2>6. Exact(d.alloc) /\ NoRepeat(d.prefixes) BY <1>4, <1>8, <2>1
  <2>7. \A x \in Owners \ {k} : Owned(d.alloc, x) = Owned(e.alloc, x) BY <1>8
  <2> QED BY <1>2, <1>3, <1>7, <2>2, <2>3, <2>4, <2>5, <2>6, <2>7, SoundAfter
<1> QED BY <1>2, <1>3, <1>4, <1>8, <1>9, <1>11, <1>12 DEF d

\* A request's table is given back.
LEMMA AfterDropSound ==
  ASSUME NEW c, Sound(c), NEW r \in Reqs
  PROVE  LET d == AfterDrop(c, r) IN
         /\ Sound(d) /\ Kept(c, d, Owners \ {r})
         /\ d.resident = c.resident \ {r} /\ d.prefixes = c.prefixes
<1> DEFINE e == Freed(c, r)
           d == AfterDrop(c, r)
           s == c.resident \ {r}
<1>1. r \in Owners BY OwnersAssumption
<1>2. /\ Sound(e) /\ Kept(c, e, Owners \ {r})
      /\ e.resident = c.resident /\ e.prefixes = c.prefixes
      /\ e.table[r] = <<>> /\ e.length[r] = 0
  BY <1>1, FreedSound
<1>3. d = [e EXCEPT !.resident = s] BY <1>2 DEF AfterDrop
<1>4. e \in CacheType /\ s \subseteq Reqs
  <2>1. c \in CacheType /\ e \in CacheType BY <1>2 DEF Sound
  <2> QED BY <2>1, Fields
<1> HIDE DEF e, d, s
<1>5. d \in CacheType BY <1>3, <1>4 DEF CacheType
<1>6. /\ d.alloc = e.alloc /\ d.resident = s /\ d.prefixes = e.prefixes /\ d.pool = e.pool
      /\ d.table = e.table /\ d.length = e.length
  BY <1>3, <1>4 DEF CacheType
<1>7. Kept(c, d, Owners \ {r}) /\ Kept(e, d, Owners \ {r}) BY <1>2, <1>6 DEF Kept
<1>8. Sound(d)
  <2>1. Owns(e, r) /\ Content(e, r) /\ Exact(e.alloc) /\ NoRepeat(e.prefixes)
    BY <1>1, <1>2 DEF Sound
  <2>2. Owns(d, r) /\ Content(d, r) BY <1>6, <2>1 DEF Owns, Content, BlockAt
  <2>3. Placed(d, r) BY <1>2, <1>6 DEF Placed
  <2>4. (e.resident \cup CachedKeys(e)) \ {r} \subseteq d.resident \cup CachedKeys(d)
    BY <1>2, <1>6 DEF CachedKeys, s
  <2>5. Exact(d.alloc) /\ NoRepeat(d.prefixes) BY <1>6, <2>1
  <2>6. \A x \in Owners \ {r} : Owned(d.alloc, x) = Owned(e.alloc, x) BY <1>6
  <2> QED BY <1>1, <1>2, <1>5, <1>7, <2>2, <2>3, <2>4, <2>5, <2>6, SoundAfter
<1> QED BY <1>2, <1>6, <1>7, <1>8 DEF d, s

(* Requests and entries come or change their order, while all blocks stay  *)
(* where they are.                                                         *)
LEMMA SameBlocks ==
  ASSUME NEW c, Sound(c), NEW d \in CacheType,
         d.alloc = c.alloc, d.table = c.table, d.length = c.length, d.pool = c.pool,
         NoRepeat(d.prefixes),
         c.resident \cup CachedKeys(c) \subseteq d.resident \cup CachedKeys(d)
  PROVE  Sound(d) /\ Kept(c, d, Owners)
<1>1. Kept(c, d, Owners) BY DEF Kept
<1>2. ASSUME NEW o \in Owners PROVE Owns(d, o) /\ Content(d, o) /\ Placed(d, o)
  <2>1. Owns(c, o) /\ Content(c, o) /\ Placed(c, o) BY DEF Sound
  <2>2. Content(d, o) BY <1>1, <2>1, ContentKept
  <2> QED BY <2>1, <2>2 DEF Owns, Placed
<1>3. Exact(d.alloc) BY DEF Sound
<1> QED BY <1>1, <1>2, <1>3 DEF Sound

LEMMA TouchSound ==
  ASSUME NEW c, Sound(c), NEW k \in CachedKeys(c)
  PROVE  LET d == Touched(c, k) IN
         /\ Sound(d) /\ Kept(c, d, Owners)
         /\ d.resident = c.resident /\ CachedKeys(d) = CachedKeys(c)
<1> DEFINE d == Touched(c, k)
           u == Without(c.prefixes, k)
           s == Append(u, k)
<1>1. c \in CacheType /\ c.prefixes \in Seq(Keys) /\ NoRepeat(c.prefixes) BY Fields DEF Sound
<1>2. k \in ToSet(c.prefixes) BY DEF CachedKeys
<1>3. k \in Keys
  <2>1. PICK i \in 1 .. Len(c.prefixes) : c.prefixes[i] = k BY <1>1, <1>2, Members
  <2> QED BY <1>1, <2>1, ElementOfSeq
<1>4. u \in Seq(Keys) /\ NoRepeat(u) /\ ToSet(u) = ToSet(c.prefixes) \ {k}
  BY <1>1, <1>2, WithoutIt
<1> HIDE DEF u
<1>5. s \in Seq(Keys) /\ NoRepeat(s) /\ ToSet(s) = ToSet(u) \cup {k} BY <1>3, <1>4, AppendNew
<1>6. d = [c EXCEPT !.prefixes = s] BY DEF Touched, u
<1> HIDE DEF d, s
<1>7. d \in CacheType BY <1>1, <1>5, <1>6 DEF CacheType
<1>8. /\ d.alloc = c.alloc /\ d.resident = c.resident /\ d.prefixes = s /\ d.pool = c.pool
      /\ d.table = c.table /\ d.length = c.length
  BY <1>1, <1>6 DEF CacheType
<1>9. CachedKeys(d) = CachedKeys(c) BY <1>2, <1>4, <1>5, <1>8 DEF CachedKeys
<1>10. Sound(d) /\ Kept(c, d, Owners) BY <1>5, <1>7, <1>8, <1>9, SameBlocks
<1> QED BY <1>8, <1>9, <1>10 DEF d

LEMMA ReserveSound ==
  ASSUME NEW c, Sound(c), NEW r \in Reqs
  PROVE  LET d == AfterReserve(c, r) IN
         /\ Sound(d) /\ Kept(c, d, Owners)
         /\ d.resident = c.resident \cup {r} /\ d.prefixes = c.prefixes
<1> DEFINE d == AfterReserve(c, r)
           s == c.resident \cup {r}
<1>1. c \in CacheType /\ s \subseteq Reqs /\ NoRepeat(c.prefixes) BY Fields DEF Sound
<1>2. d = [c EXCEPT !.resident = s] BY DEF AfterReserve
<1>3. c.resident \subseteq s OBVIOUS
<1> HIDE DEF d, s
<1>4. d \in CacheType BY <1>1, <1>2 DEF CacheType
<1>5. /\ d.alloc = c.alloc /\ d.resident = s /\ d.prefixes = c.prefixes /\ d.pool = c.pool
      /\ d.table = c.table /\ d.length = c.length
  BY <1>1, <1>2 DEF CacheType
<1>6. c.resident \cup CachedKeys(c) \subseteq d.resident \cup CachedKeys(d)
  BY <1>3, <1>5 DEF CachedKeys
<1>7. Sound(d) /\ Kept(c, d, Owners) BY <1>1, <1>4, <1>5, <1>6, SameBlocks
<1> QED BY <1>5, <1>7 DEF d, s

LEMMA EnterSound ==
  ASSUME NEW c, Sound(c), NEW k \in Keys, k \notin CachedKeys(c)
  PROVE  LET d == [c EXCEPT !.prefixes = Append(@, k)] IN
         /\ Sound(d) /\ Kept(c, d, Owners)
         /\ d.resident = c.resident /\ CachedKeys(d) = CachedKeys(c) \cup {k}
         /\ d.alloc = c.alloc
<1> DEFINE d == [c EXCEPT !.prefixes = Append(@, k)]
           s == Append(c.prefixes, k)
<1>1. c \in CacheType /\ c.prefixes \in Seq(Keys) /\ NoRepeat(c.prefixes) BY Fields DEF Sound
<1>2. s \in Seq(Keys) /\ NoRepeat(s) /\ ToSet(s) = CachedKeys(c) \cup {k}
  <2>1. k \notin ToSet(c.prefixes) BY DEF CachedKeys
  <2> QED BY <1>1, <2>1, AppendNew DEF CachedKeys
<1>3. d = [c EXCEPT !.prefixes = s] OBVIOUS
<1> HIDE DEF d, s
<1>4. d \in CacheType BY <1>1, <1>2, <1>3 DEF CacheType
<1>5. /\ d.alloc = c.alloc /\ d.resident = c.resident /\ d.prefixes = s /\ d.pool = c.pool
      /\ d.table = c.table /\ d.length = c.length
  BY <1>1, <1>3 DEF CacheType
<1>6. CachedKeys(d) = CachedKeys(c) \cup {k} BY <1>2, <1>5 DEF CachedKeys
<1>7. Sound(d) /\ Kept(c, d, Owners) BY <1>2, <1>4, <1>5, <1>6, SameBlocks
<1> QED BY <1>5, <1>6, <1>7 DEF d

Copies(c, d, o, n) ==
  /\ Sound(d) /\ Kept(c, d, Owners \ {o})
  /\ d.resident = c.resident /\ d.prefixes = c.prefixes
  /\ d.alloc = c.alloc /\ d.table = c.table /\ d.length[o] = n

\* The first n positions of source are copied into the blocks of o.
LEMMA CopySound ==
  ASSUME NEW c, Sound(c), NEW source \in Owners, NEW o \in Owners, source # o,
         NEW n \in Nat, n <= c.length[source],
         DOMAIN c.table[o] \subseteq DOMAIN c.table[source],
         \A p \in 0 .. n - 1 : /\ p \div BlockSize + 1 \in DOMAIN c.table[o]
                               /\ SubSeq(History(source), 1, p + 1) = SubSeq(History(o), 1, p + 1)
  PROVE  Copies(c, Copied(c, source, o, n), o, n)
<1> DEFINE d == Copied(c, source, o, n)
           t == c.table[o]
           u == c.table[source]
           z == [b \in Blocks |-> IF b \in ToSet(t)
                                  THEN c.pool[u[CHOOSE i \in DOMAIN t : t[i] = b]]
                                  ELSE c.pool[b]]
<1>1. c \in CacheType /\ Owns(c, o) /\ Content(c, source) /\ Exact(c.alloc) /\ NoRepeat(c.prefixes)
  BY DEF Sound
<1>2. /\ t \in Seq(Blocks) /\ u \in Seq(Blocks) /\ NoRepeat(t)
      /\ c.pool \in [Blocks -> [Slots -> Seq(Nat)]] /\ c.length \in [Owners -> Nat]
  BY <1>1, Fields DEF Owns
<1>3. d = [c EXCEPT !.length[o] = n, !.pool = z] BY DEF Copied
<1>4. \A i \in DOMAIN t : /\ t[i] \in Blocks /\ t[i] \in ToSet(t)
                          /\ i \in DOMAIN u /\ u[i] \in Blocks
  BY <1>2, LenProperties, ElementOfSeq DEF ToSet
<1>5. \A i, j \in DOMAIN t : t[i] = t[j] => i = j BY <1>2, LenProperties DEF NoRepeat
<1> HIDE DEF t, u, d
<1>6. \A i \in DOMAIN t : z[t[i]] = c.pool[u[i]]
  <2> TAKE i \in DOMAIN t
  <2>1. (CHOOSE j \in DOMAIN t : t[j] = t[i]) = i BY <1>5
  <2> QED BY <1>4, <2>1
<1>7. \A b \in Blocks : b \notin ToSet(t) => z[b] = c.pool[b] OBVIOUS
<1>8. z \in [Blocks -> [Slots -> Seq(Nat)]]
  <2>1. ASSUME NEW b \in Blocks PROVE z[b] \in [Slots -> Seq(Nat)]
    <3>1. CASE b \in ToSet(t)
      <4>1. PICK i \in DOMAIN t : t[i] = b BY <3>1 DEF ToSet
      <4> HIDE DEF z
      <4> QED BY <4>1, <1>2, <1>4, <1>6
    <3>2. CASE b \notin ToSet(t)
      <4>1. z[b] = c.pool[b] BY <3>2, <1>7
      <4> HIDE DEF z
      <4> QED BY <4>1, <1>2
    <3> QED BY <3>1, <3>2
  <2> QED BY <2>1
<1> HIDE DEF z
<1>9. d \in CacheType BY <1>1, <1>3, <1>8 DEF CacheType
<1>10. /\ d.alloc = c.alloc /\ d.resident = c.resident /\ d.prefixes = c.prefixes /\ d.pool = z
       /\ d.table = c.table /\ d.length = [c.length EXCEPT ![o] = n]
  BY <1>1, <1>3 DEF CacheType
<1>11. d.length[o] = n BY <1>2, <1>10
<1>12. Kept(c, d, Owners \ {o})
  <2> SUFFICES ASSUME NEW x \in Owners \ {o}
               PROVE  d.length[x] = c.length[x] /\ \A b \in ToSet(c.table[x]) : d.pool[b] = c.pool[b]
    BY <1>10 DEF Kept
  <2>1. d.length[x] = c.length[x] BY <1>2, <1>10
  <2>2. ToSet(c.table[x]) \cap ToSet(t) = {} BY BlocksApart DEF t
  <2>3. Owned(c.alloc, x) = ToSet(c.table[x]) BY DEF Sound, Owns
  <2>4. \A b \in ToSet(c.table[x]) : b \in Blocks /\ b \notin ToSet(t) BY <2>2, <2>3 DEF Owned
  <2> QED BY <2>1, <2>4, <1>7, <1>10
<1>13. Content(d, o)
  <2> SUFFICES ASSUME NEW p \in 0 .. n - 1
               PROVE  /\ p \div BlockSize + 1 \in DOMAIN t
                      /\ z[BlockAt(d, o, p)][SlotAt(p)] = SubSeq(History(o), 1, p + 1)
    BY <1>10, <1>11 DEF Content, t
  <2> DEFINE q == p \div BlockSize + 1
  <2>1. q \in DOMAIN t /\ SubSeq(History(source), 1, p + 1) = SubSeq(History(o), 1, p + 1) BY DEF t
  <2>2. p \in 0 .. c.length[source] - 1 BY <1>2
  <2>3. c.pool[u[q]][SlotAt(p)] = SubSeq(History(source), 1, p + 1)
    BY <1>1, <2>2 DEF Content, BlockAt, u
  <2>4. BlockAt(d, o, p) = t[q] BY <1>10 DEF BlockAt, t
  <2> HIDE DEF q
  <2>5. z[BlockAt(d, o, p)][SlotAt(p)] = SubSeq(History(o), 1, p + 1)
    BY <1>6, <2>1, <2>3, <2>4
  <2> QED BY <2>1, <2>5 DEF q
<1>14. Sound(d)
  <2>1. Owns(d, o) /\ Placed(d, o)
    <3>1. Placed(c, o) BY DEF Sound
    <3> QED BY <3>1, <1>1, <1>10 DEF Owns, Placed, CachedKeys
  <2>2. \A x \in Owners \ {o} : Owned(d.alloc, x) = Owned(c.alloc, x) BY <1>10
  <2>3. (c.resident \cup CachedKeys(c)) \ {o} \subseteq d.resident \cup CachedKeys(d)
    BY <1>10 DEF CachedKeys
  <2>4. Exact(d.alloc) /\ NoRepeat(d.prefixes) BY <1>1, <1>10
  <2> QED BY <1>9, <1>12, <1>13, <2>1, <2>2, <2>3, <2>4, SoundAfter
<1> QED BY <1>10, <1>11, <1>12, <1>14 DEF d, Copies

-----------------------------------------------------------------------------
(* What repeats: a recursive function, and what holds of all its values.   *)

LEMMA Upto ==
  ASSUME NEW N \in Nat, NEW G, 0 \in G, \A n \in 1 .. N : n - 1 \in G => n \in G
  PROVE  \A n \in 0 .. N : n \in G
<1> DEFINE T == {n \in 0 .. N : n \notin G}
<1> SUFFICES ASSUME T # {} PROVE FALSE OBVIOUS
<1>1. T \subseteq Nat OBVIOUS
<1>2. PICK n \in T : \A m \in Nat : m < n => m \notin T
  <2> HIDE DEF T
  <2> QED BY <1>1, LeastNumber
<1>3. n \in 1 .. N /\ n \notin G BY <1>2
<1>4. n - 1 \in Nat /\ n - 1 < n /\ n - 1 \in 0 .. N BY <1>3
<1>5. n - 1 \in G BY <1>2, <1>4
<1> QED BY <1>3, <1>5

\* f is what N steps from init give.
Steps(f, N, V, init, step) ==
  f \in [0 .. N -> V] /\ f[0] = init /\ \A n \in 1 .. N : f[n] = step[n][f[n - 1]]

LEMMA Recursion ==
  ASSUME NEW N \in Nat, NEW V, NEW init \in V, NEW step \in [1 .. N -> [V -> V]]
  PROVE  \E f : Steps(f, N, V, init, step)
<1> DEFINE Is(f, m) == f \in [0 .. m -> V] /\ f[0] = init /\ \A n \in 1 .. m : f[n] = step[n][f[n - 1]]
           G == {m \in 0 .. N : \E f : Is(f, m)}
<1>1. 0 \in G
  <2> DEFINE f == [n \in 0 .. 0 |-> init]
  <2>1. Is(f, 0) OBVIOUS
  <2> HIDE DEF f
  <2> QED BY <2>1
<1>2. ASSUME NEW m \in 1 .. N, m - 1 \in G PROVE m \in G
  <2>1. PICK f : Is(f, m - 1) BY <1>2
  <2> DEFINE v == step[m][f[m - 1]]
             g == [n \in 0 .. m |-> IF n = m THEN v ELSE f[n]]
  <2>2. m - 1 \in 0 .. m - 1 /\ \A n \in 0 .. m : n = m \/ n \in 0 .. m - 1 OBVIOUS
  <2>3. v \in V
    <3>1. f[m - 1] \in V BY <2>1, <2>2
    <3> QED BY <3>1
  <2> HIDE DEF v
  <2>4. g \in [0 .. m -> V] BY <2>1, <2>2, <2>3
  <2>5. g[m] = v /\ \A n \in 0 .. m - 1 : g[n] = f[n] OBVIOUS
  <2>6. g[0] = init
    <3>1. 0 \in 0 .. m - 1 OBVIOUS
    <3> QED BY <3>1, <2>1, <2>5
  <2>7. ASSUME NEW n \in 1 .. m PROVE g[n] = step[n][g[n - 1]]
    <3>1. n - 1 \in 0 .. m - 1 OBVIOUS
    <3>2. g[n - 1] = f[n - 1] BY <3>1, <2>5
    <3>3. CASE n = m BY <3>2, <3>3, <2>5 DEF v
    <3>4. CASE n # m
      <4>1. n \in 1 .. m - 1 /\ n \in 0 .. m - 1 BY <3>4
      <4> QED BY <4>1, <3>2, <2>1, <2>5
    <3> QED BY <3>3, <3>4
  <2> HIDE DEF g
  <2>8. Is(g, m) BY <2>4, <2>6, <2>7
  <2> QED BY <2>8
<1> HIDE DEF G
<1>3. N \in G
  <2>1. \A n \in 0 .. N : n \in G BY <1>1, <1>2, Upto
  <2> QED BY <2>1
<1>4. PICK f : Is(f, N) BY <1>3 DEF G
<1> QED BY <1>4 DEF Steps

-----------------------------------------------------------------------------
(* Entries go: eviction and trimming.                                      *)

\* d is c after some entries were dropped.
Shrunk(c, d) ==
  /\ Sound(d) /\ Kept(c, d, Reqs \cup CachedKeys(d))
  /\ d.resident = c.resident /\ CachedKeys(d) \subseteq CachedKeys(c)
  /\ Len(c.alloc.free) <= Len(d.alloc.free)

LEMMA ShrunkSelf == ASSUME NEW c, Sound(c) PROVE Shrunk(c, c)
<1>1. c.alloc \in AllocatorType BY Fields DEF Sound
<1>2. Len(c.alloc.free) \in Nat BY <1>1, LenProperties DEF AllocatorType
<1> QED BY <1>2 DEF Shrunk, Kept

LEMMA FreeNat == ASSUME NEW c, Sound(c) PROVE Len(c.alloc.free) \in Nat
<1>1. c.alloc \in AllocatorType BY Fields DEF Sound
<1> QED BY <1>1, LenProperties DEF AllocatorType

LEMMA ShrunkDrop ==
  ASSUME NEW c, Sound(c), NEW d, Shrunk(c, d), NEW k \in CachedKeys(d)
  PROVE  Shrunk(c, Dropped(d, k))
<1> DEFINE e == Dropped(d, k)
<1>1. Sound(d) BY DEF Shrunk
<1>2. /\ Sound(e) /\ Kept(d, e, Owners \ {k}) /\ k \in Owners
      /\ e.resident = d.resident /\ CachedKeys(e) = CachedKeys(d) \ {k}
      /\ Len(e.alloc.free) = Len(d.alloc.free) + Len(d.table[k])
  BY <1>1, DropSound
<1>3. Len(d.table[k]) \in Nat
  <2>1. d.table[k] \in Seq(Blocks)
    <3>1. d.table \in [Owners -> Seq(Blocks)] BY <1>1, Fields DEF Sound
    <3> QED BY <1>2, <3>1
  <2> QED BY <2>1, LenProperties
<1>4. Len(c.alloc.free) \in Nat /\ Len(d.alloc.free) \in Nat BY <1>1, FreeNat
<1>5. d.prefixes \in Seq(Keys) BY <1>1, Fields DEF Sound
<1> HIDE DEF e
<1>6. Len(c.alloc.free) <= Len(e.alloc.free)
  <2> DEFINE k1 == Len(c.alloc.free)
             k2 == Len(d.alloc.free)
             k3 == Len(e.alloc.free)
             k4 == Len(d.table[k])
  <2>1. k1 \in Nat /\ k2 \in Nat /\ k4 \in Nat /\ k1 <= k2 /\ k3 = k2 + k4
    BY <1>2, <1>3, <1>4, Zenon DEF Shrunk
  <2> HIDE DEF k1, k2, k3, k4
  <2>2. k1 <= k3 BY <2>1
  <2> QED BY <2>2 DEF k1, k3
<1>7. Kept(c, e, Reqs \cup CachedKeys(e))
  <2>1. k \in Keys
    <3>1. PICK i \in 1 .. Len(d.prefixes) : d.prefixes[i] = k BY <1>5, Members DEF CachedKeys
    <3> QED BY <1>5, <3>1, ElementOfSeq
  <2>2. k \notin Reqs /\ Reqs \subseteq Owners BY <2>1, KeysAre, OwnersAssumption
  <2>3. CachedKeys(d) \subseteq Owners
    <3> SUFFICES ASSUME NEW x \in CachedKeys(d) PROVE x \in Owners OBVIOUS
    <3>1. PICK i \in 1 .. Len(d.prefixes) : d.prefixes[i] = x BY <1>5, Members DEF CachedKeys
    <3> QED BY <1>5, <3>1, ElementOfSeq, KeysAre
  <2>4. Kept(c, d, Reqs \cup CachedKeys(e)) BY <1>2 DEF Kept, Shrunk
  <2>5. Kept(d, e, Reqs \cup CachedKeys(e)) BY <1>2, <2>2, <2>3 DEF Kept
  <2> QED BY <2>4, <2>5, KeptTrans
<1>8. e.resident = c.resident /\ CachedKeys(e) \subseteq CachedKeys(c) BY <1>2 DEF Shrunk
<1> QED BY <1>2, <1>6, <1>7, <1>8 DEF Shrunk, e

\* The entries that remain hold what they held.
LEMMA ShrunkWhole == ASSUME NEW c, Whole(c), NEW d, Shrunk(c, d) PROVE Whole(d)
BY DEF Whole, Shrunk, Kept

\* Either there is room, or no entry that may go is left.
Roomy(d, needed, protect) == Len(d.alloc.free) >= needed \/ MayGo(d, protect) = {}

LEMMA EvictOneSound ==
  ASSUME NEW c, Sound(c), NEW d, Shrunk(c, d), NEW needed \in Nat, NEW protect,
         CachedKeys(c) \cap protect \subseteq CachedKeys(d)
  PROVE  LET e == EvictOne(d, needed, protect) IN
         /\ Shrunk(c, e) /\ CachedKeys(c) \cap protect \subseteq CachedKeys(e)
         /\ Roomy(d, needed, protect) => e = d
         /\ ~Roomy(d, needed, protect) => Len(e.prefixes) = Len(d.prefixes) - 1
<1>1. CASE Roomy(d, needed, protect) BY <1>1 DEF EvictOne, Roomy
<1>2. CASE ~Roomy(d, needed, protect)
  <2> DEFINE T == MayGo(d, protect)
             i == MinOf(T)
             k == d.prefixes[i]
  <2>1. Sound(d) BY DEF Shrunk
  <2>2. d.prefixes \in Seq(Keys) BY <2>1, Fields DEF Sound
  <2>3. T # {} BY <1>2 DEF Roomy
  <2>4. T \subseteq Nat
    <3>1. DOMAIN d.prefixes \subseteq Nat BY <2>2, LenProperties
    <3> QED BY <3>1 DEF MayGo
  <2>5. i \in T
    <3> HIDE DEF T
    <3> QED BY <2>3, <2>4, MinOfIs
  <2>6. k \in CachedKeys(d) /\ k \notin protect
    <3> HIDE DEF i
    <3> QED BY <2>5 DEF MayGo, CachedKeys, ToSet
  <2>7. EvictOne(d, needed, protect) = Dropped(d, k) BY <1>2 DEF EvictOne, Roomy
  <2> HIDE DEF k
  <2>8. Shrunk(c, Dropped(d, k)) BY <2>6, ShrunkDrop
  <2>9. CachedKeys(Dropped(d, k)) = CachedKeys(d) \ {k} /\ Len(Dropped(d, k).prefixes) = Len(d.prefixes) - 1
    BY <2>1, <2>6, DropSound
  <2> QED BY <1>2, <2>6, <2>7, <2>8, <2>9
<1> QED BY <1>1, <1>2

(* _evict_prefixes: what it drops are entries that may go, and it ends     *)
(* with the blocks that are needed or without an entry that may go.        *)
LEMMA EvictedSound ==
  ASSUME NEW c, Sound(c), NEW needed \in Nat, NEW protect
  PROVE  LET d == Evicted(c, needed, protect) IN
         /\ Shrunk(c, d) /\ CachedKeys(c) \cap protect \subseteq CachedKeys(d)
         /\ Roomy(d, needed, protect)
<1> DEFINE N == Len(c.prefixes)
           V == {d \in CacheType : Shrunk(c, d) /\ CachedKeys(c) \cap protect \subseteq CachedKeys(d)}
           Step == [n \in 1 .. N |-> [d \in V |-> EvictOne(d, needed, protect)]]
           Is(f) == f = [n \in 0 .. N |-> IF n = 0 THEN c ELSE EvictOne(f[n - 1], needed, protect)]
           after == CHOOSE f : Is(f)
<1>1. N \in Nat
  <2>1. c.prefixes \in Seq(Keys) BY Fields DEF Sound
  <2> QED BY <2>1, LenProperties
<1>2. c \in V BY ShrunkSelf DEF Sound
<1>3. ASSUME NEW d \in V PROVE EvictOne(d, needed, protect) \in V
  <2>1. /\ Shrunk(c, EvictOne(d, needed, protect))
        /\ CachedKeys(c) \cap protect \subseteq CachedKeys(EvictOne(d, needed, protect))
    BY <1>3, EvictOneSound
  <2> QED BY <2>1 DEF Shrunk, Sound
<1>4. \E f : Is(f)
  <2>1. Step \in [1 .. N -> [V -> V]] BY <1>3
  <2>2. \A n \in 1 .. N : \A d \in V : Step[n][d] = EvictOne(d, needed, protect) OBVIOUS
  <2> HIDE DEF N, V, Step
  <2>3. PICK f : Steps(f, N, V, c, Step) BY <1>1, <1>2, <2>1, Recursion
  <2>4. \A n \in 1 .. N : f[n] = EvictOne(f[n - 1], needed, protect)
    <3> TAKE n \in 1 .. N
    <3>1. n - 1 \in 0 .. N BY <1>1
    <3>2. f[n - 1] \in V BY <2>3, <3>1 DEF Steps
    <3> QED BY <2>2, <2>3, <3>2 DEF Steps
  <2>5. Is(f) BY <1>1, <2>3, <2>4 DEF Steps
  <2> QED BY <2>5
<1>5. Evicted(c, needed, protect) = after[N] BY DEF Evicted
<1>6. Is(after) BY <1>4
<1> HIDE DEF after, N
<1>7. after[0] = c /\ \A n \in 1 .. N : after[n] = EvictOne(after[n - 1], needed, protect)
  BY <1>1, <1>6
<1> HIDE DEF V
<1>8. \A n \in 0 .. N : after[n] \in V
  <2> DEFINE G == {n \in 0 .. N : after[n] \in V}
  <2>1. 0 \in G BY <1>1, <1>2, <1>7
  <2>2. ASSUME NEW n \in 1 .. N, n - 1 \in G PROVE n \in G BY <2>2, <1>3, <1>7
  <2> HIDE DEF G
  <2>3. \A n \in 0 .. N : n \in G BY <1>1, <2>1, <2>2, Upto
  <2> QED BY <2>3 DEF G
<1>9. \A n \in 0 .. N : Roomy(after[n], needed, protect) \/ Len(after[n].prefixes) = N - n
  <2> DEFINE G == {n \in 0 .. N : Roomy(after[n], needed, protect) \/ Len(after[n].prefixes) = N - n}
  <2>1. 0 \in G BY <1>1, <1>7 DEF N
  <2>2. ASSUME NEW n \in 1 .. N, n - 1 \in G PROVE n \in G
    <3> DEFINE d == after[n - 1]
               e == after[n]
    <3>1. n - 1 \in 0 .. N BY <1>1
    <3>2. d \in V /\ e = EvictOne(d, needed, protect) BY <3>1, <1>7, <1>8
    <3>3. Roomy(d, needed, protect) \/ Len(d.prefixes) = N - (n - 1) BY <2>2
    <3> HIDE DEF d, e
    <3>4. Shrunk(c, d) /\ CachedKeys(c) \cap protect \subseteq CachedKeys(d) BY <3>2 DEF V
    <3>5. /\ Roomy(d, needed, protect) => e = d
          /\ ~Roomy(d, needed, protect) => Len(e.prefixes) = Len(d.prefixes) - 1
      BY <3>2, <3>4, EvictOneSound
    <3>6. Roomy(e, needed, protect) \/ Len(e.prefixes) = N - n
      <4>1. CASE Roomy(d, needed, protect) BY <4>1, <3>5
      <4>2. CASE ~Roomy(d, needed, protect)
        <5>1. Len(e.prefixes) = (N - (n - 1)) - 1 BY <4>2, <3>3, <3>5
        <5> QED BY <5>1, <1>1
      <4> QED BY <4>1, <4>2
    <3> QED BY <3>6 DEF e
  <2> HIDE DEF G
  <2>3. \A n \in 0 .. N : n \in G BY <1>1, <2>1, <2>2, Upto
  <2> QED BY <2>3 DEF G
<1>10. N \in 0 .. N BY <1>1
<1> DEFINE d == after[N]
<1>11. Shrunk(c, d) /\ CachedKeys(c) \cap protect \subseteq CachedKeys(d) BY <1>8, <1>10 DEF V
<1>12. Roomy(d, needed, protect) \/ Len(d.prefixes) = 0 BY <1>1, <1>9, <1>10
<1> HIDE DEF d
<1>13. Len(d.prefixes) = 0 => MayGo(d, protect) = {}
  <2>1. d.prefixes \in Seq(Keys) BY <1>11, Fields DEF Shrunk, Sound
  <2>2. DOMAIN d.prefixes = 1 .. Len(d.prefixes) BY <2>1, LenProperties
  <2> QED BY <2>2 DEF MayGo
<1>14. Roomy(d, needed, protect) BY <1>12, <1>13 DEF Roomy
<1> QED BY <1>5, <1>11, <1>14 DEF d

LEMMA TrimmedSound ==
  ASSUME NEW c, Sound(c), NEW needed
  PROVE  Shrunk(c, Trimmed(c, needed))
<1> DEFINE N == Len(c.prefixes)
           V == {d \in CacheType : Shrunk(c, d)}
           Step == [n \in 1 .. N |-> [d \in V |-> TrimOne(d, needed)]]
           Is(f) == f = [n \in 0 .. N |-> IF n = 0 THEN c ELSE TrimOne(f[n - 1], needed)]
           after == CHOOSE f : Is(f)
<1>1. N \in Nat
  <2>1. c.prefixes \in Seq(Keys) BY Fields DEF Sound
  <2> QED BY <2>1, LenProperties
<1>2. c \in V BY ShrunkSelf DEF Sound
<1>3. ASSUME NEW d \in V PROVE TrimOne(d, needed) \in V
  <2>1. Shrunk(c, d) /\ Sound(d) BY <1>3 DEF Shrunk
  <2>2. CASE d.prefixes = <<>> \/ PrefixBlocks(d) + needed <= PrefixMaxBlocks
    BY <1>3, <2>2 DEF TrimOne
  <2>3. CASE ~(d.prefixes = <<>> \/ PrefixBlocks(d) + needed <= PrefixMaxBlocks)
    <3> DEFINE k == d.prefixes[1]
    <3>1. d.prefixes \in Seq(Keys) /\ d.prefixes # <<>> BY <2>1, <2>3, Fields DEF Sound
    <3>2. 1 \in 1 .. Len(d.prefixes) BY <3>1, EmptySeq, LenProperties
    <3>3. k \in CachedKeys(d) BY <3>1, <3>2, Members DEF CachedKeys
    <3>4. TrimOne(d, needed) = Dropped(d, k) BY <2>3 DEF TrimOne
    <3> HIDE DEF k
    <3>5. Shrunk(c, Dropped(d, k)) BY <2>1, <3>3, ShrunkDrop
    <3> QED BY <3>4, <3>5 DEF Shrunk, Sound
  <2> QED BY <2>2, <2>3
<1>4. \E f : Is(f)
  <2>1. Step \in [1 .. N -> [V -> V]] BY <1>3
  <2>2. \A n \in 1 .. N : \A d \in V : Step[n][d] = TrimOne(d, needed) OBVIOUS
  <2> HIDE DEF N, V, Step
  <2>3. PICK f : Steps(f, N, V, c, Step) BY <1>1, <1>2, <2>1, Recursion
  <2>4. \A n \in 1 .. N : f[n] = TrimOne(f[n - 1], needed)
    <3> TAKE n \in 1 .. N
    <3>1. n - 1 \in 0 .. N BY <1>1
    <3>2. f[n - 1] \in V BY <2>3, <3>1 DEF Steps
    <3> QED BY <2>2, <2>3, <3>2 DEF Steps
  <2>5. Is(f) BY <1>1, <2>3, <2>4 DEF Steps
  <2> QED BY <2>5
<1>5. Trimmed(c, needed) = after[N] BY DEF Trimmed
<1>6. Is(after) BY <1>4
<1> HIDE DEF after, N
<1>7. after[0] = c /\ \A n \in 1 .. N : after[n] = TrimOne(after[n - 1], needed)
  BY <1>1, <1>6
<1> HIDE DEF V
<1>8. \A n \in 0 .. N : after[n] \in V
  <2> DEFINE G == {n \in 0 .. N : after[n] \in V}
  <2>1. 0 \in G BY <1>1, <1>2, <1>7
  <2>2. ASSUME NEW n \in 1 .. N, n - 1 \in G PROVE n \in G BY <2>2, <1>3, <1>7
  <2> HIDE DEF G
  <2>3. \A n \in 0 .. N : n \in G BY <1>1, <2>1, <2>2, Upto
  <2> QED BY <2>3 DEF G
<1> QED BY <1>1, <1>5, <1>8 DEF V

-----------------------------------------------------------------------------
(* Admission.                                                              *)

LEMMA NoBlocks ==
  ASSUME NEW c, Sound(c), NEW o \in Owners, c.table[o] = <<>>
  PROVE  c.length[o] = 0
<1>1. c.length[o] \in Nat
  <2>1. c.length \in [Owners -> Nat] BY Fields DEF Sound
  <2> QED BY <2>1
<1>2. ASSUME c.length[o] > 0 PROVE FALSE
  <2>1. 0 \in 0 .. c.length[o] - 1 BY <1>1, <1>2
  <2>2. 0 \div BlockSize + 1 \in DOMAIN c.table[o] BY <2>1 DEF Sound, Content
  <2> QED BY <2>2
<1> QED BY <1>1, <1>2

\* The entries that there are, are owners but no requests.
LEMMA CachedAre ==
  ASSUME NEW c, Sound(c)
  PROVE  CachedKeys(c) \subseteq Keys /\ CachedKeys(c) \subseteq Owners /\ CachedKeys(c) \cap Reqs = {}
<1>1. c.prefixes \in Seq(Keys) BY Fields DEF Sound
<1>2. ASSUME NEW k \in CachedKeys(c) PROVE k \in Keys
  <2>1. PICK i \in 1 .. Len(c.prefixes) : c.prefixes[i] = k BY <1>1, Members DEF CachedKeys
  <2> QED BY <1>1, <2>1, ElementOfSeq
<1> QED BY <1>2, KeysAre

\* The tables and lengths of a sound cache.
LEMMA TableFacts ==
  ASSUME NEW c, Sound(c), NEW o \in Owners
  PROVE  /\ c.table[o] \in Seq(Blocks) /\ Len(c.table[o]) \in Nat
         /\ DOMAIN c.table[o] = 1 .. Len(c.table[o]) /\ c.length[o] \in Nat
<1>1. c.table \in [Owners -> Seq(Blocks)] /\ c.length \in [Owners -> Nat] BY Fields DEF Sound
<1>2. c.table[o] \in Seq(Blocks) /\ c.length[o] \in Nat BY <1>1
<1> QED BY <1>2, LenProperties

(* restore_prefix: the request gets the K/V of a beginning of its prompt,  *)
(* in blocks of its own, and never of the whole prompt.                    *)
LEMMA RestoreSound ==
  ASSUME NEW c, Sound(c), Whole(c), NEW r \in Reqs, r \in c.resident, c.table[r] = <<>>
  PROVE  LET d == AfterRestore(c, r) IN
         /\ Sound(d) /\ Whole(d) /\ d.resident = c.resident
         /\ d.length[r] < Len(Prompt[r])
<1> DEFINE H == Hits(c, r)
           length == MaxOf(H)
           key == Key(r, length)
           needed == Len(c.table[key])
           room == Evicted(c, needed, {key})
           g == Granted(room, r, needed)
           e == Copied(g, key, r, length)
           d == Touched(e, key)
<1>1. c.length[r] = 0 /\ r \in Owners BY NoBlocks, OwnersAssumption
<1>2. Len(Prompt[r]) \in Nat /\ 0 < Len(Prompt[r]) BY AlignedFacts
<1>3. CASE PrefixMaxBlocks = 0 \/ H = {}
  <2>1. AfterRestore(c, r) = c BY <1>3 DEF AfterRestore
  <2> QED BY <2>1, <1>1, <1>2
<1>4. CASE ~(PrefixMaxBlocks = 0 \/ H = {})
  <2>1. length \in H
    <3>1. H \subseteq 0 .. Aligned(r) /\ Aligned(r) \in Nat BY AlignedFacts DEF Hits, AlignedLengths
    <3> HIDE DEF H
    <3> QED BY <1>4, <3>1, MaxOfIs
  <2> HIDE DEF length
  <2>2. length \in AlignedLengths(r) /\ key \in CachedKeys(c) BY <2>1 DEF Hits
  <2>3. /\ length \in Nat /\ length < Len(Prompt[r]) /\ key \in Keys /\ Len(key) = length
        /\ \A p \in 0 .. length - 1 : SubSeq(key, 1, p + 1) = SubSeq(Text[r], 1, p + 1)
    BY <2>2, KeyFacts
  <2>4. key \in Owners /\ key \notin Reqs /\ key # r BY <2>3, KeysAre
  <2> HIDE DEF key
  <2>5. needed \in Nat BY <2>4, TableFacts
  <2> HIDE DEF needed
  <2>6. Shrunk(c, room) /\ CachedKeys(c) \cap {key} \subseteq CachedKeys(room)
    BY <2>5, EvictedSound
  <2> HIDE DEF room
  <2>7. /\ Sound(room) /\ Whole(room) /\ room.resident = c.resident /\ key \in CachedKeys(room)
        /\ room.table[r] = <<>> /\ room.length[r] = 0 /\ room.table[key] = c.table[key]
        /\ room.length[key] = length
    <3>1. Whole(room) BY <2>6, ShrunkWhole
    <3>2. key \in CachedKeys(room) BY <2>2, <2>6
    <3> QED BY <1>1, <2>3, <2>6, <3>1, <3>2 DEF Shrunk, Kept, Whole
  <2>8. CASE ~CanSatisfy(room.alloc, needed)
    <3>1. AfterRestore(c, r) = room BY <1>4, <2>8 DEF AfterRestore, H, length, key, needed, room
    <3> QED BY <3>1, <2>7, <1>2
  <2>9. CASE CanSatisfy(room.alloc, needed)
    <3>1. AfterRestore(c, r) = d BY <1>4, <2>9 DEF AfterRestore, H, length, key, needed, room
    <3>2. /\ Sound(g) /\ Kept(room, g, Owners \ {r})
          /\ g.resident = room.resident /\ g.prefixes = room.prefixes /\ g.length = room.length
          /\ Len(g.table[r]) = Len(room.table[r]) + needed
      <4>1. r \in room.resident \cup CachedKeys(room) BY <2>7
      <4>2. Grows(room, g, r, needed) BY <1>1, <2>5, <2>7, <2>9, <4>1, GrantSound
      <4> HIDE DEF g
      <4> QED BY <4>2 DEF Grows
    <3> HIDE DEF g
    <3>3. g.table[key] = c.table[key] /\ g.length[key] = length BY <2>4, <2>7, <3>2 DEF Kept
    <3>4. DOMAIN g.table[r] = 1 .. needed /\ DOMAIN g.table[key] = 1 .. needed
      <4>1. Len(<<>>) = 0 OBVIOUS
      <4>2. Len(g.table[r]) = needed BY <4>1, <2>5, <2>7, <3>2
      <4>3. Len(g.table[key]) = needed BY <3>3 DEF needed
      <4>4. DOMAIN g.table[r] = 1 .. Len(g.table[r]) BY <1>1, <3>2, TableFacts
      <4>5. DOMAIN g.table[key] = 1 .. Len(g.table[key]) BY <2>4, <3>2, TableFacts
      <4> QED BY <4>2, <4>3, <4>4, <4>5
    <3>5. \A p \in 0 .. length - 1 :
             /\ p \div BlockSize + 1 \in DOMAIN g.table[r]
             /\ SubSeq(History(key), 1, p + 1) = SubSeq(History(r), 1, p + 1)
      <4>1. Content(g, key) BY <2>4, <3>2 DEF Sound
      <4>2. \A p \in 0 .. length - 1 : p \div BlockSize + 1 \in DOMAIN g.table[r]
        BY <4>1, <3>3, <3>4 DEF Content
      <4> QED BY <4>2, <2>3, <2>4 DEF History
    <3>6. /\ Sound(e) /\ Kept(g, e, Owners \ {r}) /\ e.length[r] = length
          /\ e.resident = g.resident /\ e.prefixes = g.prefixes
      <4>1. length <= g.length[key] BY <2>3, <3>3
      <4>2. DOMAIN g.table[r] \subseteq DOMAIN g.table[key] BY <3>4
      <4>3. Copies(g, e, r, length) BY <1>1, <2>3, <2>4, <3>2, <3>5, <4>1, <4>2, CopySound
      <4> HIDE DEF e
      <4> QED BY <4>3 DEF Copies
    <3> HIDE DEF e
    <3>7. CachedKeys(e) = CachedKeys(room) BY <3>2, <3>6 DEF CachedKeys
    <3>8. /\ Sound(d) /\ Kept(e, d, Owners) /\ d.resident = e.resident
          /\ CachedKeys(d) = CachedKeys(e)
      <4>1. key \in CachedKeys(e) BY <2>7, <3>7
      <4> QED BY <4>1, <3>6, TouchSound
    <3> HIDE DEF d
    <3>9. Whole(d)
      <4>1. CachedKeys(d) = CachedKeys(room) BY <3>7, <3>8
      <4>2. CachedKeys(room) \subseteq Owners \ {r} BY <2>7, CachedAre
      <4>3. \A k \in CachedKeys(room) : d.length[k] = room.length[k]
        BY <4>2, <3>2, <3>6, <3>8 DEF Kept
      <4> QED BY <4>1, <4>3, <2>7 DEF Whole
    <3>10. d.length[r] = length BY <1>1, <3>6, <3>8 DEF Kept
    <3>11. d.resident = c.resident BY <2>7, <3>2, <3>6, <3>8
    <3> QED BY <2>3, <3>1, <3>8, <3>9, <3>10, <3>11
  <2> QED BY <2>8, <2>9
<1> QED BY <1>3, <1>4

LEMMA AdmitSound ==
  ASSUME NEW c, Sound(c), Whole(c), NEW r \in Reqs, r \notin c.resident
  PROVE  LET d == AfterAdmit(c, r) IN
         /\ Sound(d) /\ Whole(d) /\ d.resident = c.resident \cup {r}
         /\ d.length[r] < Len(Prompt[r])
<1> DEFINE e == AfterReserve(c, r)
<1>1. c.table[r] = <<>>
  <2>1. r \in Owners /\ r \notin CachedKeys(c) BY CachedAre, OwnersAssumption
  <2> QED BY <2>1 DEF Sound, Placed
<1>2. /\ Sound(e) /\ Kept(c, e, Owners)
      /\ e.resident = c.resident \cup {r} /\ e.prefixes = c.prefixes
  BY ReserveSound
<1> HIDE DEF e
<1>3. Whole(e)
  <2>1. CachedKeys(e) = CachedKeys(c) BY <1>2 DEF CachedKeys
  <2>2. CachedKeys(c) \subseteq Owners BY CachedAre
  <2> QED BY <1>2, <2>1, <2>2 DEF Whole, Kept
<1>4. e.table[r] = <<>> BY <1>1, <1>2, OwnersAssumption DEF Kept
<1>5. /\ Sound(AfterRestore(e, r)) /\ Whole(AfterRestore(e, r))
      /\ AfterRestore(e, r).resident = e.resident
      /\ AfterRestore(e, r).length[r] < Len(Prompt[r])
  BY <1>2, <1>3, <1>4, RestoreSound
<1> QED BY <1>2, <1>5 DEF AfterAdmit, e

-----------------------------------------------------------------------------
(* Release.                                                                *)

LEMMA LastBlock ==
  ASSUME NEW n \in Nat, n > 0, n % BlockSize = 0
  PROVE  (n - 1) \div BlockSize + 1 = n \div BlockSize
<1> DEFINE B == BlockSize
           e == n \div B
           m == n - 1
           d == m \div B
           k == m % B
<1>1. B \in Nat /\ B > 0 /\ m \in Nat BY SizeAssumption
<1>2. e \in Nat /\ n = B * e BY <1>1, Division
<1>3. d \in Nat /\ k \in 0 .. B - 1 /\ m = B * d + k
  <2> HIDE DEF m, B
  <2> QED BY <1>1, Division
<1>4. m = n - 1 OBVIOUS
<1> HIDE DEF B, d, e, m, k
<1>5. B * d < B * e BY <1>1, <1>2, <1>3, <1>4
<1>6. B * e <= B * (d + 1) BY <1>1, <1>2, <1>3, <1>4
<1>7. d < e
  <2> SUFFICES ASSUME d >= e PROVE FALSE BY <1>2, <1>3
  <2>1. B * d >= B * e BY <1>1, <1>2, <1>3
  <2> QED BY <2>1, <1>1, <1>2, <1>3, <1>5
<1>8. e <= d + 1
  <2> SUFFICES ASSUME e >= d + 2 PROVE FALSE BY <1>2, <1>3
  <2>1. B * e >= B * (d + 2) BY <1>1, <1>2, <1>3
  <2>2. B * (d + 2) = B * (d + 1) + B BY <1>1, <1>3
  <2> QED BY <2>1, <2>2, <1>1, <1>2, <1>3, <1>6
<1> QED BY <1>2, <1>3, <1>7, <1>8 DEF B, d, e, m

LEMMA ShrunkTrans ==
  ASSUME NEW c, Sound(c), NEW d, NEW e, Shrunk(c, d), Shrunk(d, e)
  PROVE  Shrunk(c, e)
<1>1. Kept(c, e, Reqs \cup CachedKeys(e)) BY DEF Shrunk, Kept
<1>2. Len(c.alloc.free) <= Len(e.alloc.free)
  <2> DEFINE k1 == Len(c.alloc.free)
             k2 == Len(d.alloc.free)
             k3 == Len(e.alloc.free)
  <2>1. k1 \in Nat /\ k2 \in Nat /\ k3 \in Nat BY FreeNat DEF Shrunk
  <2>2. k1 <= k2 /\ k2 <= k3 BY Zenon DEF Shrunk
  <2> HIDE DEF k1, k2, k3
  <2>3. k1 <= k3 BY <2>1, <2>2
  <2> QED BY <2>3 DEF k1, k3
<1> QED BY <1>1, <1>2 DEF Shrunk

\* n tokens fill k blocks.
Fills(n, k) == k = n \div BlockSize

Enters(c, g, k, n) ==
  /\ Sound(g) /\ Kept(c, g, Owners \ {k})
  /\ g.resident = c.resident /\ CachedKeys(g) = CachedKeys(c) \cup {k}
  /\ DOMAIN g.table[k] = 1 .. n

\* A new entry, and blocks for it.
LEMMA EnterGranted ==
  ASSUME NEW c, Sound(c), NEW k \in Keys, k \notin CachedKeys(c),
         NEW n \in Nat, CanSatisfy(c.alloc, n)
  PROVE  Enters(c, Granted([c EXCEPT !.prefixes = Append(@, k)], k, n), k, n)
<1> DEFINE e == [c EXCEPT !.prefixes = Append(@, k)]
           g == Granted(e, k, n)
<1>1. k \in Owners /\ k \notin Reqs BY KeysAre
<1>2. c.table[k] = <<>>
  <2>1. c.resident \subseteq Reqs BY Fields DEF Sound
  <2>2. k \notin c.resident \cup CachedKeys(c) BY <2>1, <1>1
  <2> QED BY <1>1, <2>2 DEF Sound, Placed
<1>3. /\ Sound(e) /\ Kept(c, e, Owners) /\ e.alloc = c.alloc
      /\ e.resident = c.resident /\ CachedKeys(e) = CachedKeys(c) \cup {k}
  BY EnterSound
<1> HIDE DEF e
<1>4. /\ Sound(g) /\ Kept(e, g, Owners \ {k})
      /\ g.resident = e.resident /\ g.prefixes = e.prefixes
      /\ Len(g.table[k]) = Len(e.table[k]) + n
  <2>1. k \in e.resident \cup CachedKeys(e) BY <1>3
  <2>2. CanSatisfy(e.alloc, n) BY <1>3
  <2>3. Grows(e, g, k, n) BY <1>1, <1>3, <2>1, <2>2, GrantSound
  <2> HIDE DEF g
  <2> QED BY <2>3 DEF Grows
<1> HIDE DEF g
<1>5. DOMAIN g.table[k] = 1 .. n
  <2>1. e.table[k] = <<>> BY <1>1, <1>2, <1>3 DEF Kept
  <2>2. Len(<<>>) = 0 OBVIOUS
  <2>3. Len(g.table[k]) = n BY <1>4, <2>1, <2>2
  <2> QED BY <1>1, <1>4, <2>3, TableFacts
<1>6. Kept(c, g, Owners \ {k}) BY <1>3, <1>4 DEF Kept
<1>7. CachedKeys(g) = CachedKeys(c) \cup {k} BY <1>3, <1>4 DEF CachedKeys
<1> QED BY <1>3, <1>4, <1>5, <1>6, <1>7 DEF e, g, Enters

(* A new entry gets a copy of the beginning of the request's blocks, and   *)
(* holds the whole of its key.                                             *)
LEMMA EnteredSound ==
  ASSUME NEW c, Sound(c), Whole(c), NEW r \in Reqs, NEW n \in AlignedLengths(r), n <= c.length[r],
         Key(r, n) \notin CachedKeys(c), NEW needed \in Nat, Fills(n, needed),
         CanSatisfy(c.alloc, needed)
  PROVE  LET d == Entered(c, r, Key(r, n), needed) IN
         /\ Sound(d) /\ Whole(d) /\ Kept(c, d, Reqs) /\ d.resident = c.resident
<1> DEFINE key == Key(r, n)
           g == Granted([c EXCEPT !.prefixes = Append(@, key)], key, needed)
           d == Copied(g, r, key, n)
<1>0. n \in 1 .. Aligned(r) /\ Aligned(r) \in Nat BY AlignedFacts DEF AlignedLengths
<1>1. /\ n \in Nat /\ n > 0 /\ n % BlockSize = 0 /\ key \in Keys /\ Len(key) = n
      /\ \A p \in 0 .. n - 1 : SubSeq(key, 1, p + 1) = SubSeq(Text[r], 1, p + 1)
  BY <1>0, KeyFacts
<1>2. Entered(c, r, key, needed) = d
  <2>1. n = Len(key) BY <1>1
  <2> QED BY <2>1 DEF Entered
<1> HIDE DEF key
<1>3. key \in Owners /\ key \notin Reqs /\ key # r /\ r \in Owners BY <1>1, KeysAre, OwnersAssumption
<1>4. /\ Sound(g) /\ Kept(c, g, Owners \ {key})
      /\ g.resident = c.resident /\ CachedKeys(g) = CachedKeys(c) \cup {key}
      /\ DOMAIN g.table[key] = 1 .. needed
  <2>1. key \notin CachedKeys(c) BY DEF key
  <2>2. Enters(c, g, key, needed) BY <1>1, <2>1, EnterGranted
  <2> HIDE DEF g
  <2> QED BY <2>2 DEF Enters
<1> HIDE DEF g
<1>5. g.length[r] = c.length[r] BY <1>3, <1>4 DEF Kept
<1>6. DOMAIN g.table[key] \subseteq DOMAIN g.table[r]
  <2>1. DOMAIN g.table[r] = 1 .. Len(g.table[r]) /\ Len(g.table[r]) \in Nat /\ c.length[r] \in Nat
    BY <1>3, <1>4, TableFacts
  <2>2. n - 1 \in 0 .. g.length[r] - 1 BY <1>1, <1>5, <2>1
  <2>3. (n - 1) \div BlockSize + 1 \in DOMAIN g.table[r] BY <1>3, <1>4, <2>2 DEF Sound, Content
  <2>4. (n - 1) \div BlockSize + 1 = needed BY <1>1, LastBlock DEF Fills
  <2>5. needed \in 1 .. Len(g.table[r]) BY <2>1, <2>3, <2>4
  <2> QED BY <1>4, <2>1, <2>5
<1>7. \A p \in 0 .. n - 1 :
         /\ p \div BlockSize + 1 \in DOMAIN g.table[key]
         /\ SubSeq(History(r), 1, p + 1) = SubSeq(History(key), 1, p + 1)
  <2>1. \A p \in 0 .. n - 1 : p \div BlockSize + 1 \in 1 .. needed BY <1>1, AlignedReach DEF Fills
  <2> QED BY <2>1, <1>1, <1>3, <1>4 DEF History
<1>8. n <= g.length[r] BY <1>5
<1>9. /\ Sound(d) /\ Kept(g, d, Owners \ {key}) /\ d.length[key] = n
      /\ d.resident = g.resident /\ d.prefixes = g.prefixes
  <2>1. Copies(g, d, key, n) BY <1>1, <1>3, <1>4, <1>6, <1>7, <1>8, CopySound
  <2> HIDE DEF d
  <2> QED BY <2>1 DEF Copies
<1> HIDE DEF d
<1>10. Reqs \subseteq Owners \ {key} BY <1>3, OwnersAssumption
<1>11. Kept(c, d, Reqs) BY <1>4, <1>9, <1>10 DEF Kept
<1>12. CachedKeys(d) = CachedKeys(c) \cup {key} BY <1>4, <1>9 DEF CachedKeys
<1>13. Whole(d)
  <2>1. \A k \in CachedKeys(c) : k \in Owners \ {key} BY CachedAre DEF key
  <2>2. \A k \in CachedKeys(c) : d.length[k] = c.length[k] BY <2>1, <1>4, <1>9 DEF Kept
  <2> QED BY <2>2, <1>1, <1>9, <1>12 DEF Whole
<1> QED BY <1>2, <1>4, <1>9, <1>11, <1>13 DEF key

LEMMA StoreSound ==
  ASSUME NEW c, Sound(c), Whole(c), NEW r \in Reqs
  PROVE  LET d == AfterStore(c, r) IN
         /\ Sound(d) /\ Whole(d) /\ Kept(c, d, Reqs) /\ d.resident = c.resident
<1> DEFINE n == Aligned(r)
           needed == n \div BlockSize
           key == Key(r, n)
           room == Evicted(Trimmed(c, needed), needed, {})
<1>1. n \in Nat /\ r \in Owners BY AlignedFacts, OwnersAssumption
<1>2. needed \in Nat BY <1>1, Division, SizeAssumption
<1>3. Kept(c, c, Reqs) BY DEF Kept
<1>4. CASE n = 0 \/ needed > PrefixMaxBlocks \/ (key \notin CachedKeys(c) /\ c.length[r] < n)
  <2>1. AfterStore(c, r) = c BY <1>4 DEF AfterStore
  <2> QED BY <2>1, <1>3
<1>5. CASE ~(n = 0 \/ needed > PrefixMaxBlocks) /\ key \in CachedKeys(c)
  <2>1. AfterStore(c, r) = Touched(c, key) BY <1>5 DEF AfterStore
  <2>2. /\ Sound(Touched(c, key)) /\ Kept(c, Touched(c, key), Owners)
        /\ Touched(c, key).resident = c.resident /\ CachedKeys(Touched(c, key)) = CachedKeys(c)
    <3> HIDE DEF key
    <3> QED BY <1>5, TouchSound
  <2> DEFINE d == Touched(c, key)
  <2> HIDE DEF d
  <2>3. Kept(c, d, Reqs) BY <2>2, OwnersAssumption DEF Kept, d
  <2>4. Whole(d)
    <3>1. CachedKeys(c) \subseteq Owners BY CachedAre
    <3> QED BY <3>1, <2>2 DEF Whole, Kept, d
  <2> QED BY <2>1, <2>2, <2>3, <2>4 DEF d
<1>6. CASE /\ ~(n = 0 \/ needed > PrefixMaxBlocks)
           /\ key \notin CachedKeys(c) /\ ~(c.length[r] < n)
  <2> HIDE DEF n, needed, key
  <2>1. Shrunk(c, room)
    <3> DEFINE e == Trimmed(c, needed)
    <3>1. Shrunk(c, e) BY TrimmedSound
    <3> HIDE DEF e
    <3>2. Shrunk(e, Evicted(e, needed, {})) BY <3>1, <1>2, EvictedSound DEF Shrunk
    <3>3. Shrunk(c, Evicted(e, needed, {})) BY <3>1, <3>2, ShrunkTrans
    <3> QED BY <3>3 DEF e
  <2> HIDE DEF room
  <2>2. Sound(room) /\ Whole(room) /\ Kept(c, room, Reqs) /\ room.resident = c.resident
    <3>1. Whole(room) BY <2>1, ShrunkWhole
    <3> QED BY <2>1, <3>1 DEF Shrunk, Kept
  <2>3. CASE ~CanSatisfy(room.alloc, needed)
    <3>1. AfterStore(c, r) = room BY <1>6, <2>3 DEF AfterStore, n, needed, key, room
    <3> QED BY <3>1, <2>2
  <2>4. CASE CanSatisfy(room.alloc, needed)
    <3> DEFINE d == Entered(room, r, key, needed)
    <3>1. AfterStore(c, r) = d BY <1>6, <2>4 DEF AfterStore, n, needed, key, room
    <3>2. n \in AlignedLengths(r) BY <1>6, AlignedIs DEF n
    <3>3. n <= room.length[r]
      <4>1. room.length[r] = c.length[r] BY <2>2 DEF Kept
      <4>2. c.length[r] \in Nat BY <1>1, TableFacts
      <4> QED BY <4>1, <4>2, <1>1, <1>6
    <3>4. key \notin CachedKeys(room) BY <1>6, <2>1 DEF Shrunk
    <3>5. Sound(d) /\ Whole(d) /\ Kept(room, d, Reqs) /\ d.resident = room.resident
      <4>1. Key(r, n) \notin CachedKeys(room) /\ Fills(n, needed) BY <3>4 DEF key, needed, Fills
      <4> QED BY <1>2, <2>2, <2>4, <3>2, <3>3, <4>1, EnteredSound DEF key
    <3> HIDE DEF d
    <3>6. Kept(c, d, Reqs) BY <2>2, <3>5, KeptTrans
    <3> QED BY <2>2, <3>1, <3>5, <3>6
  <2> QED BY <2>3, <2>4
<1> QED BY <1>4, <1>5, <1>6

LEMMA ReleaseSound ==
  ASSUME NEW c, Sound(c), Whole(c), NEW r \in Reqs
  PROVE  LET d == AfterRelease(c, r) IN
         /\ Sound(d) /\ Whole(d) /\ Kept(c, d, Reqs \ {r}) /\ d.resident = c.resident \ {r}
<1> DEFINE e == AfterStore(c, r)
           d == AfterDrop(e, r)
<1>1. Sound(e) /\ Whole(e) /\ Kept(c, e, Reqs) /\ e.resident = c.resident BY StoreSound
<1> HIDE DEF e
<1>2. /\ Sound(d) /\ Kept(e, d, Owners \ {r})
      /\ d.resident = e.resident \ {r} /\ d.prefixes = e.prefixes
  BY <1>1, AfterDropSound
<1> HIDE DEF d
<1>3. Whole(d)
  <2>1. CachedKeys(d) = CachedKeys(e) BY <1>2 DEF CachedKeys
  <2>2. CachedKeys(e) \subseteq Owners \ {r} BY <1>1, CachedAre
  <2> QED BY <1>1, <1>2, <2>1, <2>2 DEF Whole, Kept
<1>4. Kept(c, d, Reqs \ {r}) BY <1>1, <1>2, OwnersAssumption DEF Kept
<1> QED BY <1>1, <1>2, <1>3, <1>4 DEF AfterRelease, d, e

-----------------------------------------------------------------------------
(* Growth.                                                                 *)

\* The blocks of o have room for n positions.
Reaches(c, o, n) == \A p \in 0 .. n - 1 : p \div BlockSize + 1 \in DOMAIN c.table[o]

\* The items of a plan: residents, each at most once.
Planned(c, items) ==
  /\ items \in Seq(Item)
  /\ \A i \in DOMAIN items : items[i].req \in c.resident
  /\ \A i, j \in DOMAIN items : items[i].req = items[j].req => i = j

LEMMA ItemFacts ==
  ASSUME NEW c, Sound(c), NEW items, Planned(c, items)
  PROVE  /\ Len(items) \in Nat /\ DOMAIN items = 1 .. Len(items)
         /\ \A i \in DOMAIN items :
              /\ items[i] \in Item /\ items[i].req \in Reqs /\ items[i].req \in Owners
              /\ items[i].start \in Nat /\ items[i].end \in Nat
<1>1. items \in Seq(Item) BY DEF Planned
<1>2. Len(items) \in Nat /\ DOMAIN items = 1 .. Len(items) BY <1>1, LenProperties
<1>3. \A i \in DOMAIN items : items[i] \in Item BY <1>1, <1>2, ElementOfSeq
<1> QED BY <1>2, <1>3, OwnersAssumption DEF Item

LEMMA ExtraNat ==
  ASSUME NEW c, Sound(c), NEW item \in Item
  PROVE  /\ Extra(c, item) \in Nat
         /\ BlocksFor(item.end) <= Len(c.table[item.req]) + Extra(c, item)
<1>1. item.req \in Owners /\ item.end \in Nat BY OwnersAssumption DEF Item
<1> DEFINE n == BlocksFor(item.end)
           m == Len(c.table[item.req])
<1>2. m \in Nat BY <1>1, TableFacts
<1>3. n \in Nat
  <2>1. BlockSize \in Nat /\ BlockSize > 0 BY SizeAssumption
  <2> DEFINE k == item.end + BlockSize - 1
  <2>2. k \in Nat BY <1>1, <2>1
  <2> HIDE DEF k
  <2>3. k \div BlockSize \in Nat BY <2>1, <2>2, Division
  <2> QED BY <2>3 DEF BlocksFor, k
<1>4. Extra(c, item) = Max2(0, n - m) BY DEF Extra
<1> HIDE DEF n, m
<1>5. Max2(0, n - m) \in Nat /\ n <= m + Max2(0, n - m) BY <1>2, <1>3 DEF Max2
<1> QED BY <1>4, <1>5 DEF n, m

\* One table grows as far as its item needs.
LEMMA GrantItemSound ==
  ASSUME NEW c, Sound(c), NEW item \in Item, item.req \in c.resident,
         CanSatisfy(c.alloc, Extra(c, item))
  PROVE  /\ Grows(c, GrantItem(c, item), item.req, Extra(c, item))
         /\ Reaches(GrantItem(c, item), item.req, item.end)
<1> DEFINE r == item.req
           n == Extra(c, item)
           d == GrantItem(c, item)
<1>1. r \in Owners /\ item.end \in Nat BY OwnersAssumption DEF Item
<1>2. n \in Nat /\ BlocksFor(item.end) <= Len(c.table[r]) + n BY ExtraNat
<1>3. Grows(c, d, r, n)
  <2>1. d = Granted(c, r, n) BY DEF GrantItem
  <2> HIDE DEF n, r, d
  <2>2. CanSatisfy(c.alloc, n) /\ r \in c.resident \cup CachedKeys(c) BY DEF n, r
  <2>3. Grows(c, Granted(c, r, n), r, n) BY <1>1, <1>2, <2>2, GrantSound
  <2> QED BY <2>1, <2>3
<1> HIDE DEF n, d
<1>4. Reaches(d, r, item.end)
  <2> SUFFICES ASSUME NEW p \in 0 .. item.end - 1 PROVE p \div BlockSize + 1 \in DOMAIN d.table[r]
    BY DEF Reaches
  <2> DEFINE b == BlocksFor(item.end)
             q == p \div BlockSize + 1
             m == Len(d.table[r])
  <2>1. b \in Nat /\ q \in 1 .. b BY <1>1, BlocksReach
  <2>2. Sound(d) /\ m = Len(c.table[r]) + n BY <1>3 DEF Grows
  <2>3. DOMAIN d.table[r] = 1 .. m /\ m \in Nat BY <1>1, <2>2, TableFacts
  <2>4. b <= m BY <1>2, <2>2
  <2> HIDE DEF b, q, m
  <2>5. q \in 1 .. m BY <2>1, <2>3, <2>4
  <2> QED BY <2>3, <2>5 DEF q
<1> QED BY <1>3, <1>4 DEF n, d

\* What the items need together is what they need one after the other.
Sums(c, items, sum) ==
  /\ sum \in [0 .. Len(items) -> Nat] /\ sum[0] = 0
  /\ \A n \in 1 .. Len(items) : sum[n] = sum[n - 1] + Extra(c, items[n])
  /\ \A n \in 0 .. Len(items) : sum[n] <= sum[Len(items)]
  /\ Needed(c, items) = sum[Len(items)]

LEMMA NeededIs ==
  ASSUME NEW c, Sound(c), NEW items, Planned(c, items)
  PROVE  \E sum : Sums(c, items, sum)
<1> DEFINE N == Len(items)
           Is(f) == f = [n \in 0 .. N |-> IF n = 0 THEN 0 ELSE f[n - 1] + Extra(c, items[n])]
           Step == [n \in 1 .. N |-> [v \in Nat |-> v + Extra(c, items[n])]]
           sum == CHOOSE f : Is(f)
<1>1. N \in Nat /\ \A n \in 1 .. N : Extra(c, items[n]) \in Nat BY ItemFacts, ExtraNat
<1>2. \E f : Is(f)
  <2>1. Step \in [1 .. N -> [Nat -> Nat]] BY <1>1
  <2>2. \A n \in 1 .. N : \A v \in Nat : Step[n][v] = v + Extra(c, items[n]) OBVIOUS
  <2> HIDE DEF N, Step
  <2>3. PICK f : Steps(f, N, Nat, 0, Step) BY <1>1, <2>1, Recursion
  <2>4. \A n \in 1 .. N : f[n] = f[n - 1] + Extra(c, items[n])
    <3> TAKE n \in 1 .. N
    <3>1. n - 1 \in 0 .. N BY <1>1
    <3>2. f[n - 1] \in Nat BY <2>3, <3>1 DEF Steps
    <3> QED BY <2>2, <2>3, <3>2 DEF Steps
  <2>5. Is(f) BY <1>1, <2>3, <2>4 DEF Steps
  <2> QED BY <2>5
<1>3. Needed(c, items) = sum[N] BY DEF Needed
<1>4. Is(sum) BY <1>2
<1> HIDE DEF sum, N
<1>5. sum[0] = 0 /\ \A n \in 1 .. N : sum[n] = sum[n - 1] + Extra(c, items[n])
  BY <1>1, <1>4
<1>6. \A n \in 0 .. N : sum[n] \in Nat
  <2> DEFINE G == {n \in 0 .. N : sum[n] \in Nat}
  <2>1. 0 \in G BY <1>1, <1>5
  <2>2. ASSUME NEW n \in 1 .. N, n - 1 \in G PROVE n \in G BY <2>2, <1>1, <1>5
  <2> HIDE DEF G
  <2>3. \A n \in 0 .. N : n \in G BY <1>1, <2>1, <2>2, Upto
  <2> QED BY <2>3 DEF G
<1>7. \A n \in 0 .. N : sum[N - n] <= sum[N]
  <2> DEFINE G == {n \in 0 .. N : sum[N - n] <= sum[N]}
  <2>1. 0 \in G
    <3>1. N - 0 = N /\ N \in 0 .. N BY <1>1
    <3>2. sum[N - 0] <= sum[N] BY <3>1, <1>6
    <3> QED BY <3>2, <1>1
  <2>2. ASSUME NEW n \in 1 .. N, n - 1 \in G PROVE n \in G
    <3> DEFINE m == N - n
               k == Extra(c, items[m + 1])
    <3>1. m \in 0 .. N /\ m + 1 \in 1 .. N /\ N - (n - 1) = m + 1 /\ (m + 1) - 1 = m /\ N \in 0 .. N
      BY <1>1
    <3>2. sum[m + 1] <= sum[N] BY <2>2, <3>1
    <3> HIDE DEF m
    <3>3. sum[m + 1] = sum[m] + k BY <1>5, <3>1
    <3>4. sum[m] \in Nat /\ k \in Nat /\ sum[N] \in Nat BY <1>1, <1>6, <3>1
    <3> HIDE DEF k
    <3>5. sum[m] <= sum[N] BY <3>2, <3>3, <3>4
    <3> QED BY <3>5 DEF m
  <2> HIDE DEF G
  <2>3. \A n \in 0 .. N : n \in G BY <1>1, <2>1, <2>2, Upto
  <2> QED BY <2>3 DEF G
<1>8. \A n \in 0 .. N : sum[n] <= sum[N]
  <2> TAKE n \in 0 .. N
  <2>1. N - n \in 0 .. N /\ N - (N - n) = n BY <1>1
  <2> QED BY <2>1, <1>7
<1>9. sum \in [0 .. N -> Nat] BY <1>4, <1>6
<1>10. Sums(c, items, sum) BY <1>3, <1>5, <1>8, <1>9 DEF Sums, N
<1> QED BY <1>10

\* d is c after the first n items have their blocks.
Grown(c, items, n, d) ==
  /\ Sound(d) /\ Whole(d) /\ d.resident = c.resident
  /\ \A r \in Reqs : d.length[r] = c.length[r]
  /\ \A i \in DOMAIN items : i <= n => Reaches(d, items[i].req, items[i].end)
  /\ \A i \in DOMAIN items : i > n => Len(d.table[items[i].req]) = Len(c.table[items[i].req])

LEMMA GrownStep ==
  ASSUME NEW c, Sound(c), NEW items, Planned(c, items), NEW n \in 1 .. Len(items),
         NEW d, Grown(c, items, n - 1, d), CanSatisfy(d.alloc, Extra(c, items[n]))
  PROVE  /\ Grown(c, items, n, GrantItem(d, items[n]))
         /\ Len(GrantItem(d, items[n]).alloc.free) = Len(d.alloc.free) - Extra(c, items[n])
<1> DEFINE item == items[n]
           r == item.req
           k == Extra(c, item)
           e == GrantItem(d, item)
<1>1. /\ Len(items) \in Nat /\ DOMAIN items = 1 .. Len(items)
      /\ item \in Item /\ r \in Reqs /\ r \in Owners /\ r \in c.resident
  BY ItemFacts DEF Planned
<1>2. /\ Sound(d) /\ Whole(d) /\ d.resident = c.resident
      /\ \A x \in Reqs : d.length[x] = c.length[x]
      /\ \A i \in DOMAIN items : i <= n - 1 => Reaches(d, items[i].req, items[i].end)
      /\ \A i \in DOMAIN items : i > n - 1 => Len(d.table[items[i].req]) = Len(c.table[items[i].req])
  BY DEF Grown
<1>3. Extra(d, item) = k
  <2>1. n \in DOMAIN items /\ n > n - 1 BY <1>1
  <2>2. Len(d.table[r]) = Len(c.table[r]) BY <1>2, <2>1
  <2> QED BY <2>2 DEF Extra
<1> HIDE DEF k
<1>4. Grows(d, e, r, k) /\ Reaches(e, r, item.end)
  <2>1. CanSatisfy(d.alloc, Extra(d, item)) BY <1>3 DEF k
  <2>2. Grows(d, e, r, Extra(d, item)) /\ Reaches(e, r, item.end)
    BY <1>1, <1>2, <2>1, GrantItemSound
  <2> QED BY <1>3, <2>2
<1> HIDE DEF e
<1>5. /\ Sound(e) /\ Kept(d, e, Owners \ {r}) /\ e.resident = d.resident
      /\ e.prefixes = d.prefixes /\ e.length = d.length
      /\ Len(e.alloc.free) = Len(d.alloc.free) - k
  BY <1>4 DEF Grows
<1>6. Whole(e) BY <1>2, <1>5 DEF Whole, CachedKeys
<1>7. \A i \in DOMAIN items : i # n => items[i].req \in Owners \ {r}
  BY <1>1, ItemFacts DEF Planned
<1>8. \A i \in DOMAIN items : i # n => e.table[items[i].req] = d.table[items[i].req]
  BY <1>5, <1>7 DEF Kept
<1>9. ASSUME NEW i \in DOMAIN items, i <= n PROVE Reaches(e, items[i].req, items[i].end)
  <2>1. CASE i = n BY <1>4, <2>1
  <2>2. CASE i # n
    <3>1. i <= n - 1 BY <1>1, <1>9, <2>2
    <3>2. Reaches(d, items[i].req, items[i].end) BY <1>2, <3>1
    <3> QED BY <3>2, <1>8, <2>2 DEF Reaches
  <2> QED BY <2>1, <2>2
<1>10. ASSUME NEW i \in DOMAIN items, i > n
       PROVE  Len(e.table[items[i].req]) = Len(c.table[items[i].req])
  <2>1. i # n /\ i > n - 1 BY <1>1, <1>10
  <2> QED BY <2>1, <1>2, <1>8
<1>11. Grown(c, items, n, e) BY <1>2, <1>5, <1>6, <1>9, <1>10 DEF Grown
<1> QED BY <1>5, <1>11 DEF e, k

(* ensure_capacity_batch: the blocks were counted before the first table   *)
(* grew, and they suffice to the last item.                                *)
LEMMA EnsureSound ==
  ASSUME NEW c, Sound(c), Whole(c), NEW items, Planned(c, items), CanEnsure(c, items)
  PROVE  Grown(c, items, Len(items), AfterEnsure(c, items))
<1> DEFINE N == Len(items)
           e == AfterEvict(c, items)
           Is(f) == f = [n \in 0 .. N |-> IF n = 0 THEN e ELSE GrantItem(f[n - 1], items[n])]
           V == {d \in CacheType : Sound(d)}
           Step == [n \in 1 .. N |-> [d \in V |->
                      IF GrantItem(d, items[n]) \in V THEN GrantItem(d, items[n]) ELSE d]]
           after == CHOOSE f : Is(f)
           F == Len(e.alloc.free)
<1>1. N \in Nat /\ DOMAIN items = 1 .. N /\ \A i \in 1 .. N : items[i].req \in Reqs BY ItemFacts
<1>2. PICK sum : Sums(c, items, sum) BY NeededIs
<1>3. sum \in [0 .. N -> Nat] /\ Needed(c, items) = sum[N] BY <1>2 DEF Sums
<1>4. Shrunk(c, e)
  <2>1. Needed(c, items) \in Nat BY <1>1, <1>3
  <2> QED BY <2>1, EvictedSound DEF AfterEvict
<1>5. F \in Nat /\ sum[N] <= F
  <2>1. CanSatisfy(e.alloc, Needed(c, items)) BY DEF CanEnsure
  <2> QED BY <1>3, <1>4, <2>1, FreeNat DEF Shrunk, CanSatisfy
<1> HIDE DEF e
<1>6. Grown(c, items, 0, e)
  <2>1. Whole(e) BY <1>4, ShrunkWhole
  <2>2. \A r \in Reqs : e.length[r] = c.length[r] /\ e.table[r] = c.table[r] BY <1>4 DEF Shrunk, Kept
  <2>3. Sound(e) /\ e.resident = c.resident BY <1>4 DEF Shrunk
  <2>4. \A i \in DOMAIN items : ~(i <= 0) /\ Len(e.table[items[i].req]) = Len(c.table[items[i].req])
    BY <1>1, <2>2
  <2> QED BY <2>1, <2>2, <2>3, <2>4 DEF Grown
<1> DEFINE Good(d, n) == Grown(c, items, n, d) /\ Len(d.alloc.free) = F - sum[n]
<1>7. ASSUME NEW n \in 1 .. N, NEW d, Good(d, n - 1)
      PROVE  Good(GrantItem(d, items[n]), n)
  <2> DEFINE k == Extra(c, items[n])
             fd == Len(d.alloc.free)
             fg == Len(GrantItem(d, items[n]).alloc.free)
             s0 == sum[n - 1]
             s1 == sum[n]
  <2>1. s1 = s0 + k /\ s1 <= sum[N] BY <1>1, <1>2 DEF Sums
  <2>2. s0 \in Nat /\ s1 \in Nat /\ sum[N] \in Nat BY <1>1, <1>3
  <2>3. k \in Nat BY <1>1, ItemFacts, ExtraNat
  <2>4. fd = F - s0 BY <1>7
  <2>5. CanSatisfy(d.alloc, k)
    <3> HIDE DEF k, s0, s1
    <3>1. k <= F - s0 BY <1>5, <2>1, <2>2, <2>3
    <3> QED BY <3>1, <2>4 DEF CanSatisfy
  <2>6. Grown(c, items, n, GrantItem(d, items[n])) /\ fg = fd - k
    BY <1>1, <1>7, <2>5, GrownStep
  <2>7. fg = F - s1
    <3> HIDE DEF k, s0, s1, fg, fd
    <3> QED BY <1>5, <2>1, <2>2, <2>3, <2>4, <2>6
  <2> QED BY <2>6, <2>7
<1>8. Good(e, 0)
  <2>1. sum[0] = 0 BY <1>2 DEF Sums
  <2> QED BY <2>1, <1>5, <1>6
<1> HIDE DEF F
<1>9. \A d, n : Good(d, n) => d \in V BY DEF Grown, Sound
<1>10. PICK f : Steps(f, N, V, e, Step)
  <2>1. e \in V BY <1>8, <1>9
  <2>2. Step \in [1 .. N -> [V -> V]] OBVIOUS
  <2> HIDE DEF N, V, Step
  <2> QED BY <1>1, <2>1, <2>2, Recursion
<1>11. \A n \in 1 .. N : \A d \in V :
          GrantItem(d, items[n]) \in V => Step[n][d] = GrantItem(d, items[n])
  OBVIOUS
<1> HIDE DEF N, V, Step, Good
<1>12. \A n \in 0 .. N : Good(f[n], n)
  <2> DEFINE G == {n \in 0 .. N : Good(f[n], n)}
  <2>1. 0 \in G BY <1>1, <1>8, <1>10 DEF Steps
  <2>2. ASSUME NEW n \in 1 .. N, n - 1 \in G PROVE n \in G
    <3>1. Good(f[n - 1], n - 1) BY <2>2
    <3>2. Good(GrantItem(f[n - 1], items[n]), n) BY <3>1, <1>7
    <3>3. f[n - 1] \in V /\ GrantItem(f[n - 1], items[n]) \in V BY <3>1, <3>2, <1>9
    <3>4. f[n] = GrantItem(f[n - 1], items[n]) BY <3>3, <1>10, <1>11 DEF Steps
    <3> QED BY <3>2, <3>4, <1>1
  <2> HIDE DEF G
  <2>3. \A n \in 0 .. N : n \in G BY <1>1, <2>1, <2>2, Upto
  <2> QED BY <2>3 DEF G
<1>13. \A n \in 1 .. N : f[n] = GrantItem(f[n - 1], items[n])
  <2> TAKE n \in 1 .. N
  <2>1. n - 1 \in 0 .. N BY <1>1
  <2>2. Good(f[n - 1], n - 1) BY <2>1, <1>12
  <2>3. Good(GrantItem(f[n - 1], items[n]), n) BY <2>2, <1>7
  <2>4. f[n - 1] \in V /\ GrantItem(f[n - 1], items[n]) \in V BY <2>2, <2>3, <1>9
  <2> QED BY <2>4, <1>10, <1>11 DEF Steps
<1>14. Is(f) BY <1>1, <1>10, <1>13 DEF Steps
<1>15. Is(after)
  <2> HIDE DEF Is
  <2> QED BY <1>14
<1>16. AfterEnsure(c, items) = after[N] BY DEF AfterEnsure, N, e
<1> HIDE DEF after
<1>17. after[0] = e /\ \A n \in 1 .. N : after[n] = GrantItem(after[n - 1], items[n])
  BY <1>1, <1>15
<1>18. \A n \in 0 .. N : Good(after[n], n)
  <2> DEFINE G == {n \in 0 .. N : Good(after[n], n)}
  <2>1. 0 \in G BY <1>1, <1>8, <1>17
  <2>2. ASSUME NEW n \in 1 .. N, n - 1 \in G PROVE n \in G
    <3>1. Good(GrantItem(after[n - 1], items[n]), n) BY <2>2, <1>7
    <3> QED BY <3>1, <1>17
  <2> HIDE DEF G
  <2>3. \A n \in 0 .. N : n \in G BY <1>1, <2>1, <2>2, Upto
  <2> QED BY <2>3 DEF G
<1>19. Good(after[N], N)
  <2>1. N \in 0 .. N BY <1>1
  <2> QED BY <2>1, <1>18
<1> QED BY <1>16, <1>19 DEF Good, N

-----------------------------------------------------------------------------
(* The forward and its commit.                                             *)

\* A plan that may be executed: each item feeds what follows its committed
\* length, as far as its text and its blocks go.
Ready(c, items) ==
  /\ Planned(c, items)
  /\ \A i \in DOMAIN items : /\ items[i].start = c.length[items[i].req]
                             /\ items[i].end <= Len(Text[items[i].req])
                             /\ Reaches(c, items[i].req, items[i].end)

\* Every position of the plan has been written.
Written(c, items) ==
  \A i \in DOMAIN items : \A p \in items[i].start .. items[i].end - 1 :
    c.pool[BlockAt(c, items[i].req, p)][SlotAt(p)] = SubSeq(Text[items[i].req], 1, p + 1)

(* Two positions of the same slot of the same block are one position of    *)
(* one owner.                                                              *)
LEMMA PlaceApart ==
  ASSUME NEW c, Sound(c), NEW o \in Owners, NEW x \in Owners, NEW p \in Nat, NEW q \in Nat,
         p \div BlockSize + 1 \in DOMAIN c.table[o], q \div BlockSize + 1 \in DOMAIN c.table[x],
         BlockAt(c, o, p) = BlockAt(c, x, q), SlotAt(p) = SlotAt(q)
  PROVE  o = x /\ p = q
<1> DEFINE i == p \div BlockSize
           j == q \div BlockSize
<1>1. i \in Nat /\ j \in Nat BY SlotFacts
<1>2. i + 1 \in DOMAIN c.table[o] /\ j + 1 \in DOMAIN c.table[x] /\ c.table[o][i + 1] = c.table[x][j + 1]
  BY DEF BlockAt
<1> HIDE DEF i, j
<1>3. o = x
  <2>1. c.table[o][i + 1] \in ToSet(c.table[o]) /\ c.table[o][i + 1] \in ToSet(c.table[x])
    BY <1>2 DEF ToSet
  <2> QED BY <2>1, BlocksApart
<1>4. i = j
  <2>1. NoRepeat(c.table[o]) BY DEF Sound, Owns
  <2>2. DOMAIN c.table[o] = 1 .. Len(c.table[o]) BY TableFacts
  <2>3. i + 1 = j + 1 BY <1>2, <1>3, <2>1, <2>2 DEF NoRepeat
  <2> QED BY <1>1, <2>3
<1>5. p = q BY <1>4, SlotsApart DEF i, j
<1> QED BY <1>3, <1>5

\* What a position of an item writes, and where.
LEMMA ItemPlace ==
  ASSUME NEW c, Sound(c), NEW items, Ready(c, items), NEW i \in DOMAIN items,
         NEW p \in items[i].start .. items[i].end - 1
  PROVE  /\ items[i].req \in Owners /\ items[i].req \in Reqs /\ p \in Nat
         /\ c.length[items[i].req] <= p
         /\ p \div BlockSize + 1 \in DOMAIN c.table[items[i].req]
         /\ SubSeq(Text[items[i].req], 1, p + 1) \in Seq(Nat)
<1> DEFINE r == items[i].req
           m == items[i].start
           n == items[i].end
<1>1. r \in Owners /\ r \in Reqs /\ m \in Nat /\ n \in Nat BY ItemFacts DEF Ready
<1>2. m = c.length[r] /\ n <= Len(Text[r]) /\ Reaches(c, r, n) BY DEF Ready
<1> HIDE DEF r, m, n
<1>3. p \in Nat /\ m <= p /\ p \in 0 .. n - 1 BY <1>1 DEF m, n
<1>4. p \div BlockSize + 1 \in DOMAIN c.table[r] BY <1>2, <1>3 DEF Reaches
<1>5. SubSeq(Text[r], 1, p + 1) \in Seq(Nat)
  <2>1. Text[r] \in Seq(Nat) /\ Len(Text[r]) \in Nat BY <1>1, TextAssumption, LenProperties
  <2>2. p + 1 \in 0 .. Len(Text[r]) BY <1>1, <1>2, <1>3, <2>1
  <2>3. \A k \in 1 .. p + 1 : Text[r][k] \in Nat
    <3> TAKE k \in 1 .. p + 1
    <3>1. k \in 1 .. Len(Text[r]) BY <1>3, <2>1, <2>2
    <3> QED BY <2>1, <3>1, ElementOfSeq
  <2> DEFINE q == p + 1
  <2>4. q \in Int BY <1>3
  <2> HIDE DEF q
  <2>5. SubSeq(Text[r], 1, q) \in Seq(Nat) BY <2>1, <2>3, <2>4, SubSeqProperties DEF q
  <2> QED BY <2>5 DEF q
<1> QED BY <1>1, <1>2, <1>3, <1>4, <1>5 DEF r, m

\* A slot is written by one position of one item at most.
LEMMA WriteIs ==
  ASSUME NEW c, Sound(c), NEW items, Ready(c, items), NEW b, NEW s,
         NEW w \in Writes(c, items, b, s)
  PROVE  \E i \in DOMAIN items : \E p \in items[i].start .. items[i].end - 1 :
           w = <<items[i].req, p>> /\ BlockAt(c, items[i].req, p) = b /\ SlotAt(p) = s
<1>1. /\ w \in UNION {{<<items[i].req, p>> : p \in items[i].start .. items[i].end - 1} : i \in DOMAIN items}
      /\ BlockAt(c, w[1], w[2]) = b /\ SlotAt(w[2]) = s
  BY DEF Writes
<1>2. PICK i \in DOMAIN items : w \in {<<items[i].req, p>> : p \in items[i].start .. items[i].end - 1}
  BY <1>1
<1>3. PICK p \in items[i].start .. items[i].end - 1 : w = <<items[i].req, p>> BY <1>2
<1>4. w[1] = items[i].req /\ w[2] = p BY <1>3
<1>5. BlockAt(c, items[i].req, p) = b /\ SlotAt(p) = s BY <1>1, <1>4
<1> QED BY <1>3, <1>5

LEMMA WritesThat ==
  ASSUME NEW c, NEW items, NEW i \in DOMAIN items, NEW p \in items[i].start .. items[i].end - 1
  PROVE  <<items[i].req, p>> \in Writes(c, items, BlockAt(c, items[i].req, p), SlotAt(p))
<1> DEFINE w == <<items[i].req, p>>
<1>1. w \in UNION {{<<items[j].req, q>> : q \in items[j].start .. items[j].end - 1} : j \in DOMAIN items}
  OBVIOUS
<1>2. w[1] = items[i].req /\ w[2] = p OBVIOUS
<1> HIDE DEF w
<1>3. w \in Writes(c, items, BlockAt(c, items[i].req, p), SlotAt(p)) BY <1>1, <1>2 DEF Writes
<1> QED BY <1>3 DEF w

(* The forward writes what the items feed, each to its own place, and      *)
(* nothing that was committed before.                                      *)
LEMMA ForwardSound ==
  ASSUME NEW c, Sound(c), Whole(c), NEW items, Ready(c, items)
  PROVE  LET d == AfterForward(c, items) IN
         Sound(d) /\ Whole(d) /\ Ready(d, items) /\ Written(d, items)
<1> DEFINE d == AfterForward(c, items)
           W(b, s) == Writes(c, items, b, s)
           v(w) == SubSeq(Text[w[1]], 1, w[2] + 1)
           z == [b \in Blocks |-> [s \in Slots |->
                   IF W(b, s) = {} THEN c.pool[b][s] ELSE v(CHOOSE w \in W(b, s) : TRUE)]]
<1>1. c \in CacheType /\ c.pool \in [Blocks -> [Slots -> Seq(Nat)]] BY Fields DEF Sound
<1>2. d = [c EXCEPT !.pool = z] BY DEF AfterForward
<1> HIDE DEF d
<1>3. \A b \in Blocks : \A s \in Slots :
        /\ W(b, s) = {} => z[b][s] = c.pool[b][s]
        /\ W(b, s) # {} => \E w \in W(b, s) : z[b][s] = v(w)
  OBVIOUS
<1>4. \A b, s : \A w \in W(b, s) : v(w) \in Seq(Nat)
  <2> SUFFICES ASSUME NEW b, NEW s, NEW w \in W(b, s) PROVE v(w) \in Seq(Nat) OBVIOUS
  <2>1. PICK i \in DOMAIN items : \E p \in items[i].start .. items[i].end - 1 : w = <<items[i].req, p>>
    BY WriteIs
  <2>2. PICK p \in items[i].start .. items[i].end - 1 : w = <<items[i].req, p>> BY <2>1
  <2>3. SubSeq(Text[items[i].req], 1, p + 1) \in Seq(Nat) BY ItemPlace
  <2>4. w[1] = items[i].req /\ w[2] = p BY <2>2
  <2> QED BY <2>3, <2>4
<1> HIDE DEF v, W
<1>5. z \in [Blocks -> [Slots -> Seq(Nat)]]
  <2>1. ASSUME NEW b \in Blocks, NEW s \in Slots PROVE z[b][s] \in Seq(Nat)
    <3>1. CASE W(b, s) = {}
      <4>1. z[b][s] = c.pool[b][s] BY <3>1, <1>3
      <4> HIDE DEF z
      <4> QED BY <4>1, <1>1
    <3>2. CASE W(b, s) # {}
      <4>1. PICK w \in W(b, s) : z[b][s] = v(w) BY <3>2, <1>3
      <4> HIDE DEF z
      <4> QED BY <4>1, <1>4
    <3> QED BY <3>1, <3>2
  <2>2. \A b \in Blocks : z[b] = [s \in Slots |-> z[b][s]] OBVIOUS
  <2>3. z = [b \in Blocks |-> z[b]] OBVIOUS
  <2> HIDE DEF z
  <2>4. \A b \in Blocks : z[b] \in [Slots -> Seq(Nat)] BY <2>1, <2>2
  <2> QED BY <2>3, <2>4
<1> HIDE DEF z
<1>6. d \in CacheType BY <1>1, <1>2, <1>5 DEF CacheType
<1>7. /\ d.alloc = c.alloc /\ d.resident = c.resident /\ d.prefixes = c.prefixes /\ d.pool = z
      /\ d.table = c.table /\ d.length = c.length
  BY <1>1, <1>2 DEF CacheType
<1>8. CachedKeys(d) = CachedKeys(c) BY <1>7 DEF CachedKeys
<1>9. \A o \in Owners : \A p \in Nat : p \div BlockSize + 1 \in DOMAIN c.table[o]
        => BlockAt(c, o, p) \in Blocks /\ SlotAt(p) \in Slots
  <2> SUFFICES ASSUME NEW o \in Owners, NEW p \in Nat, p \div BlockSize + 1 \in DOMAIN c.table[o]
               PROVE  BlockAt(c, o, p) \in Blocks /\ SlotAt(p) \in Slots
    OBVIOUS
  <2>1. c.table[o] \in Seq(Blocks) /\ DOMAIN c.table[o] = 1 .. Len(c.table[o]) BY TableFacts
  <2> DEFINE q == p \div BlockSize + 1
  <2>2. q \in 1 .. Len(c.table[o]) BY <2>1
  <2> HIDE DEF q
  <2>3. c.table[o][q] \in Blocks BY <2>1, <2>2, ElementOfSeq
  <2> QED BY <2>3, SlotFacts DEF BlockAt, q
<1>10. ASSUME NEW o \in Owners PROVE Content(d, o)
  <2> SUFFICES ASSUME NEW p \in 0 .. c.length[o] - 1
               PROVE  /\ p \div BlockSize + 1 \in DOMAIN c.table[o]
                      /\ z[BlockAt(c, o, p)][SlotAt(p)] = SubSeq(History(o), 1, p + 1)
    BY <1>7 DEF Content, BlockAt
  <2> DEFINE b == BlockAt(c, o, p)
             s == SlotAt(p)
  <2>1. /\ p \div BlockSize + 1 \in DOMAIN c.table[o]
        /\ c.pool[b][s] = SubSeq(History(o), 1, p + 1)
    BY DEF Sound, Content
  <2>2. p \in Nat /\ p < c.length[o] /\ c.length[o] \in Nat BY TableFacts
  <2>3. b \in Blocks /\ s \in Slots BY <1>9, <2>1, <2>2
  <2>4. W(b, s) = {}
    <3> SUFFICES ASSUME NEW w \in W(b, s) PROVE FALSE OBVIOUS
    <3>1. PICK i \in DOMAIN items : \E q \in items[i].start .. items[i].end - 1 :
             w = <<items[i].req, q>> /\ BlockAt(c, items[i].req, q) = b /\ SlotAt(q) = s
      BY WriteIs DEF W
    <3>2. PICK q \in items[i].start .. items[i].end - 1 :
             BlockAt(c, items[i].req, q) = b /\ SlotAt(q) = s
      BY <3>1
    <3>3. /\ items[i].req \in Owners /\ q \in Nat /\ c.length[items[i].req] <= q
          /\ q \div BlockSize + 1 \in DOMAIN c.table[items[i].req]
      BY ItemPlace
    <3>4. o = items[i].req /\ p = q BY <2>1, <2>2, <3>2, <3>3, PlaceApart
    <3> QED BY <2>2, <3>3, <3>4
  <2>5. z[b][s] = c.pool[b][s] BY <1>3, <2>3, <2>4
  <2> QED BY <2>1, <2>5
<1>11. Sound(d)
  <2>1. ASSUME NEW o \in Owners PROVE Owns(d, o) /\ Placed(d, o)
    <3>1. Owns(c, o) /\ Placed(c, o) BY DEF Sound
    <3> QED BY <3>1, <1>7, <1>8 DEF Owns, Placed
  <2>2. Exact(d.alloc) /\ NoRepeat(d.prefixes) BY <1>7 DEF Sound
  <2> QED BY <1>6, <1>10, <2>1, <2>2 DEF Sound
<1>12. Whole(d) BY <1>7, <1>8 DEF Whole
<1>13. Ready(d, items) BY <1>7 DEF Ready, Planned, Reaches
<1>14. Written(d, items)
  <2> SUFFICES ASSUME NEW i \in DOMAIN items, NEW p \in items[i].start .. items[i].end - 1
               PROVE  z[BlockAt(c, items[i].req, p)][SlotAt(p)] = SubSeq(Text[items[i].req], 1, p + 1)
    BY <1>7 DEF Written, BlockAt
  <2> DEFINE r == items[i].req
             b == BlockAt(c, r, p)
             s == SlotAt(p)
  <2>1. r \in Owners /\ p \in Nat /\ p \div BlockSize + 1 \in DOMAIN c.table[r] BY ItemPlace
  <2>2. b \in Blocks /\ s \in Slots BY <1>9, <2>1
  <2>3. <<r, p>> \in W(b, s) BY WritesThat DEF W
  <2>4. PICK w \in W(b, s) : z[b][s] = v(w) BY <1>3, <2>2, <2>3
  <2>5. PICK j \in DOMAIN items : \E q \in items[j].start .. items[j].end - 1 :
           w = <<items[j].req, q>> /\ BlockAt(c, items[j].req, q) = b /\ SlotAt(q) = s
    BY WriteIs DEF W
  <2>6. PICK q \in items[j].start .. items[j].end - 1 :
           w = <<items[j].req, q>> /\ BlockAt(c, items[j].req, q) = b /\ SlotAt(q) = s
    BY <2>5
  <2>7. /\ items[j].req \in Owners /\ q \in Nat
        /\ q \div BlockSize + 1 \in DOMAIN c.table[items[j].req]
    BY ItemPlace
  <2>8. r = items[j].req /\ p = q BY <2>1, <2>6, <2>7, PlaceApart
  <2>9. w[1] = r /\ w[2] = p BY <2>6, <2>8
  <2> QED BY <2>4, <2>9 DEF v
<1> QED BY <1>11, <1>12, <1>13, <1>14 DEF d

\* The commit covers what the forward has written.
LEMMA CommitSound ==
  ASSUME NEW c, Sound(c), Whole(c), NEW items, Ready(c, items), Written(c, items)
  PROVE  LET d == AfterCommit(c, items) IN
         Sound(d) /\ Whole(d) /\ d.resident = c.resident
<1> DEFINE d == AfterCommit(c, items)
           At(o) == CHOOSE i \in DOMAIN items : items[i].req = o
           z == [o \in Owners |-> IF \E i \in DOMAIN items : items[i].req = o
                                  THEN Max2(c.length[o], items[At(o)].end) ELSE c.length[o]]
<1>1. c \in CacheType /\ c.length \in [Owners -> Nat] BY Fields DEF Sound
<1>2. d = [c EXCEPT !.length = z] BY DEF AfterCommit
<1> HIDE DEF d
<1>3. \A i \in DOMAIN items : At(items[i].req) = i
  <2> TAKE i \in DOMAIN items
  <2>1. \A j \in DOMAIN items : items[j].req = items[i].req => j = i BY DEF Ready, Planned
  <2> QED BY <2>1
<1>4. \A i \in DOMAIN items : z[items[i].req] = Max2(c.length[items[i].req], items[i].end)
  <2> TAKE i \in DOMAIN items
  <2>1. items[i].req \in Owners BY ItemFacts DEF Ready
  <2> HIDE DEF At
  <2> QED BY <2>1, <1>3
<1>5. \A o \in Owners : (\A i \in DOMAIN items : items[i].req # o) => z[o] = c.length[o]
  OBVIOUS
<1>6. z = [o \in Owners |-> z[o]] OBVIOUS
<1> HIDE DEF z, At
<1>7. \A i \in DOMAIN items : c.length[items[i].req] \in Nat /\ items[i].end \in Nat /\ items[i].req \in Owners
  BY ItemFacts, TableFacts DEF Ready
<1>8. z \in [Owners -> Nat]
  <2>1. ASSUME NEW o \in Owners PROVE z[o] \in Nat
    <3>1. CASE \E i \in DOMAIN items : items[i].req = o
      <4>1. PICK i \in DOMAIN items : items[i].req = o BY <3>1
      <4>2. c.length[items[i].req] \in Nat /\ items[i].end \in Nat BY <1>7
      <4>3. Max2(c.length[items[i].req], items[i].end) \in Nat BY <4>2 DEF Max2
      <4> QED BY <4>1, <4>3, <1>4
    <3>2. CASE \A i \in DOMAIN items : items[i].req # o BY <3>2, <1>1, <1>5
    <3> QED BY <3>1, <3>2
  <2> QED BY <2>1, <1>6
<1>9. d \in CacheType BY <1>1, <1>2, <1>8 DEF CacheType
<1>10. /\ d.alloc = c.alloc /\ d.resident = c.resident /\ d.prefixes = c.prefixes /\ d.pool = c.pool
       /\ d.table = c.table /\ d.length = z
  BY <1>1, <1>2 DEF CacheType
<1>11. CachedKeys(d) = CachedKeys(c) BY <1>10 DEF CachedKeys
<1>12. ASSUME NEW o \in Owners PROVE Content(d, o)
  <2>0. Content(c, o) BY DEF Sound
  <2>1. CASE \A i \in DOMAIN items : items[i].req # o
    <3>1. d.length[o] = c.length[o] BY <2>1, <1>5, <1>10
    <3> QED BY <2>0, <3>1, <1>10 DEF Content, BlockAt
  <2>2. CASE \E i \in DOMAIN items : items[i].req = o
    <3>1. PICK i \in DOMAIN items : items[i].req = o BY <2>2
    <3> DEFINE m == c.length[o]
               n == items[i].end
    <3>2. /\ m \in Nat /\ n \in Nat /\ items[i].start = m /\ o \in Reqs
          /\ Reaches(c, o, n)
      BY <3>1, <1>7, ItemFacts DEF Ready
    <3>3. d.length[o] = Max2(m, n) BY <3>1, <1>4, <1>10
    <3> SUFFICES ASSUME NEW p \in 0 .. Max2(m, n) - 1
                 PROVE  /\ p \div BlockSize + 1 \in DOMAIN c.table[o]
                        /\ c.pool[BlockAt(c, o, p)][SlotAt(p)] = SubSeq(History(o), 1, p + 1)
      BY <3>3, <1>10 DEF Content, BlockAt
    <3>4. p \in 0 .. m - 1 \/ (p \in m .. n - 1 /\ p \in 0 .. n - 1)
      <4> HIDE DEF m, n
      <4> QED BY <3>2 DEF Max2
    <3>5. CASE p \in 0 .. m - 1 BY <3>5, <2>0 DEF Content
    <3>6. CASE p \in m .. n - 1 /\ p \in 0 .. n - 1
      <4>1. p \div BlockSize + 1 \in DOMAIN c.table[o] BY <3>2, <3>6 DEF Reaches
      <4>2. p \in items[i].start .. items[i].end - 1 BY <3>2, <3>6
      <4>3. c.pool[BlockAt(c, o, p)][SlotAt(p)] = SubSeq(Text[o], 1, p + 1)
        BY <3>1, <4>2 DEF Written
      <4> QED BY <4>1, <4>3, <3>2 DEF History
    <3> QED BY <3>4, <3>5, <3>6
  <2> QED BY <2>1, <2>2
<1>13. Sound(d)
  <2>1. ASSUME NEW o \in Owners PROVE Owns(d, o) /\ Placed(d, o)
    <3>1. Owns(c, o) /\ Placed(c, o) BY DEF Sound
    <3> QED BY <3>1, <1>10, <1>11 DEF Owns, Placed
  <2>2. Exact(d.alloc) /\ NoRepeat(d.prefixes) BY <1>10 DEF Sound
  <2> QED BY <1>9, <1>12, <2>1, <2>2 DEF Sound
<1>14. Whole(d)
  <2>1. ASSUME NEW k \in CachedKeys(c) PROVE d.length[k] = c.length[k]
    <3>1. k \in Owners /\ k \notin Reqs BY CachedAre
    <3>2. \A i \in DOMAIN items : items[i].req \in Reqs BY ItemFacts DEF Ready
    <3>3. \A i \in DOMAIN items : items[i].req # k BY <3>1, <3>2
    <3> QED BY <3>1, <3>3, <1>5, <1>10
  <2> QED BY <2>1, <1>11 DEF Whole
<1> QED BY <1>10, <1>13, <1>14 DEF d

-----------------------------------------------------------------------------
(* The inductive invariant. Between two operations of the cache the plan   *)
(* is empty; while the worker executes one, its requests keep their tables *)
(* and lengths and, once written, what the forward wrote, whatever other   *)
(* requests are released meanwhile.                                        *)

BatchSound ==
  /\ phase = "idle" => batch = <<>>
  /\ phase \in {"packed", "written"} => Ready(cache, batch)
  /\ phase = "written" => Written(cache, batch)

CacheInv == TypeOK /\ Sound(cache) /\ Whole(cache) /\ BatchSound

\* The cache at the start holds nothing.
LEMMA InitCacheSound == Sound(InitCache) /\ Whole(InitCache)
<1> DEFINE c == InitCache
<1>1. InitAllocator \in AllocatorType /\ Exact(InitAllocator) BY InitSound DEF PoolSound
<1>2. /\ c.alloc = InitAllocator /\ c.resident = {} /\ c.prefixes = <<>>
      /\ c.table = [o \in Owners |-> <<>>] /\ c.length = [o \in Owners |-> 0]
      /\ c.pool = [b \in Blocks |-> Blank]
  BY DEF InitCache
<1>3. c \in CacheType
  <2>1. Blank \in [Slots -> Seq(Nat)]
    <3>1. <<>> \in Seq(Nat) BY EmptySeq
    <3> QED BY <3>1 DEF Blank
  <2> HIDE DEF c
  <2>2. c.table \in [Owners -> Seq(Blocks)] /\ <<>> \in Seq(Keys)
    <3>1. <<>> \in Seq(Blocks) /\ <<>> \in Seq(Keys) BY EmptySeq
    <3> QED BY <1>2, <3>1
  <2>3. c.length \in [Owners -> Nat] /\ c.pool \in [Blocks -> [Slots -> Seq(Nat)]] BY <1>2, <2>1
  <2>4. c = [alloc |-> InitAllocator, resident |-> {}, prefixes |-> <<>>,
             table |-> c.table, length |-> c.length, pool |-> c.pool]
    BY <1>2 DEF c, InitCache
  <2>5. {} \in SUBSET Reqs OBVIOUS
  <2> DEFINE a == InitAllocator
             t == c.table
             l == c.length
             z == c.pool
  <2>6. /\ a \in AllocatorType /\ t \in [Owners -> Seq(Blocks)] /\ l \in [Owners -> Nat]
        /\ z \in [Blocks -> [Slots -> Seq(Nat)]]
        /\ c = [alloc |-> a, resident |-> {}, prefixes |-> <<>>, table |-> t, length |-> l, pool |-> z]
    BY <1>1, <2>2, <2>3, <2>4
  <2> HIDE DEF a, t, l, z
  <2> QED BY <2>2, <2>5, <2>6 DEF CacheType
<1> HIDE DEF c
<1>4. ASSUME NEW o \in Owners PROVE Owns(c, o) /\ Content(c, o) /\ Placed(c, o)
  <2>1. c.table[o] = <<>> /\ c.length[o] = 0 BY <1>2
  <2>2. Owned(InitAllocator, o) = {} BY NoOwnerAssumption DEF Owned, InitAllocator
  <2>3. NoRepeat(<<>>) /\ ToSet(<<>>) = {} BY DEF NoRepeat, ToSet
  <2>4. Owns(c, o) BY <1>2, <2>1, <2>2, <2>3 DEF Owns
  <2>5. Content(c, o) /\ Placed(c, o) BY <2>1 DEF Content, Placed
  <2> QED BY <2>4, <2>5
<1>5. NoRepeat(c.prefixes) /\ CachedKeys(c) = {} BY <1>2 DEF NoRepeat, CachedKeys, ToSet
<1>6. Sound(c) BY <1>1, <1>2, <1>3, <1>4, <1>5 DEF Sound
<1>7. Whole(c) BY <1>5 DEF Whole
<1> QED BY <1>6, <1>7 DEF c

\* The order of a plan lists its requests, each once.
LEMMA OrderIs ==
  ASSUME NEW T, T \subseteq Reqs
  PROVE  /\ SetToSeq(T) \in Seq(T)
         /\ \A i, j \in DOMAIN SetToSeq(T) : SetToSeq(T)[i] = SetToSeq(T)[j] => i = j
<1> DEFINE n == Cardinality(T)
           f == SetToSeq(T)
<1>1. IsFiniteSet(T) BY TextAssumption, FS_Subset
<1>2. n \in Nat /\ ExistsBijection(1 .. n, T) BY <1>1, FS_CardinalityType
<1>3. f = CHOOSE g \in [1 .. n -> T] : IsInjective(g) BY DEF SetToSeq
<1> HIDE DEF n, f
<1>4. \E g \in [1 .. n -> T] : IsInjective(g) BY <1>2 DEF ExistsBijection, Bijection, Injection
<1>5. f \in [1 .. n -> T] /\ IsInjective(f) BY <1>3, <1>4
<1>6. f \in Seq(T) BY <1>2, <1>5
<1> QED BY <1>5, <1>6 DEF IsInjective, f

\* A plan stays executable while its requests keep what they have.
LEMMA BatchKept ==
  ASSUME NEW c, Sound(c), NEW d, NEW items, Ready(c, items), NEW T, Kept(c, d, T),
         \A i \in DOMAIN items : items[i].req \in T /\ items[i].req \in d.resident
  PROVE  Ready(d, items) /\ (Written(c, items) => Written(d, items))
<1>1. Ready(d, items) BY DEF Ready, Planned, Reaches, Kept
<1>2. ASSUME Written(c, items), NEW i \in DOMAIN items, NEW p \in items[i].start .. items[i].end - 1
      PROVE  d.pool[BlockAt(d, items[i].req, p)][SlotAt(p)] = SubSeq(Text[items[i].req], 1, p + 1)
  <2> DEFINE r == items[i].req
  <2>1. c.pool[BlockAt(c, r, p)][SlotAt(p)] = SubSeq(Text[r], 1, p + 1) BY <1>2 DEF Written
  <2>2. p \div BlockSize + 1 \in DOMAIN c.table[r] BY ItemPlace
  <2>3. BlockAt(c, r, p) \in ToSet(c.table[r]) BY <2>2 DEF BlockAt, ToSet
  <2>4. BlockAt(d, r, p) = BlockAt(c, r, p) BY DEF Kept, BlockAt
  <2>5. d.pool[BlockAt(c, r, p)] = c.pool[BlockAt(c, r, p)] BY <2>3 DEF Kept
  <2> QED BY <2>1, <2>4, <2>5
<1> QED BY <1>1, <1>2 DEF Written

\* What Pack makes of a choice of requests.
Packed(S, end) ==
  [i \in DOMAIN SetToSeq(S) |-> [req   |-> SetToSeq(S)[i],
                                 start |-> cache.length[SetToSeq(S)[i]],
                                 end   |-> end[SetToSeq(S)[i]]]]

LEMMA PackedIs ==
  ASSUME CacheInv, Pack
  PROVE  /\ phase = "idle" /\ Planned(cache, batch')
         /\ \A i \in DOMAIN batch' : /\ batch'[i].start = cache.length[batch'[i].req]
                                     /\ batch'[i].end <= Len(Text[batch'[i].req])
         /\ \/ CanEnsure(cache, batch') /\ cache' = AfterEnsure(cache, batch') /\ phase' = "packed"
            \/ ~CanEnsure(cache, batch') /\ cache' = AfterEvict(cache, batch') /\ phase' = "full"
<1>1. PICK T \in SUBSET cache.resident \ {{}} : \E end \in [T -> 1 .. NumBlocks * BlockSize + 1] :
         /\ \A r \in T : cache.length[r] < end[r] /\ end[r] <= Len(Text[r])
         /\ batch' = Packed(T, end)
         /\ IF CanEnsure(cache, Packed(T, end))
            THEN cache' = AfterEnsure(cache, Packed(T, end)) /\ phase' = "packed"
            ELSE cache' = AfterEvict(cache, Packed(T, end)) /\ phase' = "full"
  BY DEF Pack, Packed
<1>2. PICK end \in [T -> 1 .. NumBlocks * BlockSize + 1] :
         /\ \A r \in T : cache.length[r] < end[r] /\ end[r] <= Len(Text[r])
         /\ batch' = Packed(T, end)
         /\ IF CanEnsure(cache, Packed(T, end))
            THEN cache' = AfterEnsure(cache, Packed(T, end)) /\ phase' = "packed"
            ELSE cache' = AfterEvict(cache, Packed(T, end)) /\ phase' = "full"
  BY <1>1
<1> DEFINE order == SetToSeq(T)
           n == Len(order)
           items == Packed(T, end)
<1>3. Sound(cache) BY DEF CacheInv
<1>4. T \subseteq Reqs /\ T \subseteq cache.resident
  <2>1. cache.resident \subseteq Reqs BY <1>3, Fields DEF Sound
  <2> QED BY <2>1
<1>5. order \in Seq(T) /\ \A i, j \in DOMAIN order : order[i] = order[j] => i = j
  BY <1>4, OrderIs
<1>6. n \in Nat /\ DOMAIN order = 1 .. n BY <1>5, LenProperties
<1>7. \A i \in 1 .. n : order[i] \in T BY <1>5, ElementOfSeq
<1>8. \A r \in T : r \in Reqs /\ r \in cache.resident /\ cache.length[r] \in Nat /\ end[r] \in Nat
  <2> TAKE r \in T
  <2>1. NumBlocks * BlockSize + 1 \in Nat BY NumBlocksAssumption, SizeAssumption
  <2>2. end[r] \in Nat
    <3> DEFINE m == NumBlocks * BlockSize + 1
    <3>1. m \in Nat /\ end \in [T -> 1 .. m] BY <2>1
    <3> HIDE DEF m
    <3> QED BY <3>1
  <2>3. r \in Owners BY <1>4, OwnersAssumption
  <2> QED BY <1>3, <1>4, <2>2, <2>3, TableFacts
<1>9. items = [i \in 1 .. n |-> [req   |-> order[i], start |-> cache.length[order[i]],
                                 end   |-> end[order[i]]]]
  BY <1>6 DEF Packed
<1> HIDE DEF order, n, items
<1>10. \A i \in 1 .. n : /\ items[i] \in Item /\ items[i].req = order[i]
                         /\ items[i].start = cache.length[order[i]] /\ items[i].end = end[order[i]]
  BY <1>7, <1>8, <1>9 DEF Item
<1>11. items \in Seq(Item) /\ DOMAIN items = 1 .. n
  <2>1. items \in [1 .. n -> Item] BY <1>9, <1>10
  <2> QED BY <1>6, <2>1
<1>12. Planned(cache, items) BY <1>5, <1>6, <1>7, <1>8, <1>10, <1>11 DEF Planned
<1>13. \A i \in DOMAIN items : /\ items[i].start = cache.length[items[i].req]
                               /\ items[i].end <= Len(Text[items[i].req])
  BY <1>2, <1>7, <1>10, <1>11
<1>14. phase = "idle" BY DEF Pack
<1>15. batch' = items BY <1>2 DEF items
<1>16. \/ CanEnsure(cache, items) /\ cache' = AfterEnsure(cache, items) /\ phase' = "packed"
       \/ ~CanEnsure(cache, items) /\ cache' = AfterEvict(cache, items) /\ phase' = "full"
  BY <1>2 DEF items
<1> QED BY <1>12, <1>13, <1>14, <1>15, <1>16

(* What eviction for a plan does, whether or not the blocks suffice then.  *)
LEMMA EvictSound ==
  ASSUME NEW c, Sound(c), NEW items, Planned(c, items)
  PROVE  /\ Needed(c, items) \in Nat /\ Shrunk(c, AfterEvict(c, items))
         /\ Roomy(AfterEvict(c, items), Needed(c, items), {})
<1> DEFINE N == Len(items)
<1>1. N \in Nat BY ItemFacts
<1>2. PICK sum : Sums(c, items, sum) BY NeededIs
<1>3. sum \in [0 .. N -> Nat] /\ Needed(c, items) = sum[N] BY <1>2 DEF Sums
<1> HIDE DEF N
<1>4. Needed(c, items) \in Nat
  <2>1. N \in 0 .. N BY <1>1
  <2> QED BY <1>3, <2>1
<1> QED BY <1>4, EvictedSound DEF AfterEvict

LEMMA InitCacheInv == Init => CacheInv
<1> SUFFICES ASSUME Init PROVE CacheInv OBVIOUS
<1>1. cache = InitCache /\ batch = <<>> /\ phase = "idle" BY DEF Init
<1>2. Sound(cache) /\ Whole(cache) BY <1>1, InitCacheSound
<1>3. TypeOK
  <2>1. cache \in CacheType BY <1>2 DEF Sound
  <2>2. batch \in Seq(Item) BY <1>1, EmptySeq
  <2> QED BY <1>1, <2>1, <2>2 DEF TypeOK
<1>4. BatchSound BY <1>1 DEF BatchSound
<1> QED BY <1>2, <1>3, <1>4 DEF CacheInv

\* One step per action.
LEMMA AdmitInv == ASSUME CacheInv, NEW r \in Reqs, Admit(r) PROVE CacheInv'
<1>1. /\ phase = "idle" /\ r \notin cache.resident /\ cache' = AfterAdmit(cache, r)
      /\ batch' = batch /\ phase' = phase
  BY DEF Admit
<1>2. Sound(cache) /\ Whole(cache) /\ batch = <<>> BY <1>1 DEF CacheInv, BatchSound
<1>3. Sound(cache') /\ Whole(cache') BY <1>1, <1>2, AdmitSound
<1>4. TypeOK' BY <1>1, <1>3 DEF CacheInv, TypeOK, Sound
<1>5. BatchSound' BY <1>1, <1>2 DEF BatchSound
<1> QED BY <1>3, <1>4, <1>5 DEF CacheInv

LEMMA ReleaseInv == ASSUME CacheInv, NEW r \in Reqs, Release(r) PROVE CacheInv'
<1>1. /\ \A i \in DOMAIN batch : batch[i].req # r
      /\ cache' = AfterRelease(cache, r) /\ batch' = batch /\ phase' = phase
  BY DEF Release
<1>2. Sound(cache) /\ Whole(cache) BY DEF CacheInv
<1>3. /\ Sound(cache') /\ Whole(cache') /\ Kept(cache, cache', Reqs \ {r})
      /\ cache'.resident = cache.resident \ {r}
  BY <1>1, <1>2, ReleaseSound
<1>4. TypeOK' BY <1>1, <1>3 DEF CacheInv, TypeOK, Sound
<1>5. BatchSound'
  <2>1. ASSUME Ready(cache, batch)
        PROVE  Ready(cache', batch) /\ (Written(cache, batch) => Written(cache', batch))
    <3>1. \A i \in DOMAIN batch : batch[i].req \in Reqs /\ batch[i].req \in cache.resident
      BY <1>2, <2>1, ItemFacts DEF Ready, Planned
    <3>2. \A i \in DOMAIN batch : batch[i].req \in Reqs \ {r} /\ batch[i].req \in cache'.resident
      BY <1>1, <1>3, <3>1
    <3> DEFINE d == cache'
    <3> HIDE DEF d
    <3>3. Ready(d, batch) /\ (Written(cache, batch) => Written(d, batch))
      BY <1>2, <1>3, <2>1, <3>2, BatchKept DEF d
    <3> QED BY <3>3 DEF d
  <2> QED BY <2>1, <1>1 DEF CacheInv, BatchSound
<1> QED BY <1>3, <1>4, <1>5 DEF CacheInv

LEMMA PackInv == ASSUME CacheInv, Pack PROVE CacheInv'
<1>1. /\ phase = "idle" /\ Planned(cache, batch')
      /\ \A i \in DOMAIN batch' : /\ batch'[i].start = cache.length[batch'[i].req]
                                  /\ batch'[i].end <= Len(Text[batch'[i].req])
      /\ \/ CanEnsure(cache, batch') /\ cache' = AfterEnsure(cache, batch') /\ phase' = "packed"
         \/ ~CanEnsure(cache, batch') /\ cache' = AfterEvict(cache, batch') /\ phase' = "full"
  BY PackedIs
<1>2. Sound(cache) /\ Whole(cache) BY DEF CacheInv
<1>3. batch' \in Seq(Item) BY <1>1 DEF Planned
<1>4. CASE CanEnsure(cache, batch') /\ cache' = AfterEnsure(cache, batch') /\ phase' = "packed"
  <2>1. Grown(cache, batch', Len(batch'), cache') BY <1>1, <1>2, <1>4, EnsureSound
  <2>2. Sound(cache') /\ Whole(cache') BY <2>1 DEF Grown
  <2>3. TypeOK' BY <1>3, <1>4, <2>2 DEF TypeOK, Sound
  <2>4. Ready(cache', batch')
    <3>1. Planned(cache', batch') BY <1>1, <2>1 DEF Planned, Grown
    <3>2. DOMAIN batch' = 1 .. Len(batch') /\ Len(batch') \in Nat BY <1>3, LenProperties
    <3>3. \A i \in DOMAIN batch' : batch'[i].req \in Reqs BY <1>1, <1>2, ItemFacts
    <3>4. \A i \in DOMAIN batch' : Reaches(cache', batch'[i].req, batch'[i].end)
      BY <2>1, <3>2 DEF Grown
    <3>5. \A i \in DOMAIN batch' : batch'[i].start = cache'.length[batch'[i].req]
      BY <1>1, <2>1, <3>3 DEF Grown
    <3> QED BY <1>1, <3>1, <3>4, <3>5 DEF Ready
  <2>5. BatchSound' BY <1>4, <2>4 DEF BatchSound
  <2> QED BY <2>2, <2>3, <2>5 DEF CacheInv
<1>5. CASE ~CanEnsure(cache, batch') /\ cache' = AfterEvict(cache, batch') /\ phase' = "full"
  <2>1. Shrunk(cache, cache') BY <1>1, <1>2, <1>5, EvictSound
  <2>2. Sound(cache') /\ Whole(cache') BY <1>2, <2>1, ShrunkWhole DEF Shrunk
  <2>3. TypeOK' BY <1>3, <1>5, <2>2 DEF TypeOK, Sound
  <2>4. BatchSound' BY <1>5 DEF BatchSound
  <2> QED BY <2>2, <2>3, <2>4 DEF CacheInv
<1> QED BY <1>1, <1>4, <1>5

LEMMA ForwardInv == ASSUME CacheInv, Forward PROVE CacheInv'
<1>1. /\ phase = "packed" /\ cache' = AfterForward(cache, batch) /\ phase' = "written" /\ batch' = batch
  BY DEF Forward
<1>2. Sound(cache) /\ Whole(cache) /\ Ready(cache, batch) BY <1>1 DEF CacheInv, BatchSound
<1>3. Sound(cache') /\ Whole(cache') /\ Ready(cache', batch) /\ Written(cache', batch)
  BY <1>1, <1>2, ForwardSound
<1>4. TypeOK' BY <1>1, <1>3 DEF CacheInv, TypeOK, Sound
<1>5. BatchSound' BY <1>1, <1>3 DEF BatchSound
<1> QED BY <1>3, <1>4, <1>5 DEF CacheInv

LEMMA CommitInv == ASSUME CacheInv, Commit PROVE CacheInv'
<1>1. phase = "written" /\ cache' = AfterCommit(cache, batch) /\ batch' = <<>> /\ phase' = "idle"
  BY DEF Commit
<1>2. Sound(cache) /\ Whole(cache) /\ Ready(cache, batch) /\ Written(cache, batch)
  BY <1>1 DEF CacheInv, BatchSound
<1>3. Sound(cache') /\ Whole(cache') BY <1>1, <1>2, CommitSound
<1>4. TypeOK'
  <2>1. <<>> \in Seq(Item) BY EmptySeq
  <2> QED BY <1>1, <1>3, <2>1 DEF TypeOK, Sound
<1>5. BatchSound' BY <1>1 DEF BatchSound
<1> QED BY <1>3, <1>4, <1>5 DEF CacheInv

LEMMA EndInv == ASSUME CacheInv, Abort \/ Resume PROVE CacheInv'
<1>1. cache' = cache /\ batch' = <<>> /\ phase' = "idle" BY DEF Abort, Resume
<1>2. TypeOK'
  <2>1. <<>> \in Seq(Item) BY EmptySeq
  <2> QED BY <1>1, <2>1 DEF CacheInv, TypeOK
<1>3. BatchSound' BY <1>1 DEF BatchSound
<1> QED BY <1>1, <1>2, <1>3 DEF CacheInv

LEMMA CacheInvKept == CacheInv /\ [Next]_vars => CacheInv'
<1> SUFFICES ASSUME CacheInv, [Next]_vars PROVE CacheInv' OBVIOUS
<1>1. CASE UNCHANGED vars BY <1>1 DEF vars, CacheInv, TypeOK, BatchSound
<1>2. CASE \E r \in Reqs : Admit(r) BY <1>2, AdmitInv
<1>3. CASE \E r \in Reqs : Release(r) BY <1>3, ReleaseInv
<1>4. CASE Pack BY <1>4, PackInv
<1>5. CASE Forward BY <1>5, ForwardInv
<1>6. CASE Commit BY <1>6, CommitInv
<1>7. CASE Abort \/ Resume BY <1>7, EndInv
<1> QED BY <1>1, <1>2, <1>3, <1>4, <1>5, <1>6, <1>7 DEF Next

(* The invariant of the cache (cache.py:80-87), over every sequence of     *)
(* admissions, packed iterations, failures and releases.                   *)
THEOREM CacheInvariant == Spec => []CacheInv
BY InitCacheInv, CacheInvKept, PTL DEF Spec

\* The cache and the plan keep their types.
THEOREM CacheTypeCorrect == Spec => []TypeOK
<1>1. CacheInv => TypeOK BY DEF CacheInv
<1> QED BY <1>1, CacheInvariant, PTL

(* No block is leaked or shared between two sequences, however tables grow *)
(* and entries are stored, evicted and dropped (cache.py:80-87).           *)
THEOREM BlocksAreExact == Spec => []BlocksExact
<1>1. CacheInv => BlocksExact
  <2> SUFFICES ASSUME CacheInv PROVE BlocksExact OBVIOUS
  <2>1. Sound(cache) BY DEF CacheInv
  <2> QED BY <2>1 DEF Sound, Owns, Placed, BlocksExact
<1> QED BY <1>1, CacheInvariant, PTL

(* What attention reads at a committed position is the K/V of the          *)
(* request's own tokens up to it (cache.py:398-425).                       *)
THEOREM ContentIsOwn == Spec => []KVContent
<1>1. CacheInv => KVContent
  <2> SUFFICES ASSUME CacheInv PROVE KVContent OBVIOUS
  <2>1. Sound(cache) /\ Whole(cache) BY DEF CacheInv
  <2> QED BY <2>1 DEF Sound, Content, Whole, KVContent
<1> QED BY <1>1, CacheInvariant, PTL

(* A restored prefix leaves the last token of the prompt to be computed    *)
(* (docs/06-ragged-engine.md:55-56).                                       *)
THEOREM LastTokenIsLeft == Spec => LastTokenLeft
<1> DEFINE Left == \A r \in cache'.resident \ cache.resident : cache'.length[r] < Len(Prompt[r])
<1>1. CacheInv /\ [Next]_vars => [Left]_vars
  <2> SUFFICES ASSUME CacheInv, Next, NEW x \in cache'.resident \ cache.resident
               PROVE  cache'.length[x] < Len(Prompt[x])
    OBVIOUS
  <2>1. Sound(cache) /\ Whole(cache) BY DEF CacheInv
  <2>2. ASSUME NEW r \in Reqs, Admit(r) PROVE cache'.length[x] < Len(Prompt[x])
    <3>1. cache' = AfterAdmit(cache, r) /\ r \notin cache.resident BY <2>2 DEF Admit
    <3>2. cache'.resident = cache.resident \cup {r} /\ cache'.length[r] < Len(Prompt[r])
      BY <2>1, <3>1, AdmitSound
    <3> QED BY <3>2
  <2>3. ASSUME NEW r \in Reqs, Release(r) PROVE FALSE
    <3>1. cache' = AfterRelease(cache, r) BY <2>3 DEF Release
    <3>2. cache'.resident = cache.resident \ {r} BY <2>1, <3>1, ReleaseSound
    <3> QED BY <3>2
  <2>4. ASSUME Pack PROVE FALSE
    <3>1. /\ Planned(cache, batch')
          /\ \/ CanEnsure(cache, batch') /\ cache' = AfterEnsure(cache, batch')
             \/ cache' = AfterEvict(cache, batch')
      BY <2>4, PackedIs
    <3>2. cache'.resident = cache.resident
      <4>1. CASE CanEnsure(cache, batch') /\ cache' = AfterEnsure(cache, batch')
        BY <2>1, <3>1, <4>1, EnsureSound DEF Grown
      <4>2. CASE cache' = AfterEvict(cache, batch') BY <2>1, <3>1, <4>2, EvictSound DEF Shrunk
      <4> QED BY <3>1, <4>1, <4>2
    <3> QED BY <3>2
  <2>5. ASSUME Forward \/ Commit \/ Abort \/ Resume PROVE FALSE
    <3>1. cache \in CacheType BY <2>1 DEF Sound
    <3>2. cache'.resident = cache.resident
      BY <2>5, <3>1 DEF Forward, Commit, Abort, Resume, AfterForward, AfterCommit, CacheType
    <3> QED BY <3>2
  <2> QED BY <2>2, <2>3, <2>4, <2>5 DEF Next
<1> QED BY <1>1, CacheInvariant, PTL DEF Spec, LastTokenLeft

(* Growth is refused only when no entry is left to evict                   *)
(* (docs/architecture.md:93).                                              *)
THEOREM EvictedBeforeRefused == Spec => EvictBeforeRefuse
<1> DEFINE Empty == Refused => cache'.prefixes = <<>>
<1>1. CacheInv /\ [Next]_vars => [Empty]_vars
  <2> SUFFICES ASSUME CacheInv, Next, phase = "idle", phase' = "full" PROVE cache'.prefixes = <<>>
    BY DEF Refused
  <2>1. Sound(cache) BY DEF CacheInv
  <2>2. Pack BY DEF Next, Admit, Release, Forward, Commit, Abort, Resume
  <2>3. /\ Planned(cache, batch') /\ ~CanEnsure(cache, batch') /\ cache' = AfterEvict(cache, batch')
    BY <2>2, PackedIs
  <2>4. Shrunk(cache, cache') /\ Roomy(cache', Needed(cache, batch'), {}) /\ Needed(cache, batch') \in Nat
    BY <2>1, <2>3, EvictSound
  <2>5. Len(cache'.alloc.free) \in Nat BY <2>4, FreeNat DEF Shrunk
  <2>6. ~CanSatisfy(cache'.alloc, Needed(cache, batch')) BY <2>3 DEF CanEnsure
  <2>7. MayGo(cache', {}) = {} BY <2>4, <2>5, <2>6 DEF Roomy, CanSatisfy
  <2>8. cache'.prefixes \in Seq(Keys) BY <2>4, Fields DEF Shrunk, Sound
  <2>9. DOMAIN cache'.prefixes = {} BY <2>7 DEF MayGo
  <2> DEFINE s == cache'.prefixes
  <2>10. s \in Seq(Keys) /\ DOMAIN s = {} BY <2>8, <2>9
  <2> HIDE DEF s
  <2>11. DOMAIN s = 1 .. Len(s) /\ Len(s) \in Nat BY <2>10, LenProperties
  <2>12. Len(s) = 0
    <3> DEFINE n == Len(s)
    <3>1. n \in Nat /\ 1 .. n = {} BY <2>10, <2>11
    <3> HIDE DEF n
    <3>2. n = 0
      <4> SUFFICES ASSUME n # 0 PROVE FALSE OBVIOUS
      <4>1. 1 \in 1 .. n BY <3>1
      <4> QED BY <3>1, <4>1
    <3> QED BY <3>2 DEF n
  <2>13. s = <<>> BY <2>10, <2>12, EmptySeq
  <2> QED BY <2>13 DEF s
<1> QED BY <1>1, CacheInvariant, PTL DEF Spec, EvictBeforeRefuse
=============================================================================
