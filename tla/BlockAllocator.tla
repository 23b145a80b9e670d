--------------------------- MODULE BlockAllocator ---------------------------
(***************************************************************************)
(* The physical block allocator by itself (cache.py, class                 *)
(* BlockAllocator): its operations, called in any order by any owners.     *)
(***************************************************************************)
EXTENDS BlockPool

VARIABLE alloc

-----------------------------------------------------------------------------
AllocatorInit == alloc = InitAllocator

(* allocate() raises CacheCapacityFull, changing nothing, when too few are free. *)
Allocate(o, n) ==
  /\ CanSatisfy(alloc, n)
  /\ alloc' = AfterAllocate(alloc, o, n)

(* free() of any list its checks let through; DoubleFreeError changes nothing. *)
Free(o, s) ==
  /\ MayFree(alloc, s, o)
  /\ alloc' = AfterFree(alloc, s)

(* free_for(): every block of o, in the order the owner map lists them. *)
FreeFor(o) ==
  \E s \in SetToSeqs(Owned(alloc, o)) : alloc' = AfterFree(alloc, s)

AllocatorNext ==
  \E o \in Owners :
    \/ \E n \in 0 .. NumBlocks : Allocate(o, n)
    \/ \E s \in BoundedSeq(Blocks, NumBlocks) : Free(o, s)
    \/ FreeFor(o)

AllocatorSpec == AllocatorInit /\ [][AllocatorNext]_alloc

-----------------------------------------------------------------------------
AllocatorTypeOK == alloc \in AllocatorType

(* The free list holds each block without an owner, exactly once, and no   *)
(* block that has one: a block is never handed to two sequences, and none  *)
(* is lost (cache.py:80-87).                                               *)
FreeListExact == Exact(alloc)

(* free_blocks + allocated_blocks == total_blocks (cache.py:84, 151).      *)
Conservation == Len(alloc.free) + Cardinality(Allocated(alloc)) = NumBlocks

(* A block passes from one owner to another only through the free list: no *)
(* operation takes over a block that another sequence still owns.          *)
NoSteal ==
  [][\A b \in Blocks :
       alloc.owner[b] # NoOwner => alloc'.owner[b] \in {alloc.owner[b], NoOwner}]_alloc
=============================================================================
