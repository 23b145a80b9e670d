----------------------------- MODULE BlockPool ------------------------------
(***************************************************************************)
(* What the operations of the physical block allocator (cache.py, class    *)
(* BlockAllocator) do to its state: a free list used as a stack, and a map *)
(* from each allocated block to the one owner it has.                      *)
(*                                                                         *)
(* The state is one record, so that the cache, which calls the allocator   *)
(* several times within one operation, can compose the operators below:    *)
(*   a.free   _free, the free list; its end is the top of the stack        *)
(*   a.owner  _owner, with NoOwner for a block that is not a key of it     *)
(***************************************************************************)
EXTENDS Integers, Sequences, FiniteSets, SequencesExt

CONSTANTS NumBlocks,   \* total_blocks
          Owners,      \* request ids and prefix ids
          NoOwner

ASSUME NumBlocksAssumption == NumBlocks \in Nat \ {0}
ASSUME NoOwnerAssumption == NoOwner \notin Owners

Blocks == 0 .. NumBlocks - 1

AllocatorType == [free : Seq(Blocks), owner : [Blocks -> Owners \cup {NoOwner}]]

Owned(a, o) == {b \in Blocks : a.owner[b] = o}

Allocated(a) == {b \in Blocks : a.owner[b] # NoOwner}

\* No block occurs twice in s: what len(set(ids)) == len(ids) tests.
NoRepeat(s) == \A i, j \in 1 .. Len(s) : s[i] = s[j] => i = j

(* The free list holds each block without an owner, exactly once, and no   *)
(* block that has one.                                                     *)
Exact(a) ==
  /\ NoRepeat(a.free)
  /\ \A b \in Blocks : a.owner[b] = NoOwner <=> \E i \in 1 .. Len(a.free) : a.free[i] = b

\* The n blocks that n calls of _free.pop() return, first popped first.
Popped(f, n) == [i \in 1 .. n |-> f[Len(f) + 1 - i]]

CanSatisfy(a, n) == n <= Len(a.free)

\* Mutant: the blocks are read from the free list but not taken off it.
AfterPeek(a, o, n) ==
  [a EXCEPT !.owner = [b \in Blocks |->
     IF \E i \in 1 .. n : Popped(a.free, n)[i] = b THEN o ELSE @[b]]]

AfterAllocate(a, o, n) ==
  [free  |-> [i \in 1 .. Len(a.free) - n |-> a.free[i]],
   owner |-> [b \in Blocks |->
                IF \E i \in 1 .. n : Popped(a.free, n)[i] = b THEN o ELSE a.owner[b]]]

\* Mutant: the test for a block listed twice is missing.
MayFreeTwice(a, s, o) == \A i \in 1 .. Len(s) : a.owner[s[i]] = o

\* free() checks every block before it changes anything.
MayFree(a, s, o) == NoRepeat(s) /\ \A i \in 1 .. Len(s) : a.owner[s[i]] = o

AfterFree(a, s) ==
  [free  |-> a.free \o s,
   owner |-> [b \in Blocks |->
                IF \E i \in 1 .. Len(s) : s[i] = b THEN NoOwner ELSE a.owner[b]]]

\* Mutant: blocks numbered from one.
InitFromOne == [free |-> [i \in 1 .. NumBlocks |-> i],
                owner |-> [b \in Blocks |-> NoOwner]]

InitAllocator == [free |-> [i \in 1 .. NumBlocks |-> i - 1],
                  owner |-> [b \in Blocks |-> NoOwner]]
=============================================================================
