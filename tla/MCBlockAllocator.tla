-------------------------- MODULE MCBlockAllocator --------------------------
(* Four blocks and two owners: every order of allocating, freeing and      *)
(* freeing by owner that two sequences sharing a pool can produce.         *)
EXTENDS BlockAllocator

CONSTANTS r1, r2

MCOwners == {r1, r2}
=============================================================================
