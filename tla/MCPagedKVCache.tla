--------------------------- MODULE MCPagedKVCache ---------------------------
(* Three requests over a pool too small for all of them. r2 can reuse the  *)
(* prefix r1 leaves, r3 competes with both, and two short entries or one   *)
(* long one fill the prefix cache, so that prefixes are hit, extended,     *)
(* evicted and copied while blocks run out. Prompts end inside a block     *)
(* (r1, r2) and at the end of one (r3).                                    *)
EXTENDS PagedKVCache

CONSTANTS r1, r2, r3

MCReqs == {r1, r2, r3}

MCPrompt == [r \in MCReqs |->
  CASE r = r1 -> <<1, 1, 2>>
    [] r = r2 -> <<1, 1, 1, 1, 2>>
    [] r = r3 -> <<2, 2, 2, 2>>]

\* r1 goes on to generate a token (7); the others end with their prompt.
MCText == [r \in MCReqs |-> IF r = r1 THEN Append(MCPrompt[r], 7) ELSE MCPrompt[r]]

MCOwners == MCReqs \cup Keys

(* Block numbers are names: two states that differ only in which physical  *)
(* block plays which part, or in the order of the free list, behave alike  *)
(* and satisfy the same properties. The view keeps what each table and     *)
(* each prefix entry holds, and whether the blocks are accounted for, so   *)
(* that a state with a leaked or a shared block is never mistaken for a    *)
(* sound one.                                                              *)
Held(s) == [i \in DOMAIN s |-> cache.pool[s[i]]]

MCView ==
  <<[o \in Owners |-> Held(cache.table[o])], cache.length, cache.resident, cache.prefixes,
    Len(cache.alloc.free), BlocksExact, batch, phase>>
=============================================================================
