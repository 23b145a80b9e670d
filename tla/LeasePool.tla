------------------------------ MODULE LeasePool ------------------------------
(***************************************************************************)
(* What a tenant gate promises about concurrency (api.py:145, 208): a      *)
(* client holds at most one lease for its request, never more than         *)
(* Capacity clients hold one at a time, and a lease is taken and given     *)
(* back one at a time.                                                     *)
(***************************************************************************)
EXTENDS Integers, FiniteSets

CONSTANTS Clients, Capacity

VARIABLE held

Init == held = {}

Acquire(c) ==
  /\ c \notin held
  /\ Cardinality(held) < Capacity
  /\ held' = held \cup {c}

Release(c) == c \in held /\ held' = held \ {c}

Next == \E c \in Clients : Acquire(c) \/ Release(c)

Spec == Init /\ [][Next]_held
=============================================================================
