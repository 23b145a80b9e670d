-------------------------- MODULE MCRedisTenantGate --------------------------
(* Two containers, the clock of the second one ahead by a tick: a blocking *)
(* request at the one and a streamed request at the other compete for one  *)
(* lease and for a budget that is enough for either.                       *)
EXTENDS RedisTenantGate

CONSTANTS r1, r2

MCConns == {r1, r2}
MCStreamed == {r2}
MCTokens == [c \in MCConns |-> IF c = r1 THEN 2 ELSE 1]
MCAhead == [c \in MCConns |-> IF c = r2 THEN 1 ELSE 0]
=============================================================================
