---------------------------- MODULE MCTenantGate ----------------------------
(* Three connections, two leases, a budget of five tokens in a window of   *)
(* two seconds of two ticks: requests of one, two and three tokens.        *)
EXTENDS TenantGate

CONSTANTS c1, c2, c3

MCConns == {c1, c2, c3}
MCStreamed == {c2, c3}
MCTokens == [c \in MCConns |-> CASE c = c1 -> 3 [] c = c2 -> 2 [] c = c3 -> 1]
=============================================================================
