------------------------- MODULE MCRaggedScheduler -------------------------
(* Two requests, of prompts of two tokens and one, each allowed two output *)
(* tokens into a queue of one: chunked prefill, a shared budget, a stalled *)
(* consumer, preemption of either request, and STOP behind a full queue.   *)
EXTENDS RaggedScheduler

CONSTANTS r1, r2

MCReqs == {r1, r2}
MCPromptLen == [r \in MCReqs |-> IF r = r1 THEN 2 ELSE 1]
MCMaxOutput == [r \in MCReqs |-> IF r = r1 THEN 3 ELSE 2]

\* Liveness: r2 asks for one token only; one of its events still finds the
\* queue full, STOP.
MCPromptOne == [r \in MCReqs |-> 1]
MCMaxOutputLive == [r \in MCReqs |-> IF r = r1 THEN 3 ELSE 1]
=============================================================================
