-------------------------- MODULE MCSerialScheduler --------------------------
(* Two requests with prompts of one and two tokens, of three and two       *)
(* output tokens through a queue of one: both stay active for more than    *)
(* one pass, each falls behind, and a prompt waits for the next iteration. *)
EXTENDS SerialScheduler

CONSTANTS r1, r2

MCReqs == {r1, r2}
MCPromptLen == [r \in MCReqs |-> IF r = r1 THEN 1 ELSE 2]
MCMaxOutput == [r \in MCReqs |-> IF r = r1 THEN 3 ELSE 2]

=============================================================================
