---------------------------- MODULE MCModalApp -----------------------------
(***************************************************************************)
(* Two cells of the pilot, two pairs of each mode on two devices, and nine *)
(* ways in which two results can compare; one streaming client and one     *)
(* that waits.  The audit's request is the second of three and has four    *)
(* outputs, one of them with the tokens of the other two.                  *)
(***************************************************************************)
EXTENDS ModalApp, TLC

StreamingCallers == {"r1"}

GpuSymmetry == Permutations(Gpus)

MCCells == {"c1", "c2"}
MCLoad == [c1 |-> [concurrency |-> 1, batches |-> 1], c2 |-> [concurrency |-> 2, batches |-> 1]]

(* Two tokens t1 and t2, each ahead of another choice by m1 and m2.        *)
Side(t1, m1, k1, t2, m2, k2) ==
    [tokens |-> <<t1, t2>>, finite |-> TRUE,
     best |-> << << <<t1, 0>>, <<k1, -m1>> >>, << <<t2, 0>>, <<k2, -m2>> >> >>]

(* The engines agree, differ in the first token, in the second only, or in *)
(* both.                                                                   *)
Agree == [custom |-> Side(1, 0, 2, 1, 2, 2), vllm |-> Side(1, 2, 2, 1, 0, 3)]
First(mc, mv) == [custom |-> Side(1, mc, 2, 1, 2, 2), vllm |-> Side(2, mv, 1, 1, 2, 2)]
Second(mc, mv) == [custom |-> Side(1, 2, 2, 1, mc, 2), vllm |-> Side(1, 2, 2, 2, mv, 1)]

MCComparisons ==
    {Agree, First(0, 1), First(1, 2), Second(1, 0), Second(2, 2),
     [Agree EXCEPT !.custom.best[2][1][1] = 2],
     [Second(0, 0) EXCEPT !.vllm.finite = FALSE],
     [custom |-> Side(1, 0, 3, 1, 0, 2), vllm |-> Side(2, 0, 3, 2, 0, 1)],
     [First(0, 0) EXCEPT !.vllm.best[1] = << <<2, 0>> >>]}

Output(t2, m1) == [tokens |-> <<1, t2>>, finite |-> TRUE,
                   best |-> << << <<1, 0>>, <<2, -m1>> >>, << <<t2, 0>> >> >>]

MCTargetOutputs == {Output(1, 1), Output(1, 3), Output(2, 1), [Output(2, 1) EXCEPT !.tokens[1] = 2]}
MCOtherOutputs == {Output(1, 2)}
==============================================================================
