---------------------------- MODULE MCEngineWorker ----------------------------
(***************************************************************************)
(* Three requests and three blocks for the two threads, so that a plan and *)
(* a release compete for the last block and the last prefix entry; three   *)
(* requests for the ragged forward, which are padded to a graph for four,  *)
(* over five blocks, one short of what all of them may need, with a budget *)
(* of three, so that a recomputation can be cut to a decode that is not    *)
(* sampled; three for the serial forward, of which two at a time fit its   *)
(* four blocks, so that the third gets blocks that were written before.    *)
(***************************************************************************)
EXTENDS EngineWorker

WorkerSymmetry == Permutations(Reqs) \cup Permutations(Blocks)
==============================================================================
