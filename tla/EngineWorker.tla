----------------------------- MODULE EngineWorker -----------------------------
(***************************************************************************)
(* The worker thread of the engine, in three views: the bookkeeping of     *)
(* blocks of the ragged engine, between the steps of an event loop that    *)
(* releases requests (CacheThreads), its forward pass over the blocks      *)
(* (GraphForward), and the forward pass of the serial modes over their     *)
(* caches (SerialForward).  An engine runs in one mode, the first view     *)
(* knows nothing of what a block holds and the second nothing of other     *)
(* threads: they share no state, and one of the views is chosen.           *)
(***************************************************************************)
EXTENDS CacheThreads, GraphForward, SerialForward

VARIABLE view

vars == <<threadsVars, forwardVars, serialVars, view>>

Init ==
    /\ view \in {"threads", "forward", "serial"}
    /\ ThreadsInit /\ ForwardInit /\ SerialInit
    /\ view # "forward" => kernel = "graphs"
    /\ view # "serial" => mode = Uncached

ThreadsStep == view = "threads" /\ ThreadsNext /\ UNCHANGED <<forwardVars, serialVars, view>>
ForwardStep == view = "forward" /\ ForwardNext /\ UNCHANGED <<threadsVars, serialVars, view>>
SerialStep == view = "serial" /\ SerialNext /\ UNCHANGED <<threadsVars, forwardVars, view>>

Next == ThreadsStep \/ ForwardStep \/ SerialStep

Spec == Init /\ [][Next]_vars
==============================================================================
