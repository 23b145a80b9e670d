---------------------------- MODULE SentinelChild ----------------------------
(***************************************************************************)
(* One child process of the sentinel pilot (experiments/sentinel_pilot.py):*)
(* it builds one engine, warms it up on each cell until the throughput is  *)
(* steady, runs the phases of the comparison mode and leaves one file      *)
(* behind: its result, or the stop rule that ended it.  What a prompt is   *)
(* made of does not matter here, only whether two prompts are the same: a  *)
(* prompt is the seed its tokens are derived from.                         *)
(***************************************************************************)
EXTENDS Naturals, Sequences, FiniteSets

CONSTANTS
    NumCells,       \* cells of the workload, in order
    Concurrency,    \* requests of a phase
    WarmupMinimum,  \* runs before the throughput may count as steady
    WarmupMaximum   \* warm-up workloads materialized for a cell

ASSUME WarmupAssumption ==
    /\ NumCells \in Nat \ {0} /\ Concurrency \in Nat \ {0}
    /\ WarmupMinimum \in Nat \ {0} /\ WarmupMaximum \in Nat
    /\ WarmupMinimum <= WarmupMaximum

VARIABLES
    impl, mode,     \* the engine of this process, the comparison mode
    step,           \* "build", "warmup", "phases", "closed", or "exited"
    cell,           \* the cell being run
    warmups,        \* warm-up runs of this cell
    at,             \* position in the cell's script
    served,         \* the prompts this engine has been given
    kept,           \* the requests' ends in each phase that is reported
    left            \* what the process leaves behind

childVars == <<impl, mode, step, cell, warmups, at, served, kept, left>>

Impls == {"custom", "vllm"}
Modes == {"resource_normalized", "complete_system"}
Requests == 1..Concurrency

(* How a request of a phase can end.  Only the custom engine ends a request in an      *)
(* error; vLLM runs until all have finished or the phase's time is over.               *)
RequestEnds(i) ==
    IF i = "custom" THEN {"completed", "failed", "timed_out"} ELSE {"completed", "timed_out"}

\* Mutant: the phase is left out.
SeedOfCell(c, r, phase, i) == <<c, r, i>>

(* prompt_seed: the cell, the request, the phase; a warm-up phase has a number.        *)
Seed(c, r, phase, i) == <<c, r, phase, i>>

Materialized(c, phase, i) == {Seed(c, r, phase, i) : r \in Requests}

(* build_pair_workload: the phases of a cell, and in which order run_child runs them.  *)
(* The workload of the warm phase runs twice, first to fill the prefix cache.          *)
Script(m) ==
    IF m = "resource_normalized"
    THEN <<[load |-> "unique", report |-> TRUE]>>
    ELSE <<[load |-> "cold", report |-> TRUE],
           [load |-> "warm", report |-> FALSE],
           [load |-> "warm", report |-> TRUE]>>

Running == [kind |-> "running"]
Stop(kind) == [kind |-> kind]
ChildInit ==
    /\ impl \in Impls /\ mode \in Modes
    /\ step = "build"
    /\ cell = 1 /\ warmups = 0 /\ at = 1
    /\ served = {} /\ kept = << >>
    /\ left = Running

(* The engine is built.  In resource_normalized mode vLLM must have taken the block    *)
(* count it was given: a count that is unknown or different stops the pilot, before    *)
(* the `try` that closes the engine.                                                   *)
Build ==
    /\ step = "build"
    /\ \E blocks \in {"as_planned", "unknown", "different"} :
          IF impl = "vllm" /\ mode = "resource_normalized" /\ blocks # "as_planned"
          THEN step' = "exited" /\ left' = Stop("kv_capacity")
          ELSE step' = "warmup" /\ UNCHANGED left
    /\ UNCHANGED <<impl, mode, cell, warmups, at, served, kept>>

TimedOut(ends) == \E r \in Requests : ends[r] = "timed_out"

(* _run_phase: the requests end; one that timed out stops the pilot, through the       *)
(* `finally` that closes the engine.                                                   *)
RunPhase(prompts, ends, Goes) ==
    /\ served' = served \cup prompts
    /\ IF TimedOut(ends)
       THEN /\ step' = "closed" /\ left' = Stop("timeout")
            /\ UNCHANGED <<cell, warmups, at, kept>>
       ELSE Goes
    /\ UNCHANGED <<impl, mode>>

MayWarmAgain(n) == n < WarmupMaximum

(* One warm-up run; each has a workload of its own.  Whether the last three            *)
(* throughputs are close is the clock's choice, their number is not.                   *)
Warmup ==
    /\ step = "warmup"
    /\ \E ends \in [Requests -> RequestEnds(impl)] :
          RunPhase(Materialized(cell, "warmup", warmups), ends,
                   /\ warmups' = warmups + 1
                   /\ \/ MayWarmAgain(warmups') /\ UNCHANGED step
                      \/ warmups' >= WarmupMinimum /\ step' = "phases"
                   /\ UNCHANGED <<cell, at, kept, left>>)

(* The next phase of the cell's script; after the last one the next cell, and after    *)
(* the last cell the result is returned and the engine closed.                         *)
Phase ==
    /\ step = "phases"
    /\ LET item == Script(mode)[at]
           last == at = Len(Script(mode))
       IN \E ends \in [Requests -> RequestEnds(impl)] :
            RunPhase(Materialized(cell, item.load, 0), ends,
               /\ kept' = IF item.report
                          THEN Append(kept, [cell |-> cell, phase |-> item.load, ends |-> ends])
                          ELSE kept
               /\ at' = IF last THEN 1 ELSE at + 1
               /\ warmups' = IF last THEN 0 ELSE warmups
               /\ cell' = IF last /\ cell < NumCells THEN cell + 1 ELSE cell
               /\ step' = IF ~last THEN "phases"
                          ELSE IF cell < NumCells THEN "warmup" ELSE "closed"
               /\ left' = IF last /\ cell = NumCells THEN [kind |-> "result"] ELSE left)

(* main writes the result or the stop, and the process exits.                          *)
Exit ==
    /\ step = "closed"
    /\ step' = "exited"
    /\ UNCHANGED <<impl, mode, cell, warmups, at, served, kept, left>>

(* The process is killed, runs out of memory, or raises anything but StopPilot: there  *)
(* is no file, and the parent sees the return code.                                    *)
Crash ==
    /\ step # "exited"
    /\ step' = "exited" /\ left' = [kind |-> "crash"]
    /\ UNCHANGED <<impl, mode, cell, warmups, at, served, kept>>

Gone == step = "exited" /\ UNCHANGED childVars

ChildNext == Build \/ Warmup \/ Phase \/ Exit \/ Crash \/ Gone

(* The cold and unique phases meet an engine that has seen none of their prompts, in   *)
(* this cell or an earlier one, however many warm-up runs there were; the warm phase   *)
(* that is reported meets an engine that was given each of its prompts before          *)
(* (sentinel_pilot.py:903-960).                                                        *)
ColdIsCold ==
    step = "phases" =>
      LET item == Script(mode)[at]
      IN IF item.load = "warm" /\ item.report
         THEN Materialized(cell, item.load, 0) \subseteq served
         ELSE Materialized(cell, item.load, 0) \cap served = {}

==============================================================================
