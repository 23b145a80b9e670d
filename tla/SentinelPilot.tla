---------------------------- MODULE SentinelPilot ----------------------------
(***************************************************************************)
(* The sentinel pilot (modal_app.py:1709-1912): a driver on the operator's *)
(* machine that may be killed and started again, the container of a pair   *)
(* that runs one child process per engine, the files the driver leaves on  *)
(* disk, and the claims experiments/sentinel_report.py makes from them.    *)
(* Of the tokens of a result only this matters: whether two results are    *)
(* the same, and whether a request that failed cut them short.             *)
(***************************************************************************)
EXTENDS Naturals, Sequences, FiniteSets

CONSTANTS
    NumPairs,        \* PAIRS
    Gpus,            \* devices a container may meet
    MaxInvocations   \* bound: how often the operator starts the driver

ASSUME PilotAssumption ==
    /\ NumPairs \in Nat \ {0} /\ Gpus # {} /\ MaxInvocations \in Nat

VARIABLES
    pc,          \* place of the driver: "idle", "next", "child", "append", "write"
    invocations, \* how often it was started
    todo,        \* the <<mode, pair>>s before it, in order
    resume,      \* its --resume flag
    children,    \* the children of the pair under way
    gpus,        \* the devices seen since the pair began
    files,       \* the pair files on disk
    lines,       \* how many lines of workloads.jsonl each pair has
    torn,        \* whether workloads.jsonl ends in the middle of a line
    tears        \* how often the driver was killed in the middle of an append

pilotVars == <<pc, invocations, todo, resume, children, gpus, files, lines, torn, tears>>

PilotModes == <<"resource_normalized", "complete_system">>
PairIds == {"resource_normalized", "complete_system"} \X (1..NumPairs)
Phases(m) == IF m = "resource_normalized" THEN {"unique"} ELSE {"cold", "warm"}

NoFile == [stop |-> "absent", children |-> << >>, gpus |-> {}]
Torn == [stop |-> "torn", children |-> << >>, gpus |-> {}]

(* Of a stopped pair, nothing is read again but its stop.                              *)
Record(stop, cs, gs) ==
    IF stop = "none" THEN [stop |-> stop, children |-> cs, gpus |-> gs]
                     ELSE [stop |-> stop, children |-> << >>, gpus |-> {}]

Order(pair) == IF pair % 2 = 1 THEN <<"custom", "vllm">> ELSE <<"vllm", "custom">>

(* What a child process leaves behind (module SentinelChild): tokens of each reported  *)
(* phase, or none.  Those of vLLM are called "same"; the custom engine's are the same, *)
(* differ, or are "short" of those of a request that failed.                           *)
Tokens(i) == IF i = "custom" THEN {"same", "other", "short"} ELSE {"same"}
ChildEnds(i, m) ==
    {[impl |-> i, end |-> "result", tokens |-> t] : t \in [Phases(m) -> Tokens(i)]}
    \cup [impl : {i}, tokens : {<< >>},
           end : {"crash", "timeout"} \cup
                 (IF i = "vllm" /\ m = "resource_normalized" THEN {"kv_capacity"} ELSE {})]

\* Mutant: the tokens of the two engines are not compared.
StopUncompared(cs, gs) ==
    IF Cardinality(gs) > 1 THEN "gpu_uuid_change"
    ELSE IF cs[Len(cs)].end # "result" THEN cs[Len(cs)].end
    ELSE "none"

(* assert_gpu_identity_stable comes first, then a stop the child has written, then a   *)
(* crash; with both results there, the parity of every phase decides.                  *)
StopAfter(cs, gs) ==
    LET child == cs[Len(cs)]
    IN IF Cardinality(gs) > 1 THEN "gpu_uuid_change"
       ELSE IF child.end # "result" THEN child.end
       ELSE IF Len(cs) = 2 /\ cs[1].tokens # cs[2].tokens THEN "token_mismatch"
       ELSE "none"

PilotInit ==
    /\ pc = "idle" /\ invocations = 0 /\ todo = << >> /\ resume = FALSE
    /\ children = << >> /\ gpus = {}
    /\ files = [x \in PairIds |-> NoFile]
    /\ lines = [x \in PairIds |-> 0]
    /\ torn = FALSE /\ tears = 0

PairsOf(m) == [p \in 1..NumPairs |-> <<m, p>>]

(* The operator starts the driver for one mode or both, from a clean source tree.      *)
Invoke ==
    /\ pc = "idle" /\ invocations < MaxInvocations
    /\ invocations' = invocations + 1
    /\ todo' \in {PairsOf(PilotModes[1]), PairsOf(PilotModes[2]),
                  PairsOf(PilotModes[1]) \o PairsOf(PilotModes[2])}
    /\ resume' \in BOOLEAN
    /\ pc' = "next"
    /\ UNCHANGED <<children, gpus, files, lines, torn, tears>>

End == /\ pc' = "idle" /\ todo' = << >> /\ resume' = FALSE
       /\ children' = << >> /\ gpus' = {}

(* A pair that is on disk is taken from there when the driver resumes; a stop recorded *)
(* in it stops again, a torn file cannot be read.                                      *)
TakeFromDisk ==
    /\ pc = "next" /\ todo # << >> /\ resume /\ files[Head(todo)] # NoFile
    /\ IF files[Head(todo)].stop = "none"
       THEN todo' = Tail(todo) /\ UNCHANGED <<pc, resume, children, gpus>>
       ELSE End
    /\ UNCHANGED <<invocations, files, lines, torn, tears>>

(* Otherwise a container is asked for; it materializes the workload.                   *)
StartPair ==
    /\ pc = "next" /\ todo # << >> /\ ~(resume /\ files[Head(todo)] # NoFile)
    /\ pc' = "child" /\ children' = << >>
    /\ gpus' \in {{g} : g \in Gpus}
    /\ UNCHANGED <<invocations, todo, resume, files, lines, torn, tears>>

(* One child after the other, each followed by a look at the device.                   *)
RunChild ==
    /\ pc = "child"
    /\ \E result \in ChildEnds(Order(Head(todo)[2])[Len(children) + 1], Head(todo)[1]), g \in Gpus :
          /\ children' = Append(children, result)
          /\ gpus' = gpus \cup {g}
          /\ pc' = IF Len(children') = 2 \/ StopAfter(children', gpus') # "none"
                   THEN "append" ELSE "child"
    /\ UNCHANGED <<invocations, todo, resume, files, lines, torn, tears>>

(* The container raises anything but StopPilot, or exceeds its time: the driver raises.*)
RemoteFails ==
    /\ pc = "child" /\ End
    /\ UNCHANGED <<invocations, files, lines, torn, tears>>

\* Mutant: the file is opened for writing anew.
AppendOver ==
    /\ pc = "append"
    /\ lines' = [x \in PairIds |-> IF x = Head(todo) THEN 1 ELSE 0]
    /\ pc' = "write"
    /\ torn' = FALSE
    /\ UNCHANGED <<invocations, todo, resume, children, gpus, files, tears>>

(* The workload is appended to workloads.jsonl.  After a driver killed in its own append *)
(* it goes on the line left without an end, and neither of the two can be read again.  *)
AppendWorkload ==
    /\ pc = "append"
    /\ lines' = [lines EXCEPT ![Head(todo)] = @ + (IF torn THEN 0 ELSE 1)]
    /\ torn' = FALSE
    /\ pc' = "write"
    /\ UNCHANGED <<invocations, todo, resume, children, gpus, files, tears>>

WritePair ==
    /\ pc = "write"
    /\ LET stop == StopAfter(children, gpus)
       IN /\ files' = [files EXCEPT ![Head(todo)] = Record(stop, children, gpus)]
          /\ IF stop = "none"
             THEN /\ pc' = "next" /\ todo' = Tail(todo)
                  /\ children' = << >> /\ gpus' = {} /\ UNCHANGED resume
             ELSE End
    /\ UNCHANGED <<invocations, lines, torn, tears>>

Complete ==
    /\ pc = "next" /\ todo = << >> /\ End
    /\ UNCHANGED <<invocations, files, lines, torn, tears>>

(* The driver is killed.  The pair file it was writing is truncated first, so it may   *)
(* be torn, and so may the line it was appending.                                      *)
Kill ==
    /\ pc # "idle" /\ End
    /\ files' \in {files} \cup (IF pc = "write" THEN {[files EXCEPT ![Head(todo)] = Torn]} ELSE {})
    /\ \/ UNCHANGED <<torn, tears>>
       \/ pc = "append" /\ torn' = TRUE /\ tears' = tears + 1
    /\ UNCHANGED <<invocations, lines>>

Enough == pc = "idle" /\ invocations = MaxInvocations /\ UNCHANGED pilotVars

PilotNext ==
    \/ Invoke \/ TakeFromDisk \/ StartPair \/ RunChild \/ RemoteFails
    \/ AppendWorkload \/ WritePair \/ Complete \/ Kill \/ Enough

(***************************************************************************)
(* The report, as a function of the files: it reads all of them, fails on  *)
(* one it cannot parse, and claims nothing for a mode that stopped or is   *)
(* incomplete.                                                             *)
(***************************************************************************)
Present(m) == {p \in 1..NumPairs : files[<<m, p>>] # NoFile}
Readable == \A x \in PairIds : files[x].stop # "torn"
Stopped(m) == \E p \in Present(m) : files[<<m, p>>].stop # "none"
Claimed(m) == Readable /\ ~Stopped(m) /\ Present(m) = 1..NumPairs

(* Whatever was killed, resumed, repeated or mixed on disk, a performance claim rests  *)
(* on pairs in which both engines ran, in the order of their parity, on one device,    *)
(* and produced the same tokens, all of them (sentinel_report.py:140-150).             *)
ClaimSound ==
    \A m \in {PilotModes[1], PilotModes[2]} : Claimed(m) =>
      \A p \in 1..NumPairs :
        LET pair == files[<<m, p>>]
            cs == pair.children
        IN /\ Len(cs) = 2 /\ <<cs[1].impl, cs[2].impl>> = Order(p)
           /\ Cardinality(pair.gpus) = 1
           /\ cs[1].tokens = cs[2].tokens
           /\ \A ph \in Phases(m) : cs[1].tokens[ph] # "short"

(* A pair whose file is on disk has its workload there too, so that it can be run      *)
(* again, wherever the driver was killed and however often it was started again, but   *)
(* for one pair at most with each kill in the middle of an append: that of the next    *)
(* append, which goes on the torn line (modal_app.py:1886-1889).                       *)
Unlogged == {x \in PairIds : files[x] # NoFile /\ lines[x] = 0}
WorkloadOnDisk == Cardinality(Unlogged) <= tears
==============================================================================
