---------------------------- MODULE ModalApp_proofs ----------------------------
(***************************************************************************)
(* The functions of modal_app.py: what the steps of the server, of a child *)
(* process, of the pilot's driver, of Correctness Protocol V2 and of its   *)
(* audit keep, for any number of callers, cells, requests, warm-up runs,   *)
(* pairs, devices, kills and new starts, and any results compared.  Each   *)
(* holds of the steps of all the functions, since each leaves the state of *)
(* the others alone.                                                       *)
(***************************************************************************)
EXTENDS ModalApp, FiniteSetTheorems, FunctionTheorems, SequenceTheorems, NaturalsInduction,
        WellFoundedInduction, TLAPS

(***************************************************************************)
(* The child process.                                                      *)
(***************************************************************************)
(* Where the process is.  A cell begins at the first item of its script.               *)
ChildPlace ==
  /\ impl \in Impls /\ mode \in Modes
  /\ step \in {"build", "warmup", "phases", "closed", "exited"}
  /\ cell \in 1..NumCells
  /\ at \in 1..Len(Script(mode))
  /\ step \in {"build", "warmup"} => at = 1

(* The phases of this cell that the engine may have been given already.                *)
PhasesBefore == {"warmup"} \cup {Script(mode)[k].load : k \in 1..(at - 1)}

(* The engine has seen only prompts of earlier cells, and of earlier phases of this    *)
(* one; and all of the warm phase once that has run to fill the prefix cache.          *)
SeenBefore ==
  step \in {"build", "warmup", "phases"} =>
    /\ \A p \in served : p[1] \in 1..cell /\ (p[1] = cell => p[3] \in PhasesBefore)
    /\ mode = "complete_system" /\ at = 3 => Materialized(cell, "warm", 0) \subseteq served

ChildInv == ChildPlace /\ SeenBefore

\* The script of a mode, item by item (sentinel_pilot.py:927-960).
LEMMA ScriptItems ==
  ASSUME mode \in Modes
  PROVE  /\ Len(Script(mode)) \in {1, 3}
         /\ mode = "resource_normalized" => Len(Script(mode)) = 1
         /\ mode = "complete_system" => Len(Script(mode)) = 3
         /\ mode = "resource_normalized" =>
              Script(mode)[1] = [load |-> "unique", report |-> TRUE]
         /\ mode = "complete_system" =>
              /\ Script(mode)[1] = [load |-> "cold", report |-> TRUE]
              /\ Script(mode)[2] = [load |-> "warm", report |-> FALSE]
              /\ Script(mode)[3] = [load |-> "warm", report |-> TRUE]
BY DEF Script, Modes

LEMMA ChildStarts == ASSUME ChildInit PROVE ChildInv
<1>1. mode \in Modes BY DEF ChildInit
<1>2. Len(Script(mode)) \in {1, 3} BY <1>1, ScriptItems
<1>3. ChildPlace BY <1>1, <1>2, WarmupAssumption DEF ChildInit, ChildPlace
<1>4. SeenBefore BY DEF ChildInit, SeenBefore
<1> QED BY <1>3, <1>4 DEF ChildInv

\* A prompt says which cell and phase it belongs to (prompt_seed).
LEMMA PromptNames ==
  ASSUME NEW c, NEW phase, NEW i, NEW p \in Materialized(c, phase, i)
  PROVE  p[1] = c /\ p[3] = phase
BY DEF Materialized, Seed

LEMMA WarmupKeeps == ASSUME ChildInv, Warmup PROVE ChildInv'
<1>1. /\ UNCHANGED <<impl, mode, cell, at>> /\ step = "warmup"
      /\ step' \in {"warmup", "phases", "closed"}
      /\ served' = served \cup Materialized(cell, "warmup", warmups)
  BY DEF Warmup, RunPhase, ChildInv
<1>2. ChildPlace' BY <1>1, ScriptItems DEF ChildInv, ChildPlace
<1>3. PhasesBefore' = PhasesBefore BY <1>1 DEF PhasesBefore
<1>4. at = 1 BY <1>1 DEF ChildInv, ChildPlace
<1>5. \A p \in served' : p[1] \in 1..cell /\ (p[1] = cell => p[3] \in PhasesBefore)
  BY <1>1, PromptNames DEF ChildInv, ChildPlace, SeenBefore, PhasesBefore
<1>6. SeenBefore' BY <1>1, <1>3, <1>4, <1>5 DEF SeenBefore
<1> QED BY <1>2, <1>6 DEF ChildInv

LEMMA PhaseKeeps == ASSUME ChildInv, Phase PROVE ChildInv'
<1> DEFINE load == Script(mode)[at].load
           last == at = Len(Script(mode))
<1>1. /\ UNCHANGED <<impl, mode>> /\ step = "phases"
      /\ served' = served \cup Materialized(cell, load, 0)
      /\ \/ step' = "closed" /\ UNCHANGED <<cell, at>>
         \/ /\ at' = IF last THEN 1 ELSE at + 1
            /\ cell' = IF last /\ cell < NumCells THEN cell + 1 ELSE cell
            /\ step' = IF ~last THEN "phases" ELSE IF cell < NumCells THEN "warmup" ELSE "closed"
  BY DEF Phase, RunPhase
<1>2. ChildPlace' BY <1>1, ScriptItems, WarmupAssumption DEF ChildInv, ChildPlace
<1>3. \A p \in served' : p[1] \in 1..cell /\ (p[1] = cell => p[3] \in PhasesBefore \cup {load})
  BY <1>1, PromptNames DEF ChildInv, ChildPlace, SeenBefore
<1>4. SeenBefore'
  <2>1. CASE step' = "closed" BY <2>1 DEF SeenBefore
  <2>2. CASE ~last /\ at' = at + 1 /\ UNCHANGED cell
    <3>1. PhasesBefore' = PhasesBefore \cup {load}
      BY <1>1, <2>2 DEF PhasesBefore, ChildInv, ChildPlace
    <3>2. mode = "complete_system" /\ at' = 3 => Materialized(cell, "warm", 0) \subseteq served'
      BY <1>1, <2>2, ScriptItems DEF ChildInv, ChildPlace
    <3> QED BY <1>1, <1>3, <2>2, <3>1, <3>2 DEF SeenBefore
  <2>3. CASE last /\ at' = 1 /\ cell' = cell + 1
    <3>1. \A p \in served' : p[1] \in 1..cell' /\ p[1] # cell'
      BY <1>3, <2>3 DEF ChildInv, ChildPlace
    <3> QED BY <2>3, <3>1 DEF SeenBefore
  <2> QED BY <1>1, <2>1, <2>2, <2>3 DEF ChildInv, ChildPlace
<1> QED BY <1>2, <1>4 DEF ChildInv

LEMMA ChildKeeps == ASSUME ChildInv, [ChildNext]_childVars PROVE ChildInv'
<1>1. CASE Build
  <2>1. /\ UNCHANGED <<impl, mode, cell, at, served>> /\ step = "build" /\ step' \in {"warmup", "exited"}
    BY <1>1 DEF Build
  <2> QED BY <2>1 DEF ChildInv, ChildPlace, SeenBefore, PhasesBefore
<1>2. CASE Exit \/ Crash
  BY <1>2 DEF Exit, Crash, ChildInv, ChildPlace, SeenBefore
<1>3. CASE UNCHANGED childVars
  BY <1>3 DEF childVars, ChildInv, ChildPlace, SeenBefore, PhasesBefore
<1> QED BY <1>1, <1>2, <1>3, WarmupKeeps, PhaseKeeps DEF ChildNext, Gone

(* The phases that are measured cold meet an engine that has not seen their prompts    *)
(* (sentinel_pilot.py:903-960).                                                        *)
LEMMA ColdStaysCold == ASSUME ChildInv PROVE ColdIsCold
<1> SUFFICES ASSUME step = "phases"
             PROVE  IF Script(mode)[at].load = "warm" /\ Script(mode)[at].report
                    THEN Materialized(cell, Script(mode)[at].load, 0) \subseteq served
                    ELSE Materialized(cell, Script(mode)[at].load, 0) \cap served = {}
  BY DEF ColdIsCold
<1>1. CASE Script(mode)[at].load = "warm" /\ Script(mode)[at].report
  BY <1>1, ScriptItems DEF ChildInv, ChildPlace, SeenBefore, Modes
<1>2. CASE ~(Script(mode)[at].load = "warm" /\ Script(mode)[at].report)
  <2>1. Script(mode)[at].load \notin PhasesBefore
    BY <1>2, ScriptItems DEF ChildInv, ChildPlace, PhasesBefore, Modes
  <2> QED BY <1>2, <2>1, PromptNames DEF ChildInv, ChildPlace, SeenBefore
<1> QED BY <1>1, <1>2

(***************************************************************************)
(* The driver and its files.                                               *)
(***************************************************************************)
Busy == {"child", "append", "write"}
Outcomes == UNION {ChildEnds(i, m) : i \in Impls, m \in Modes}

(* What the driver has before it, and what there is a place for on disk.               *)
PilotPlace ==
  /\ pc \in {"idle", "next"} \cup Busy
  /\ todo \in Seq(PairIds)
  /\ pc \in Busy => todo # << >>
  /\ DOMAIN files = PairIds
  /\ lines \in [PairIds -> Nat]

(* The children of the pair under way are those of its order, each with tokens for the *)
(* phases of its mode if it has a result; the first has one if there is a second.      *)
ChildrenInOrder ==
  pc \in Busy =>
    /\ IsFiniteSet(gpus) /\ gpus # {}
    /\ children \in Seq(Outcomes) /\ Len(children) <= 2
    /\ \A k \in 1..Len(children) :
         children[k] \in ChildEnds(Order(Head(todo)[2])[k], Head(todo)[1])
    /\ Len(children) = 2 \/ (pc = "child" /\ children # << >>) => children[1].end = "result"
    /\ pc = "child" => Len(children) < 2
    /\ pc # "child" => Len(children) = 2 \/ (Len(children) = 1 /\ StopAfter(children, gpus) # "none")

(* What a claim asks of one pair.                                                      *)
PairSound(m, p, pair) ==
  /\ Len(pair.children) = 2
  /\ <<pair.children[1].impl, pair.children[2].impl>> = Order(p)
  /\ Cardinality(pair.gpus) = 1
  /\ pair.children[1].tokens = pair.children[2].tokens
  /\ \A ph \in Phases(m) : pair.children[1].tokens[ph] # "short"

PairsOnDiskSound ==
  \A m \in Modes, p \in 1..NumPairs :
     files[<<m, p>>].stop = "none" => PairSound(m, p, files[<<m, p>>])

(* The pairs whose workload cannot be read: those on disk without one, and that under  *)
(* way once its append has gone on a torn line.                                        *)
Lost ==
  {x \in PairIds : /\ lines[x] = 0
                   /\ files[x] # NoFile \/ (pc = "write" /\ x = Head(todo))}

(* Each of them, and the torn line the next may be lost to, has its kill.              *)
LossesCounted ==
  /\ torn \in BOOLEAN /\ tears \in Nat
  /\ Cardinality(Lost) <= tears
  /\ torn => Cardinality(Lost) + 1 <= tears

PilotInv == PilotPlace /\ ChildrenInOrder /\ PairsOnDiskSound /\ LossesCounted

LEMMA FewPairs == IsFiniteSet(PairIds) /\ IsFiniteSet(Lost)
<1>1. IsFiniteSet({"resource_normalized", "complete_system"})
  <2>1. IsFiniteSet({"resource_normalized"}) BY FS_Singleton
  <2>2. IsFiniteSet({"resource_normalized"} \cup {"complete_system"}) BY <2>1, FS_AddElement
  <2>3. {"resource_normalized", "complete_system"} = {"resource_normalized"} \cup {"complete_system"}
    OBVIOUS
  <2> QED BY <2>2, <2>3, Zenon
<1>2. IsFiniteSet(1..NumPairs) BY PilotAssumption, FS_Interval
<1>3. IsFiniteSet(PairIds) BY <1>1, <1>2, FS_Product DEF PairIds
<1>4. Lost \subseteq PairIds BY DEF Lost
<1> QED BY <1>3, <1>4, FS_Subset

\* What leaves the torn line alone, and adds no pair to those that are lost, keeps count.
LEMMA NoneLost ==
  ASSUME PilotInv, UNCHANGED <<torn, tears>>, Lost' \subseteq Lost
  PROVE  LossesCounted'
<1>1. IsFiniteSet(Lost) BY FewPairs
<1>2. /\ Cardinality(Lost') <= Cardinality(Lost) /\ Cardinality(Lost) \in Nat
      /\ Cardinality(Lost') \in Nat
  BY <1>1, FS_Subset, FS_CardinalityType
<1> QED BY <1>2 DEF PilotInv, LossesCounted

LEMMA PilotStarts == ASSUME PilotInit PROVE PilotInv
<1>1. \A x \in PairIds : files[x] = NoFile BY DEF PilotInit
<1>2. PilotPlace BY DEF PilotInit, PilotPlace, Busy
<1>3. ChildrenInOrder BY DEF PilotInit, ChildrenInOrder, Busy
<1>4. PairsOnDiskSound BY <1>1 DEF PairsOnDiskSound, PairIds, Modes, NoFile
<1>5. LossesCounted
  <2>1. Lost = {} BY <1>1 DEF PilotInit, Lost
  <2>2. Cardinality(Lost) = 0 BY <2>1, FS_EmptySet
  <2>3. ~torn /\ torn \in BOOLEAN BY Zenon DEF PilotInit
  <2>4. tears = 0 BY DEF PilotInit
  <2> QED BY <2>2, <2>3, <2>4 DEF LossesCounted
<1> QED BY <1>2, <1>3, <1>4, <1>5 DEF PilotInv

\* The pairs before a driver that has just been started (modal_app.py:1879-1880).
LEMMA TodoOfInvocation ==
  ASSUME NEW t \in {PairsOf(PilotModes[1]), PairsOf(PilotModes[2]),
                    PairsOf(PilotModes[1]) \o PairsOf(PilotModes[2])}
  PROVE  t \in Seq(PairIds)
<1>1. \A m \in {"resource_normalized", "complete_system"} : PairsOf(m) \in Seq(PairIds)
  <2> SUFFICES ASSUME NEW m \in {"resource_normalized", "complete_system"}
               PROVE  PairsOf(m) \in Seq(PairIds)
    OBVIOUS
  <2>1. NumPairs \in Nat BY PilotAssumption
  <2>2. \A p \in 1..NumPairs : <<m, p>> \in PairIds BY DEF PairIds
  <2> QED BY <2>1, <2>2, IsASeq DEF PairsOf
<1> DEFINE a == PairsOf("resource_normalized")
           b == PairsOf("complete_system")
<1>2. t \in {a, b, a \o b} BY DEF PilotModes
<1>3. a \in Seq(PairIds) /\ b \in Seq(PairIds) BY <1>1
<1> HIDE DEF a, b
<1>4. a \o b \in Seq(PairIds) BY <1>3, ConcatProperties
<1> QED BY <1>2, <1>3, <1>4

LEMMA InvokeKeeps == ASSUME PilotInv, Invoke PROVE PilotInv'
<1>1. todo' \in Seq(PairIds) BY TodoOfInvocation DEF Invoke
<1>2. LossesCounted'
  <2>1. Lost' \subseteq Lost BY DEF Invoke, Lost
  <2> QED BY <2>1, NoneLost DEF Invoke
<1> QED BY <1>1, <1>2 DEF Invoke, PilotInv, PilotPlace, ChildrenInOrder, PairsOnDiskSound, Busy

\* A driver that stops has nothing before it, and leaves the disk to its caller.
LEMMA EndKeeps ==
  ASSUME PilotInv, End, UNCHANGED <<files, lines, torn, tears>>
  PROVE  PilotInv'
<1>1. Lost' \subseteq Lost BY DEF End, Lost
<1>2. LossesCounted' BY <1>1, NoneLost
<1> QED BY <1>2 DEF End, PilotInv, PilotPlace, ChildrenInOrder, PairsOnDiskSound, Busy

LEMMA TakeKeeps == ASSUME PilotInv, TakeFromDisk PROVE PilotInv'
<1>1. CASE End BY <1>1, EndKeeps DEF TakeFromDisk
<1>2. CASE todo' = Tail(todo) /\ UNCHANGED <<pc, children, gpus>>
  <2>1. Lost' \subseteq Lost BY <1>2 DEF TakeFromDisk, Lost
  <2>2. LossesCounted' BY <2>1, NoneLost DEF TakeFromDisk
  <2> QED
    BY <1>2, <2>2 DEF TakeFromDisk, PilotInv, PilotPlace, ChildrenInOrder, PairsOnDiskSound, Busy
<1> QED BY <1>1, <1>2 DEF TakeFromDisk

LEMMA StartKeeps == ASSUME PilotInv, StartPair PROVE PilotInv'
<1>1. IsFiniteSet(gpus') /\ gpus' # {} BY FS_Singleton DEF StartPair
<1>2. ChildrenInOrder' BY <1>1 DEF StartPair, ChildrenInOrder
<1>3. PilotPlace' BY DEF StartPair, PilotInv, PilotPlace, Busy
<1>4. PairsOnDiskSound' BY DEF StartPair, PilotInv, PairsOnDiskSound
<1>5. LossesCounted'
  <2>1. Lost' \subseteq Lost BY DEF StartPair, Lost
  <2> QED BY <2>1, NoneLost DEF StartPair
<1> QED BY <1>2, <1>3, <1>4, <1>5 DEF PilotInv

\* The pair at the head has a mode, a number, and an order of the two engines.
LEMMA HeadPair ==
  ASSUME PilotInv, pc \in Busy
  PROVE  /\ Head(todo) \in PairIds
         /\ Head(todo)[1] \in Modes /\ Head(todo)[2] \in Nat
         /\ Order(Head(todo)[2]) \in {<<"custom", "vllm">>, <<"vllm", "custom">>}
<1>1. Head(todo) \in PairIds BY DEF PilotInv, PilotPlace
<1>2. Head(todo)[1] \in Modes /\ Head(todo)[2] \in Nat BY <1>1, PilotAssumption DEF PairIds, Modes
<1> QED BY <1>1, <1>2 DEF Order

\* Fewer than two children are none or one.
LEMMA FewChildren == ASSUME NEW cs \in Seq(Outcomes), Len(cs) < 2 PROVE Len(cs) \in {0, 1}
<1>1. \A n \in Nat : n < 2 => n \in {0, 1} OBVIOUS
<1>2. Len(cs) \in Nat BY LenProperties
<1> QED BY <1>1, <1>2, Zenon

\* The engine of the next child (modal_app.py:1801).
LEMMA NextImpl ==
  ASSUME NEW order \in {<<"custom", "vllm">>, <<"vllm", "custom">>}, NEW n \in {0, 1}
  PROVE  order[n + 1] \in Impls
BY DEF Impls

LEMMA ChildKeepsPilot == ASSUME PilotInv, RunChild PROVE PilotInv'
<1> DEFINE order == Order(Head(todo)[2])
           m == Head(todo)[1]
<1>1. PICK result \in ChildEnds(order[Len(children) + 1], m), g \in Gpus :
        /\ children' = Append(children, result)
        /\ gpus' = gpus \cup {g}
        /\ pc' = IF Len(children') = 2 \/ StopAfter(children', gpus') # "none"
                 THEN "append" ELSE "child"
  BY DEF RunChild
<1>2. pc = "child" /\ UNCHANGED <<todo, files, lines, torn, tears>> BY DEF RunChild
<1>3. m \in Modes /\ order \in {<<"custom", "vllm">>, <<"vllm", "custom">>}
  BY <1>2, HeadPair DEF Busy
<1>4. children \in Seq(Outcomes) /\ Len(children) \in {0, 1} /\ IsFiniteSet(gpus)
  <2>1. children \in Seq(Outcomes) /\ Len(children) < 2 /\ IsFiniteSet(gpus)
    BY <1>2 DEF PilotInv, ChildrenInOrder, Busy
  <2>2. Len(children) \in {0, 1} BY <2>1, FewChildren
  <2> QED BY <2>1, <2>2
<1>5. result \in Outcomes
  <2>1. order[Len(children) + 1] \in Impls BY <1>3, <1>4, NextImpl
  <2>2. \A i \in Impls, x \in Modes : ChildEnds(i, x) \subseteq Outcomes BY DEF Outcomes
  <2> HIDE DEF order, m
  <2> QED BY <1>3, <2>1, <2>2
<1>6. /\ children' \in Seq(Outcomes) /\ Len(children') = Len(children) + 1
      /\ \A k \in 1..Len(children) : children'[k] = children[k]
      /\ children'[Len(children')] = result
  BY <1>1, <1>4, <1>5
<1>7. ChildrenInOrder'
  <2>1. IsFiniteSet(gpus') /\ gpus' # {} BY <1>1, <1>4, FS_AddElement
  <2>2. \A k \in 1..Len(children') : children'[k] \in ChildEnds(order[k], m)
    BY <1>2, <1>4, <1>6 DEF PilotInv, ChildrenInOrder, Busy
  <2>3. Len(children') = 2 => children'[1].end = "result"
    <3> SUFFICES ASSUME Len(children') = 2 PROVE children'[1].end = "result"
      OBVIOUS
    <3>1. Len(children) = 1 /\ children'[1] = children[1] BY <1>4, <1>6
    <3>2. children # << >> BY <3>1
    <3>3. children[1].end = "result" BY <1>2, <3>2 DEF PilotInv, ChildrenInOrder, Busy
    <3> QED BY <3>1, <3>3
  <2>4. pc' = "child" => Len(children') = 1 /\ StopAfter(children', gpus') = "none"
    BY <1>1, <1>4, <1>6
  <2>5. pc' = "child" => children'[1].end = "result"
    <3> SUFFICES ASSUME pc' = "child", children'[1].end # "result" PROVE FALSE OBVIOUS
    <3>1. children'[1] = result /\ Len(children') = 1 BY <1>6, <2>4
    <3>2. result.end = "none" \/ "gpu_uuid_change" = "none" BY <2>4, <3>1 DEF StopAfter
    <3>3. result.end # "none" BY DEF ChildEnds
    <3> QED BY <3>2, <3>3
  <2> QED BY <1>1, <1>2, <1>4, <1>6, <2>1, <2>2, <2>3, <2>4, <2>5 DEF ChildrenInOrder
<1>8. PilotPlace' BY <1>1, <1>2 DEF PilotInv, PilotPlace, Busy
<1>9. PairsOnDiskSound' BY <1>1, <1>2 DEF PilotInv, PairsOnDiskSound
<1>10. LossesCounted'
  <2>1. Lost' \subseteq Lost BY <1>1, <1>2 DEF Lost
  <2> QED BY <1>2, <2>1, NoneLost
<1> QED BY <1>7, <1>8, <1>9, <1>10 DEF PilotInv

LEMMA AppendKeeps == ASSUME PilotInv, AppendWorkload PROVE PilotInv'
<1> DEFINE x == Head(todo)
<1>1. /\ pc = "append" /\ pc' = "write" /\ UNCHANGED <<todo, children, gpus, files, tears>>
      /\ lines' = [lines EXCEPT ![x] = @ + (IF torn THEN 0 ELSE 1)] /\ torn' = FALSE
  BY DEF AppendWorkload
<1>2. x \in PairIds BY <1>1, HeadPair DEF Busy
<1>3. lines \in [PairIds -> Nat] /\ torn \in BOOLEAN
  BY DEF PilotInv, PilotPlace, LossesCounted
<1>4. PilotPlace' BY <1>1, <1>2, <1>3 DEF PilotInv, PilotPlace, Busy
<1>5. ChildrenInOrder' BY <1>1 DEF PilotInv, ChildrenInOrder, Busy
<1>6. LossesCounted'
  <2>1. IsFiniteSet(Lost) /\ Cardinality(Lost) \in Nat BY FewPairs, FS_CardinalityType
  <2>2. CASE torn
    <3>1. Lost' \subseteq Lost \cup {x} BY <1>1, <1>2, <1>3, <2>2 DEF Lost
    <3>2. IsFiniteSet(Lost \cup {x}) /\ Cardinality(Lost \cup {x}) <= Cardinality(Lost) + 1
      <4> DEFINE lost == Lost
      <4>1. IsFiniteSet(lost) /\ Cardinality(lost) \in Nat BY <2>1
      <4> HIDE DEF lost, x
      <4>2. /\ IsFiniteSet(lost \cup {x})
            /\ Cardinality(lost \cup {x}) = IF x \in lost THEN Cardinality(lost) ELSE Cardinality(lost) + 1
        BY <4>1, FS_AddElement
      <4>3. Cardinality(lost \cup {x}) <= Cardinality(lost) + 1 BY <4>1, <4>2
      <4> QED BY <4>2, <4>3 DEF lost
    <3>3. Cardinality(Lost') \in Nat /\ Cardinality(Lost') <= Cardinality(Lost \cup {x})
          /\ Cardinality(Lost \cup {x}) \in Nat
      BY <3>1, <3>2, FS_Subset, FS_CardinalityType
    <3>4. Cardinality(Lost) + 1 <= tears /\ tears \in Nat BY <2>2 DEF PilotInv, LossesCounted
    <3>5. Cardinality(Lost') <= tears BY <2>1, <3>2, <3>3, <3>4
    <3>6. ~torn' /\ torn' \in BOOLEAN BY <1>1, Zenon
    <3> QED BY <1>1, <3>4, <3>5, <3>6 DEF LossesCounted
  <2>3. CASE ~torn
    <3>1. lines'[x] = lines[x] + 1 /\ lines[x] \in Nat BY <1>1, <1>2, <1>3, <2>3
    <3>2. \A y \in PairIds : y # x => lines'[y] = lines[y] BY <1>1, <1>3
    <3>3. Lost' \subseteq Lost BY <1>1, <3>1, <3>2 DEF Lost
    <3> QED BY <1>1, <1>3, <2>3, <3>3, NoneLost
  <2> QED BY <1>3, <2>2, <2>3
<1>7. PairsOnDiskSound' BY <1>1 DEF PilotInv, PairsOnDiskSound
<1> QED BY <1>4, <1>5, <1>6, <1>7 DEF PilotInv

(* Two children without a stop: both have results on one device, vLLM's tokens are     *)
(* whole, and those of the custom engine are the same (modal_app.py:1781-1850).        *)
LEMMA UnstoppedIsSound ==
  ASSUME PilotInv, pc = "write", StopAfter(children, gpus) = "none"
  PROVE  PairSound(Head(todo)[1], Head(todo)[2], Record("none", children, gpus))
<1> DEFINE order == Order(Head(todo)[2])
           m == Head(todo)[1]
<1>1. m \in Modes /\ order \in {<<"custom", "vllm">>, <<"vllm", "custom">>}
  BY HeadPair DEF Busy
<1>2. /\ IsFiniteSet(gpus) /\ gpus # {}
      /\ Len(children) = 2 /\ children[1].end = "result"
      /\ children[1] \in ChildEnds(order[1], m) /\ children[2] \in ChildEnds(order[2], m)
  <2>1. /\ IsFiniteSet(gpus) /\ gpus # {}
        /\ Len(children) = 2 \/ (Len(children) = 1 /\ StopAfter(children, gpus) # "none")
        /\ Len(children) = 2 => children[1].end = "result"
        /\ \A k \in 1..Len(children) : children[k] \in ChildEnds(order[k], m)
    BY DEF PilotInv, ChildrenInOrder, Busy
  <2>2. Len(children) = 2 BY <2>1
  <2>3. 1 \in 1..2 /\ 2 \in 1..2 OBVIOUS
  <2> QED BY <2>1, <2>2, <2>3
<1>3. children[2].end # "none" BY <1>2 DEF ChildEnds
<1>4. ~(Cardinality(gpus) > 1) /\ children[2].end = "result"
      /\ children[1].tokens = children[2].tokens
  BY <1>2, <1>3 DEF StopAfter
<1>5. Cardinality(gpus) = 1
  BY <1>2, <1>4, FS_CardinalityType, FS_EmptySet
<1>6. \A k \in {1, 2} : /\ children[k].impl = order[k]
                        /\ children[k].tokens \in [Phases(m) -> Tokens(order[k])]
  BY <1>2, <1>4 DEF ChildEnds
<1>7. <<children[1].impl, children[2].impl>> = order BY <1>1, <1>6
<1>8. \A ph \in Phases(m) : children[1].tokens[ph] # "short"
  <2>1. \E k \in {1, 2} : children[k].tokens \in [Phases(m) -> {"same"}]
    BY <1>1, <1>6 DEF Tokens
  <2> QED BY <1>4, <2>1
<1> QED BY <1>2, <1>4, <1>5, <1>7, <1>8 DEF PairSound, Record

LEMMA WriteKeeps == ASSUME PilotInv, WritePair PROVE PilotInv'
<1> DEFINE stop == StopAfter(children, gpus)
<1>1. /\ pc = "write" /\ UNCHANGED <<lines, torn, tears>>
      /\ files' = [files EXCEPT ![Head(todo)] = Record(stop, children, gpus)]
      /\ pc' \in {"next", "idle"} /\ todo' \in {Tail(todo), << >>}
  BY DEF WritePair, End
<1>2. Head(todo) \in PairIds BY <1>1, HeadPair DEF Busy
<1>3. todo' \in Seq(PairIds)
  <2>1. todo \in Seq(PairIds) /\ todo # << >> BY <1>1 DEF PilotInv, PilotPlace, Busy
  <2>2. Tail(todo) \in Seq(PairIds) BY <2>1, HeadTailProperties
  <2>3. << >> \in Seq(PairIds) OBVIOUS
  <2> HIDE DEF stop
  <2> QED BY <1>1, <2>2, <2>3
<1>4. PilotPlace' BY <1>1, <1>2, <1>3 DEF PilotInv, PilotPlace, Busy
<1>5. ChildrenInOrder' BY <1>1 DEF ChildrenInOrder, Busy
<1>6. LossesCounted'
  <2>1. \A y \in PairIds : y # Head(todo) => files'[y] = files[y]
    BY <1>1 DEF PilotInv, PilotPlace
  <2>2. Lost' \subseteq Lost BY <1>1, <2>1 DEF Lost
  <2> QED BY <1>1, <2>2, NoneLost
<1>7. PairsOnDiskSound'
  <2> SUFFICES ASSUME NEW m \in Modes, NEW p \in 1..NumPairs, files'[<<m, p>>].stop = "none"
               PROVE  PairSound(m, p, files'[<<m, p>>])
    BY DEF PairsOnDiskSound, PairSound
  <2>1. <<m, p>> \in PairIds BY DEF Modes, PairIds
  <2>2. CASE <<m, p>> # Head(todo)
    <3>1. files'[<<m, p>>] = files[<<m, p>>] BY <1>1, <2>1, <2>2 DEF PilotInv, PilotPlace
    <3> QED BY <3>1 DEF PilotInv, PairsOnDiskSound
  <2>3. CASE <<m, p>> = Head(todo)
    <3>1. files'[<<m, p>>] = Record(stop, children, gpus) BY <1>1, <2>1, <2>3 DEF PilotInv, PilotPlace
    <3>2. stop = "none" BY <3>1 DEF Record
    <3>3. Head(todo)[1] = m /\ Head(todo)[2] = p BY <2>3
    <3> QED BY <1>1, <3>1, <3>2, <3>3, UnstoppedIsSound
  <2> QED BY <2>2, <2>3
<1> QED BY <1>4, <1>5, <1>6, <1>7 DEF PilotInv

LEMMA KillKeeps == ASSUME PilotInv, Kill PROVE PilotInv'
<1>1. /\ pc' = "idle" /\ todo' = << >> /\ UNCHANGED lines
      /\ \/ UNCHANGED files
         \/ pc = "write" /\ files' = [files EXCEPT ![Head(todo)] = Torn]
      /\ UNCHANGED <<torn, tears>> \/ (torn' = TRUE /\ tears' = tears + 1)
  BY DEF Kill, End
<1>2. pc = "write" => Head(todo) \in PairIds BY HeadPair DEF Busy
<1>3. PilotPlace' BY <1>1 DEF PilotInv, PilotPlace, Busy
<1>4. ChildrenInOrder' BY <1>1 DEF ChildrenInOrder, Busy
<1>5. \A x \in PairIds : files'[x] = files[x] \/ (pc = "write" /\ x = Head(todo) /\ files'[x] = Torn)
  BY <1>1, <1>2 DEF PilotInv, PilotPlace
<1>6. LossesCounted'
  <2>1. Lost' \subseteq Lost BY <1>1, <1>5 DEF Lost
  <2>2. IsFiniteSet(Lost) BY FewPairs
  <2>3. /\ Cardinality(Lost') <= Cardinality(Lost) /\ Cardinality(Lost) \in Nat
        /\ Cardinality(Lost') \in Nat
    BY <2>1, <2>2, FS_Subset, FS_CardinalityType
  <2>4. CASE UNCHANGED <<torn, tears>> BY <2>1, <2>4, NoneLost
  <2>5. CASE torn' = TRUE /\ tears' = tears + 1
    <3>1. tears \in Nat /\ Cardinality(Lost) <= tears BY DEF PilotInv, LossesCounted
    <3>2. Cardinality(Lost') + 1 <= tears' /\ Cardinality(Lost') <= tears' /\ tears' \in Nat
      BY <2>3, <2>5, <3>1
    <3>3. torn' \in BOOLEAN BY <2>5
    <3> QED BY <3>2, <3>3 DEF LossesCounted
  <2> QED BY <1>1, <2>4, <2>5
<1>7. PairsOnDiskSound'
  <2>1. \A m \in Modes, p \in 1..NumPairs : <<m, p>> \in PairIds BY DEF Modes, PairIds
  <2>2. Torn.stop # "none" BY DEF Torn
  <2> SUFFICES ASSUME NEW m \in Modes, NEW p \in 1..NumPairs, files'[<<m, p>>].stop = "none"
               PROVE  PairSound(m, p, files'[<<m, p>>])
    BY DEF PairsOnDiskSound, PairSound
  <2>3. files'[<<m, p>>] = files[<<m, p>>] BY <1>5, <2>1, <2>2
  <2> QED BY <2>3 DEF PilotInv, PairsOnDiskSound
<1> QED BY <1>3, <1>4, <1>6, <1>7 DEF PilotInv

LEMMA PilotKeeps == ASSUME PilotInv, [PilotNext]_pilotVars PROVE PilotInv'
<1>1. CASE RemoteFails \/ Complete BY <1>1, EndKeeps DEF RemoteFails, Complete
<1>2. CASE UNCHANGED pilotVars
  <2>1. Lost' \subseteq Lost BY <1>2 DEF pilotVars, Lost
  <2>2. LossesCounted' BY <1>2, <2>1, NoneLost DEF pilotVars
  <2> QED
    BY <1>2, <2>2 DEF pilotVars, PilotInv, PilotPlace, ChildrenInOrder, PairsOnDiskSound, Busy
<1> QED
  BY <1>1, <1>2, InvokeKeeps, TakeKeeps, StartKeeps, ChildKeepsPilot, AppendKeeps, WriteKeeps, KillKeeps
  DEF PilotNext, Enough

(* What is claimed rests on pairs that ran as they should, and their workload is there *)
(* (sentinel_report.py:140-150, modal_app.py:1889-1892).                               *)
LEMMA DiskIsSound == ASSUME PilotInv PROVE ClaimSound /\ WorkloadOnDisk
<1>1. ClaimSound
  <2> SUFFICES ASSUME NEW m \in Modes, Claimed(m), NEW p \in 1..NumPairs
               PROVE  PairSound(m, p, files[<<m, p>>])
    BY DEF ClaimSound, PairSound, PilotModes, Modes
  <2>1. files[<<m, p>>].stop = "none" BY DEF Claimed, Present, Stopped
  <2> QED BY <2>1 DEF PilotInv, PairsOnDiskSound
<1>2. WorkloadOnDisk
  <2>1. Unlogged \subseteq Lost BY DEF Unlogged, Lost
  <2>2. IsFiniteSet(Lost) BY FewPairs
  <2>3. /\ Cardinality(Unlogged) <= Cardinality(Lost) /\ Cardinality(Lost) \in Nat
        /\ Cardinality(Unlogged) \in Nat
    BY <2>1, <2>2, FS_Subset, FS_CardinalityType
  <2> QED BY <2>3 DEF PilotInv, LossesCounted, WorkloadOnDisk
<1> QED BY <1>1, <1>2

-------------------------------------------------------------------------------
(* The server, for any set of callers and any length of their answers: types, and the  *)
(* account of who has been given an end.                                               *)

(* Types of what the account is about.                                                 *)
EngineType ==
  /\ server \in {"load", "init", "app", "serving", "closing", "closed", "refused"}
  /\ ready \in BOOLEAN
  /\ loop \in {"absent", "running", "stopping", "ended"}
  /\ flight \subseteq Callers
  /\ status \in [Callers -> {"new", "live", "COMPLETED", "CANCELLED", "FAILED"}]

(* A caller in a terminal state has been given an end, is still in the flight that     *)
(* will give it one, or was on a flight nobody came back from.                         *)
EndsAccounted == \A r \in Callers : IsTerminal(r) => r \in ended \cup flight \cup orphans

(* Closing has cancelled everyone but those who came after it had begun.               *)
ClosingCancelled ==
  server \in {"closing", "closed"} => \A r \in Callers : status[r] = "live" => r \in latecomers

(* Without its loop the engine has nothing in flight, and it is closed without it.     *)
FlightNeedsLoop ==
  /\ flight # {} => loop \in {"running", "stopping"}
  /\ server \in {"load", "init"} => loop = "absent"
  /\ server = "closed" => loop \in {"absent", "ended"}

ServerInv == EngineType /\ EndsAccounted /\ ClosingCancelled /\ FlightNeedsLoop

LEMMA ServerStarts == ASSUME ServerInit PROVE ServerInv
BY DEF ServerInit, ServerInv, EngineType, EndsAccounted, ClosingCancelled, FlightNeedsLoop, IsTerminal

(* Starting and stopping the server (modal_app.py:1649-1682).                          *)
LEMMA LifeKeeps ==
  ASSUME ServerInv,
         \/ LoadServer \/ Initialized \/ AppCreated
         \/ Unload \/ LoopEnds \/ StopTimesOut \/ Closed \/ Over
  PROVE  ServerInv'
<1> USE DEF ServerInv, EngineType, EndsAccounted, ClosingCancelled, FlightNeedsLoop, IsTerminal
<1>1. CASE LoadServer BY <1>1 DEF LoadServer, engineVars
<1>2. CASE Initialized BY <1>2 DEF Initialized
<1>3. CASE AppCreated BY <1>3 DEF AppCreated, engineVars
<1>4. CASE Unload BY <1>4 DEF Unload, Cancelled
<1>5. CASE LoopEnds BY <1>5 DEF LoopEnds
<1>6. CASE StopTimesOut BY <1>6 DEF StopTimesOut
<1>7. CASE Closed BY <1>7 DEF Closed, engineVars
<1>8. CASE Over BY <1>8 DEF Over, serverVars
<1> QED BY <1>1, <1>2, <1>3, <1>4, <1>5, <1>6, <1>7, <1>8

(* The loop's flights (scheduler.py:338-436).                                          *)
LEMMA FlightKeeps ==
  ASSUME ServerInv, Launch \/ Land \/ FlightFails \/ NoCapacity
  PROVE  ServerInv'
<1> USE DEF ServerInv, EngineType, EndsAccounted, ClosingCancelled, FlightNeedsLoop, IsTerminal
<1>1. CASE Launch BY <1>1 DEF Launch
<1>2. CASE Land
  <2> DEFINE live == {r \in flight : status[r] = "live"}
  <2>1. PICK complete \in SUBSET live :
               /\ status' = [r \in Callers |-> IF r \in complete THEN "COMPLETED" ELSE status[r]]
               /\ ended' = ended \cup (flight \ live) \cup complete
    <3>1. PICK eos \in SUBSET live :
               /\ status' = [r \in Callers |-> IF r \in eos \cup {q \in live : Len(tokens'[q]) = MaxTokens}
                                               THEN "COMPLETED" ELSE status[r]]
               /\ ended' = ended \cup (flight \ live) \cup (eos \cup {q \in live : Len(tokens'[q]) = MaxTokens})
      BY <1>2 DEF Land
    <3>2. eos \cup {q \in live : Len(tokens'[q]) = MaxTokens} \in SUBSET live BY <3>1
    <3> QED BY <3>1, <3>2
  <2>2. flight' = {} /\ UNCHANGED <<server, ready, loop, latecomers, orphans>> BY <1>2 DEF Land
  <2>3. EngineType' BY <2>1, <2>2
  <2>4. EndsAccounted'
    <3> SUFFICES ASSUME NEW r \in Callers, status'[r] \notin {"new", "live"}
                 PROVE  r \in ended' \cup orphans'
      BY <2>2
    <3>1. CASE r \in complete BY <3>1, <2>1
    <3>2. CASE r \notin complete
      <4>1. status'[r] = status[r] BY <3>2, <2>1
      <4>2. r \in ended \cup flight \cup orphans /\ r \notin live BY <4>1, <2>1
      <4> QED BY <4>2, <2>1, <2>2
    <3> QED BY <3>1, <3>2
  <2>5. ClosingCancelled' BY <2>1, <2>2
  <2> QED BY <2>2, <2>3, <2>4, <2>5
<1>3. CASE FlightFails BY <1>3 DEF FlightFails
<1>4. CASE NoCapacity BY <1>4 DEF NoCapacity
<1> QED BY <1>1, <1>2, <1>3, <1>4

(* The handlers, and the clients that go away (api.py:787-902).                        *)
LEMMA HandlerKeeps ==
  ASSUME ServerInv, NEW r \in Callers,
         SubmitRequest(r) \/ Delta(r) \/ TextDone(r) \/ Waited(r) \/ Disconnect(r)
  PROVE  ServerInv'
<1> USE DEF ServerInv, EngineType, EndsAccounted, ClosingCancelled, FlightNeedsLoop, IsTerminal
<1>1. CASE SubmitRequest(r) BY <1>1 DEF SubmitRequest
<1>2. CASE Delta(r) \/ TextDone(r) \/ Waited(r)
  BY <1>2 DEF Delta, TextDone, Waited, engineVars
<1>3. CASE Disconnect(r) BY <1>3 DEF Disconnect, Cancelled
<1> QED BY <1>1, <1>2, <1>3

LEMMA ServerKeeps == ASSUME ServerInv, [ServerNext]_serverVars PROVE ServerInv'
<1>1. CASE UNCHANGED serverVars
  BY <1>1 DEF serverVars, ServerInv, EngineType, EndsAccounted, ClosingCancelled, FlightNeedsLoop, IsTerminal
<1> QED BY <1>1, LifeKeeps, FlightKeeps, HandlerKeeps DEF ServerNext

(* Whoever has an end coming when the server is closed has been given it               *)
(* (engine.py:600-605).                                                                *)
LEMMA ServerAbandonsNobody == ASSUME ServerInv PROVE NothingAbandoned
BY DEF ServerInv, EngineType, EndsAccounted, ClosingCancelled, FlightNeedsLoop, IsTerminal, NothingAbandoned

-------------------------------------------------------------------------------
(* The text of a sequence of tokens (Text in ApiServer).                               *)

(* The text of the first tokens from that of the tokens before.                        *)
NextText(s, n, before) ==
  IF n = 0 THEN << >>
  ELSE IF Joins(s, n)
  THEN [before EXCEPT ![Len(before)] = IF Completes(s, n) THEN "whole" ELSE @]
  ELSE Append(before, IF s[n] = Letter THEN "a" ELSE "?")

IsText(f, s, m) == f = [n \in 0..m |-> NextText(s, n, f[n - 1])]

\* Text is the last of the texts of its prefixes.
LEMMA TextOf ==
  ASSUME NEW s
  PROVE  Text(s) = (CHOOSE f : IsText(f, s, Len(s)))[Len(s)]
BY DEF Text, IsText, NextText

\* A set of numbers has a least.
LEMMA LeastNumber ==
  ASSUME NEW T, T \subseteq Nat, T # {}
  PROVE  \E n \in T : \A m \in Nat : m < n => m \notin T
<1>1. PICK n \in T : \A m \in T : ~ (<<m, n>> \in OpToRel(<, Nat))
  BY NatLessThanWellFounded, WFMin
<1>2. \A m \in Nat : m < n => <<m, n>> \in OpToRel(<, Nat) BY DEF OpToRel
<1> QED BY <1>1, <1>2

(* The texts of the prefixes exist, for every sequence.                                *)
LEMMA TextExists ==
  ASSUME NEW s, NEW m \in Nat
  PROVE  \E f : IsText(f, s, m)
<1> DEFINE T == {n \in Nat : ~\E f : IsText(f, s, n)}
<1> SUFFICES ASSUME T # {} PROVE FALSE OBVIOUS
<1>1. PICK n \in T : \A k \in Nat : k < n => k \notin T
  <2> HIDE DEF T
  <2> QED BY LeastNumber DEF T
<1>2. CASE n = 0
  <2> DEFINE f == [k \in 0..0 |-> << >>]
  <2>1. f = [k \in 0..0 |-> NextText(s, k, f[k - 1])] BY DEF NextText
  <2> QED BY <1>2, <2>1 DEF IsText
<1>3. CASE n # 0
  <2>1. n - 1 \in Nat /\ n - 1 < n BY <1>3
  <2>2. PICK f : IsText(f, s, n - 1) BY <1>1, <2>1
  <2> DEFINE g == [k \in 0..n |-> IF k = n THEN NextText(s, n, f[n - 1]) ELSE f[k]]
  <2>3. \A k \in 0..(n - 1) : f[k] = NextText(s, k, f[k - 1]) BY <2>2 DEF IsText
  <2>4. \A k \in 0..n : g[k] = NextText(s, k, g[k - 1])
    <3> TAKE k \in 0..n
    <3>1. CASE k = n
      <4>1. g[k - 1] = f[n - 1] BY <3>1, <1>3
      <4> QED BY <4>1, <3>1
    <3>2. CASE k # n /\ k # 0
      <4>1. g[k - 1] = f[k - 1] /\ k \in 0..(n - 1) BY <3>2
      <4> QED BY <4>1, <3>2, <2>3
    <3>3. CASE k = 0
      <4>1. 0 \in 0..(n - 1) /\ g[0] = f[0] BY <1>3
      <4>2. f[0] = << >> BY <2>3, <4>1 DEF NextText
      <4> QED BY <3>3, <4>1, <4>2 DEF NextText
    <3> QED BY <3>1, <3>2, <3>3
  <2>5. g = [k \in 0..n |-> NextText(s, k, g[k - 1])] BY <2>4
  <2> HIDE DEF g
  <2> QED BY <2>5 DEF IsText
<1> QED BY <1>2, <1>3

(* Sequences that begin in the same way have the same texts so far.                    *)
LEMMA TextUnique ==
  ASSUME NEW f, NEW g, NEW s, NEW u, NEW m \in Nat, NEW n \in Nat, NEW k \in Nat,
         k <= m, k <= n, IsText(f, s, m), IsText(g, u, n),
         \A j \in 1..k : s[j] = u[j]
  PROVE  f[k] = g[k]
<1> DEFINE T == {j \in Nat : j <= k /\ f[j] # g[j]}
<1> SUFFICES ASSUME T # {} PROVE FALSE OBVIOUS
<1>1. PICK j \in T : \A i \in Nat : i < j => i \notin T
  <2> HIDE DEF T
  <2> QED BY LeastNumber DEF T
<1>2. f[j] = NextText(s, j, f[j - 1]) /\ g[j] = NextText(u, j, g[j - 1])
  BY <1>1 DEF IsText
<1>3. CASE j = 0 BY <1>1, <1>2, <1>3 DEF NextText
<1>4. CASE j # 0
  <2>1. f[j - 1] = g[j - 1] BY <1>1, <1>4
  <2>2. \A i \in 1..j : s[i] = u[i] BY <1>1
  <2>3. s[j] = u[j] BY <1>1, <1>4, <2>2
  <2>4. \A i \in 1..(j - 1) : Continues(s, i, j) <=> Continues(u, i, j)
    <3> TAKE i \in 1..(j - 1)
    <3>1. s[i] = u[i] /\ \A l \in (i + 1)..j : s[l] = u[l] BY <1>1, <2>2
    <3> QED BY <3>1 DEF Continues
  <2>5. Joins(s, j) <=> Joins(u, j) BY <2>4 DEF Joins
  <2>6. Completes(s, j) <=> Completes(u, j)
    <3>1. \A i \in 1..(j - 1) : s[i] = u[i] BY <1>1, <2>2
    <3> QED BY <2>4, <3>1 DEF Completes
  <2>7. CASE Joins(s, j)
    <3>1. f[j] = [f[j - 1] EXCEPT ![Len(f[j - 1])] = IF Completes(s, j) THEN "whole" ELSE @]
      BY <1>2, <1>4, <2>7 DEF NextText
    <3>2. g[j] = [g[j - 1] EXCEPT ![Len(g[j - 1])] = IF Completes(u, j) THEN "whole" ELSE @]
      BY <1>2, <1>4, <2>5, <2>7 DEF NextText
    <3> QED BY <1>1, <2>1, <2>6, <3>1, <3>2
  <2>8. CASE ~Joins(s, j)
    BY <1>1, <1>2, <1>4, <2>1, <2>3, <2>5, <2>8 DEF NextText
  <2> QED BY <2>7, <2>8
<1> QED BY <1>3, <1>4

Chars == {"a", "?", "whole"}

(* One more token: it completes a character, or begins another.                        *)
LEMMA TextAppend ==
  ASSUME NEW s, NEW n \in Nat, Len(s) = n + 1, NEW p, Len(p) = n,
         \A j \in 1..n : p[j] = s[j]
  PROVE  Text(s) = NextText(s, n + 1, Text(p))
<1> DEFINE f == CHOOSE f : IsText(f, s, n + 1)
           g == CHOOSE g : IsText(g, p, n)
<1>1. IsText(f, s, n + 1) /\ IsText(g, p, n)
  <2>1. n + 1 \in Nat OBVIOUS
  <2>2. (\E x : IsText(x, s, n + 1)) /\ (\E x : IsText(x, p, n)) BY <2>1, TextExists
  <2> QED BY <2>2
<1>2. Text(s) = f[n + 1] /\ Text(p) = g[n] BY TextOf
<1> HIDE DEF f, g
<1>3. f[n + 1] = NextText(s, n + 1, f[n]) BY <1>1 DEF IsText
<1>4. f[n] = g[n] BY <1>1, TextUnique
<1> QED BY <1>2, <1>3, <1>4

\* No tokens have no text.
LEMMA TextEmpty == Text(<< >>) = << >>
<1> DEFINE f == CHOOSE f : IsText(f, << >>, 0)
<1>1. IsText(f, << >>, 0) BY TextExists
<1>2. Text(<< >>) = f[0] BY TextOf
<1> HIDE DEF f
<1> QED BY <1>1, <1>2 DEF IsText, NextText

(* A character is begun at the end, and further pieces of it are missing.              *)
Unfinished(s) ==
  \E j \in 1..Len(s) :
     s[j][1] = "first" /\ Len(s) - j < s[j][2] /\ \A k \in (j + 1)..Len(s) : s[k] = Further

\* A piece is a tuple of a word and a number.
LEMMA PieceShape ==
  ASSUME NEW p \in Pieces
  PROVE  /\ p[2] \in Nat
         /\ p[1] = "first" => p # Letter /\ p # Further
BY ServerAssumption DEF Pieces, Letter, Further, ServerAssumption

\* What a further piece joins is unfinished before it.
LEMMA JoinsUnfinished ==
  ASSUME NEW s \in Seq(Pieces), NEW n \in Nat \ {0}, n = Len(s), Joins(s, n),
         NEW p \in Seq(Pieces), Len(p) = n - 1, \A k \in 1..(n - 1) : p[k] = s[k]
  PROVE  Unfinished(p)
<1>1. PICK j \in 1..(n - 1) : Continues(s, j, n) BY DEF Joins
<1>2. s[j][2] \in Nat BY PieceShape
<1>3. p[j] = s[j] OBVIOUS
<1>4. s[j][1] = "first" /\ n - j <= s[j][2] /\ \A k \in (j + 1)..n : s[k] = Further
  BY <1>1 DEF Continues
<1>5. \A k \in (j + 1)..(n - 1) : p[k] = Further
  <2> TAKE k \in (j + 1)..(n - 1)
  <2>1. k \in 1..(n - 1) /\ k \in (j + 1)..n OBVIOUS
  <2> QED BY <1>4, <2>1
<1>6. j \in 1..Len(p) /\ Len(p) - j < s[j][2]
  <2>1. j \in 1..(n - 1) /\ (n - 1) - j < n - j OBVIOUS
  <2> QED BY <1>2, <1>4, <2>1
<1> QED BY <1>3, <1>4, <1>5, <1>6 DEF Unfinished

\* What is unfinished has been begun.
LEMMA UnfinishedBegun == ASSUME NEW s, Unfinished(s) PROVE s # << >>
BY DEF Unfinished

\* What is unfinished after a token was begun by it, or joined without being completed.
LEMMA UnfinishedAfter ==
  ASSUME NEW s \in Seq(Pieces), NEW n \in Nat \ {0}, n = Len(s), Unfinished(s)
  PROVE  IF Joins(s, n) THEN ~Completes(s, n) ELSE s[n] # Letter
<1>1. PICK j \in 1..n : /\ s[j][1] = "first" /\ n - j < s[j][2]
                        /\ \A k \in (j + 1)..n : s[k] = Further
  BY DEF Unfinished
<1>2. CASE Joins(s, n)
  <2> SUFFICES ASSUME Completes(s, n) PROVE FALSE BY <1>2
  <2>1. PICK i \in 1..(n - 1) : Continues(s, i, n) /\ n - i = s[i][2] BY DEF Completes
  <2>2. s[i][1] = "first" /\ \A k \in (i + 1)..n : s[k] = Further BY <2>1 DEF Continues
  <2>3. s[i] # Further /\ s[j] # Further BY <1>1, <2>2, PieceShape
  <2>4. ~(i < j) BY <1>1, <2>2, <2>3
  <2>5. ~(j < i) BY <1>1, <2>1, <2>3
  <2>6. i = j BY <2>4, <2>5
  <2> QED BY <1>1, <2>1, <2>6
<1>3. CASE ~Joins(s, n)
  <2>1. j = n
    <3> SUFFICES ASSUME j # n PROVE FALSE OBVIOUS
    <3>1. j \in 1..(n - 1) /\ s[j][2] \in Nat BY PieceShape
    <3>2. Continues(s, j, n) BY <1>1, <3>1 DEF Continues
    <3> QED BY <1>3, <3>1, <3>2 DEF Joins
  <2> QED BY <1>1, <1>3, <2>1, PieceShape
<1> QED BY <1>2, <1>3

(* A text is a sequence of characters, and one that breaks off within a character ends *)
(* with the replacement character.                                                     *)
LEMMA TextType ==
  ASSUME NEW s \in Seq(Pieces)
  PROVE  /\ Text(s) \in Seq(Chars)
         /\ s # << >> => Text(s) # << >>
         /\ Unfinished(s) => Text(s)[Len(Text(s))] = "?"
<1> DEFINE P(u) == /\ Text(u) \in Seq(Chars)
                   /\ u # << >> => Text(u) # << >>
                   /\ Unfinished(u) => Text(u)[Len(Text(u))] = "?"
           T == {n \in Nat : \E u \in Seq(Pieces) : Len(u) = n /\ ~P(u)}
<1> SUFFICES ASSUME T # {} PROVE FALSE BY LenProperties
<1>1. PICK n \in T : \A k \in Nat : k < n => k \notin T
  <2> HIDE DEF T
  <2> QED BY LeastNumber DEF T
<1>2. PICK u \in Seq(Pieces) : Len(u) = n /\ ~P(u) BY <1>1
<1>3. n # 0
  <2> SUFFICES ASSUME n = 0 PROVE FALSE OBVIOUS
  <2>1. u = << >> BY <1>2
  <2>2. ~Unfinished(u) BY <2>1 DEF Unfinished
  <2> QED BY <1>2, <2>1, <2>2, TextEmpty
<1> DEFINE p == SubSeq(u, 1, n - 1)
<1>4. p \in Seq(Pieces) /\ Len(p) = n - 1 /\ \A j \in 1..(n - 1) : p[j] = u[j]
  BY <1>2, <1>3
<1> HIDE DEF p
<1>5. P(p)
  <2>1. n - 1 \in Nat /\ n - 1 < n BY <1>3
  <2>2. n - 1 \notin T BY <1>1, <2>1
  <2> QED BY <1>4, <2>1, <2>2
<1>6. Text(u) = NextText(u, n, Text(p)) BY <1>2, <1>3, <1>4, TextAppend
<1>7. CASE Joins(u, n)
  <2> DEFINE c == IF Completes(u, n) THEN "whole" ELSE "?"
  <2>1. Unfinished(p) BY <1>2, <1>3, <1>4, <1>7, JoinsUnfinished
  <2>2. p # << >> BY <2>1 DEF Unfinished
  <2>3. Text(p) \in Seq(Chars) /\ Text(p) # << >> /\ Text(p)[Len(Text(p))] = "?"
    BY <1>5, <2>1, <2>2
  <2>4. Text(u) = [Text(p) EXCEPT ![Len(Text(p))] = IF Completes(u, n) THEN "whole" ELSE @]
    BY <1>3, <1>6, <1>7 DEF NextText
  <2>5. c \in Chars BY DEF Chars
  <2>6. Text(u) = [Text(p) EXCEPT ![Len(Text(p))] = c] BY <2>3, <2>4
  <2>7. Unfinished(u) => c = "?" BY <1>2, <1>3, <1>7, UnfinishedAfter
  <2> HIDE DEF c
  <2>8. /\ Text(u) \in Seq(Chars) /\ Text(u) # << >>
        /\ Text(u)[Len(Text(u))] = c
    BY <2>3, <2>5, <2>6
  <2> QED BY <1>2, <2>7, <2>8
<1>8. CASE ~Joins(u, n)
  <2> DEFINE c == IF u[n] = Letter THEN "a" ELSE "?"
  <2>1. Text(u) = Append(Text(p), c) BY <1>3, <1>6, <1>8 DEF NextText
  <2>2. c \in Chars BY DEF Chars
  <2>3. /\ Text(u) \in Seq(Chars) /\ Text(u) # << >>
        /\ Text(u)[Len(Text(u))] = c
    <3>1. Text(p) \in Seq(Chars) BY <1>5
    <3>2. /\ Append(Text(p), c) \in Seq(Chars) /\ Append(Text(p), c) # << >>
          /\ Len(Append(Text(p), c)) = Len(Text(p)) + 1
          /\ Append(Text(p), c)[Len(Text(p)) + 1] = c
      <4> HIDE DEF c
      <4> QED BY <2>2, <3>1, AppendProperties
    <3> QED BY <2>1, <3>2, Zenon
  <2>4. Unfinished(u) => c = "?" BY <1>2, <1>3, <1>8, UnfinishedAfter
  <2> HIDE DEF c
  <2> QED BY <1>2, <2>3, <2>4
<1> QED BY <1>7, <1>8
-------------------------------------------------------------------------------
(* The answers (api.py:787-902): what has been sent against what has been generated.   *)

AnswerRecord ==
  [at : {"none", "wait", "stream", "done", "completed", "broken", "dropped"},
   taken : Nat, prefix : Nat, sent : Seq(Chars), final : Seq(Chars)]

AnswerType ==
  /\ ended \subseteq Callers
  /\ tokens \in [Callers -> Seq(Pieces)]
  /\ answer \in [Callers -> AnswerRecord]

(* Who has been given an end has one, and who is in a flight has been submitted.       *)
EndsAreFinal ==
  /\ \A r \in ended : IsTerminal(r)
  /\ \A r \in flight : status[r] # "new"

(* Before its submission a request has no answer, and one that waits asked for none in *)
(* pieces.                                                                             *)
AskedFor ==
  \A r \in Callers :
    /\ status[r] = "new" => answer[r] = Silent
    /\ answer[r].at = "wait" => r \notin Streaming

(* The text of the tokens the handler has taken.                                       *)
Decoded(r) == Text(SubSeq(tokens[r], 1, answer[r].taken))

(* What a stream has sent is that text, but that a split character stands as the       *)
(* replacement character; at the end nothing is left to take.                          *)
PiecesMatch ==
  \A r \in Callers : answer[r].at \in {"stream", "done"} =>
    /\ answer[r].taken <= Len(tokens[r])
    /\ answer[r].prefix = Len(Decoded(r)) /\ Len(answer[r].sent) = Len(Decoded(r))
    /\ \A k \in 1..Len(answer[r].sent) : answer[r].sent[k] = AsSent(Decoded(r)[k])
    /\ answer[r].at = "done" => answer[r].taken = Len(tokens[r]) /\ r \in ended

AnswersInv == AnswerType /\ EndsAreFinal /\ AskedFor /\ PiecesMatch /\ StreamSound

LEMMA AnswersStart == ASSUME ServerInit PROVE AnswersInv
<1>1. Silent \in [at : {"none"}, taken : Nat, prefix : Nat, sent : Seq(Chars), final : Seq(Chars)]
  BY DEF Silent
<1>2. AnswerType BY <1>1 DEF ServerInit, AnswerType, AnswerRecord
<1>3. EndsAreFinal /\ AskedFor BY DEF ServerInit, EndsAreFinal, AskedFor, Silent
<1>4. PiecesMatch /\ StreamSound BY DEF ServerInit, PiecesMatch, StreamSound, Silent
<1> QED BY <1>2, <1>3, <1>4 DEF AnswersInv

(* What the engine may do to a request: it generates a token while the request is      *)
(* live, and leaves an end alone.                                                      *)
EngineMoves ==
  /\ UNCHANGED answer
  /\ tokens' \in [Callers -> Seq(Pieces)]
  /\ EndsAreFinal' /\ ended \subseteq ended' /\ ended' \subseteq Callers
  /\ \A r \in Callers :
       /\ \/ tokens'[r] = tokens[r]
          \/ status[r] = "live" /\ \E t \in Pieces : tokens'[r] = Append(tokens[r], t)
       /\ status[r] \notin {"new", "live"} => status'[r] = status[r]
       /\ status'[r] = "new" => status[r] = "new"

LEMMA EngineKeepsAnswers == ASSUME AnswersInv, EngineMoves PROVE AnswersInv'
<1>1. AnswerType' BY DEF AnswersInv, AnswerType, AnswerRecord, EngineMoves
<1>2. AskedFor' BY DEF AnswersInv, AskedFor, EngineMoves
<1>3. ASSUME NEW r \in Callers, answer[r].taken <= Len(tokens[r])
      PROVE  Decoded(r)' = Decoded(r) /\ Len(tokens[r]) <= Len(tokens'[r])
  <2>1. /\ tokens[r] \in Seq(Pieces) /\ answer[r].taken \in Nat
        /\ UNCHANGED answer
    BY DEF AnswersInv, AnswerType, AnswerRecord, EngineMoves
  <2>2. CASE tokens'[r] = tokens[r] BY <2>1, <2>2 DEF Decoded
  <2>3. CASE \E t \in Pieces : tokens'[r] = Append(tokens[r], t)
    <3>1. PICK t \in Pieces : tokens'[r] = Append(tokens[r], t) BY <2>3
    <3>2. SubSeq(tokens'[r], 1, answer[r].taken) = SubSeq(tokens[r], 1, answer[r].taken)
      BY <1>3, <2>1, <3>1
    <3>3. Len(tokens[r]) <= Len(tokens'[r]) BY <2>1, <3>1
    <3>4. answer'[r].taken = answer[r].taken BY <2>1
    <3>5. Decoded(r)' = Decoded(r) BY <3>2, <3>4 DEF Decoded
    <3> QED BY <3>3, <3>5
  <2> QED BY <2>2, <2>3 DEF EngineMoves
<1>4. ASSUME NEW r \in Callers, IsTerminal(r) PROVE tokens'[r] = tokens[r] /\ status'[r] = status[r]
  BY <1>4 DEF EngineMoves, IsTerminal
<1>5. PiecesMatch'
  <2> SUFFICES ASSUME NEW r \in Callers, answer[r].at \in {"stream", "done"}
               PROVE  /\ answer[r].taken <= Len(tokens'[r])
                      /\ answer[r].prefix = Len(Decoded(r)') /\ Len(answer[r].sent) = Len(Decoded(r)')
                      /\ \A k \in 1..Len(answer[r].sent) : answer[r].sent[k] = AsSent(Decoded(r)'[k])
                      /\ answer[r].at = "done" => answer[r].taken = Len(tokens'[r]) /\ r \in ended'
    BY DEF PiecesMatch, EngineMoves
  <2>1. /\ answer[r].taken <= Len(tokens[r])
        /\ answer[r].prefix = Len(Decoded(r)) /\ Len(answer[r].sent) = Len(Decoded(r))
        /\ \A k \in 1..Len(answer[r].sent) : answer[r].sent[k] = AsSent(Decoded(r)[k])
        /\ answer[r].at = "done" => answer[r].taken = Len(tokens[r]) /\ r \in ended
    BY DEF AnswersInv, PiecesMatch
  <2>2. Decoded(r)' = Decoded(r) /\ Len(tokens[r]) <= Len(tokens'[r]) BY <1>3, <2>1
  <2>3. /\ tokens[r] \in Seq(Pieces) /\ tokens'[r] \in Seq(Pieces) /\ answer[r].taken \in Nat
    BY DEF AnswersInv, AnswerType, AnswerRecord, EngineMoves
  <2>4. answer[r].at = "done" => tokens'[r] = tokens[r] /\ r \in ended'
    BY <1>4, <2>1 DEF AnswersInv, EndsAreFinal, EngineMoves
  <2>5. answer[r].taken <= Len(tokens'[r]) BY <2>1, <2>2, <2>3, LenProperties
  <2> QED BY <2>1, <2>2, <2>4, <2>5
<1>6. StreamSound'
  BY <1>4 DEF AnswersInv, StreamSound, EngineMoves, IsTerminal
<1> QED BY <1>1, <1>2, <1>5, <1>6 DEF AnswersInv, EngineMoves

\* A step that leaves requests, flights and ends alone is one the engine may take.
LEMMA StillMoves ==
  ASSUME AnswersInv, UNCHANGED <<answer, tokens, ended, status>>, flight' \subseteq flight
  PROVE  EngineMoves
BY DEF AnswersInv, AnswerType, EndsAreFinal, EngineMoves, IsTerminal

LEMMA LifeKeepsAnswers ==
  ASSUME AnswersInv, EngineType,
         \/ LoadServer \/ Initialized \/ AppCreated
         \/ Unload \/ LoopEnds \/ StopTimesOut \/ Closed \/ Over
  PROVE  AnswersInv'
<1>1. CASE LoadServer \/ Initialized \/ AppCreated \/ LoopEnds \/ StopTimesOut \/ Closed \/ Over
  <2>1. UNCHANGED <<answer, tokens, ended, status>> /\ flight' \subseteq flight
    BY <1>1 DEF LoadServer, Initialized, AppCreated, LoopEnds, StopTimesOut, Closed, Over,
                engineVars, serverVars
  <2> QED BY <2>1, StillMoves, EngineKeepsAnswers
<1>2. CASE Unload
  <2>1. /\ UNCHANGED <<answer, tokens, flight>>
        /\ status' = [r \in Callers |-> IF r \in {q \in Callers : status[q] = "live"} THEN "CANCELLED" ELSE status[r]]
        /\ ended' = ended \cup ({q \in Callers : status[q] = "live"} \ flight)
    BY <1>2 DEF Unload, Cancelled
  <2>2. EndsAreFinal'
    BY <2>1 DEF AnswersInv, AnswerType, EndsAreFinal, IsTerminal, EngineType
  <2> QED BY <2>1, <2>2, EngineKeepsAnswers DEF EngineMoves, AnswersInv, AnswerType, EngineType
<1> QED BY <1>1, <1>2

\* What a pass brings to the requests of it that are live.
LandWith(live, next, eos) ==
  /\ \A r \in eos : next[r] = << >>
  /\ tokens' = [r \in Callers |-> IF r \in live THEN tokens[r] \o next[r] ELSE tokens[r]]
  /\ LET complete == eos \cup {r \in live : Len(tokens'[r]) = MaxTokens}
     IN /\ status' = [r \in Callers |-> IF r \in complete THEN "COMPLETED" ELSE status[r]]
        /\ ended' = ended \cup (flight \ live) \cup complete

LEMMA FlightKeepsAnswers ==
  ASSUME AnswersInv, EngineType, Launch \/ Land \/ FlightFails \/ NoCapacity
  PROVE  AnswersInv'
<1> SUFFICES EngineMoves BY EngineKeepsAnswers
<1>1. CASE Launch
  <2>1. UNCHANGED <<answer, tokens, ended, status>> /\ \A r \in flight' : status[r] = "live"
    BY <1>1 DEF Launch
  <2> QED BY <2>1 DEF AnswersInv, AnswerType, EndsAreFinal, EngineMoves, IsTerminal
<1>2. CASE Land
  <2> DEFINE live == {r \in flight : status[r] = "live"}
  <2>1. PICK next \in [live -> {<< >>} \cup {<<t>> : t \in Pieces}], complete \in SUBSET live :
          /\ tokens' = [r \in Callers |-> IF r \in live THEN tokens[r] \o next[r] ELSE tokens[r]]
          /\ status' = [r \in Callers |-> IF r \in complete THEN "COMPLETED" ELSE status[r]]
          /\ ended' = ended \cup (flight \ live) \cup complete
    <3> HIDE DEF live
    <3>0. \E next \in [live -> {<< >>} \cup {<<t>> : t \in Pieces}], eos \in SUBSET live :
             LandWith(live, next, eos)
      <4>1. \E l \in {live} :
              \E next \in [l -> {<< >>} \cup {<<t>> : t \in Pieces}], eos \in SUBSET l :
                LandWith(l, next, eos)
        BY <1>2, Zenon DEF Land, LandWith, live
      <4> QED BY <4>1
    <3>1. PICK next \in [live -> {<< >>} \cup {<<t>> : t \in Pieces}], eos \in SUBSET live :
          /\ tokens' = [r \in Callers |-> IF r \in live THEN tokens[r] \o next[r] ELSE tokens[r]]
          /\ status' = [r \in Callers |-> IF r \in eos \cup {q \in live : Len(tokens'[q]) = MaxTokens}
                                          THEN "COMPLETED" ELSE status[r]]
          /\ ended' = ended \cup (flight \ live) \cup (eos \cup {q \in live : Len(tokens'[q]) = MaxTokens})
      BY <3>0 DEF LandWith
    <3>2. eos \cup {q \in live : Len(tokens'[q]) = MaxTokens} \in SUBSET live BY <3>1
    <3> QED BY <3>1, <3>2
  <2>2. UNCHANGED answer /\ flight' = {} BY <1>2 DEF Land
  <2>3. ASSUME NEW r \in Callers
        PROVE  /\ tokens'[r] \in Seq(Pieces)
               /\ tokens'[r] = tokens[r]
                  \/ (status[r] = "live" /\ \E t \in Pieces : tokens'[r] = Append(tokens[r], t))
    <3>1. tokens[r] \in Seq(Pieces) BY DEF AnswersInv, AnswerType, AnswerRecord
    <3>2. CASE r \notin live BY <2>1, <3>1, <3>2
    <3>3. CASE r \in live
      <4>1. tokens'[r] = tokens[r] \o next[r] /\ status[r] = "live" BY <2>1, <3>3
      <4>2. CASE next[r] = << >> BY <3>1, <4>1, <4>2
      <4>3. CASE next[r] # << >>
        <5>1. PICK t \in Pieces : next[r] = <<t>> BY <2>1, <3>3, <4>3
        <5>2. tokens'[r] = Append(tokens[r], t) BY <3>1, <4>1, <5>1
        <5> QED BY <3>1, <4>1, <5>2
      <4> QED BY <4>2, <4>3
    <3> QED BY <3>2, <3>3
  <2>4. tokens' \in [Callers -> Seq(Pieces)] BY <2>1, <2>3
  <2>5. EndsAreFinal' /\ ended \subseteq ended' /\ ended' \subseteq Callers
    BY <2>1, <2>2 DEF AnswersInv, AnswerType, EndsAreFinal, IsTerminal, EngineType
  <2>6. \A r \in Callers : /\ status[r] \notin {"new", "live"} => status'[r] = status[r]
                           /\ status'[r] = "new" => status[r] = "new"
    BY <2>1
  <2> QED BY <2>2, <2>3, <2>4, <2>5, <2>6 DEF EngineMoves
<1>3. CASE FlightFails
  <2>1. /\ UNCHANGED <<answer, tokens>> /\ flight' = {} /\ ended' = ended \cup flight
        /\ status' = [r \in Callers |->
                        IF r \in flight /\ status[r] = "live" THEN "FAILED" ELSE status[r]]
    BY <1>3 DEF FlightFails
  <2>2. EndsAreFinal' BY <2>1 DEF AnswersInv, AnswerType, EndsAreFinal, IsTerminal, EngineType
  <2> QED BY <2>1, <2>2 DEF EngineMoves, AnswersInv, AnswerType, EngineType
<1>4. CASE NoCapacity
  <2>1. UNCHANGED <<answer, tokens>> /\ flight' = {} BY <1>4 DEF NoCapacity
  <2>2. CASE UNCHANGED <<status, ended>> BY <2>1, <2>2, StillMoves
  <2>3. CASE \E live \in {{r \in flight : status[r] = "live"}} :
               /\ status' = [r \in Callers |-> IF r \in live THEN "FAILED" ELSE status[r]]
               /\ ended' = ended \cup live
    <3>1. EndsAreFinal' BY <2>1, <2>3 DEF AnswersInv, AnswerType, EndsAreFinal, IsTerminal, EngineType
    <3> QED BY <2>1, <2>3, <3>1 DEF EngineMoves, AnswersInv, AnswerType, EngineType
  <2> QED BY <1>4, <2>2, <2>3 DEF NoCapacity
<1> QED BY <1>1, <1>2, <1>3, <1>4

\* What the other requests of a handler's step keep, they keep by themselves.
OthersKeep(r) ==
  /\ tokens' = tokens /\ flight' = flight
  /\ \A q \in Callers \ {r} : /\ answer'[q] = answer[q]
                              /\ status'[q] = status[q]
                              /\ q \in ended' <=> q \in ended

(* What the invariant says of one request.                                             *)
AnswerOf(r) ==
  /\ r \in ended => status[r] \notin {"new", "live"}
  /\ r \in flight => status[r] # "new"
  /\ status[r] = "new" => answer[r] = Silent
  /\ answer[r].at = "wait" => r \notin Streaming
  /\ answer[r].at \in {"stream", "done"} =>
       /\ answer[r].taken <= Len(tokens[r])
       /\ answer[r].prefix = Len(Decoded(r)) /\ Len(answer[r].sent) = Len(Decoded(r))
       /\ \A k \in 1..Len(answer[r].sent) : answer[r].sent[k] = AsSent(Decoded(r)[k])
       /\ answer[r].at = "done" => answer[r].taken = Len(tokens[r]) /\ r \in ended
  /\ answer[r].at = "completed" =>
        /\ status[r] = "COMPLETED" /\ answer[r].final = Text(tokens[r])
        /\ r \in Streaming =>
             /\ Len(answer[r].sent) = Len(answer[r].final)
             /\ \A k \in 1..Len(answer[r].sent) :
                   answer[r].sent[k] = AsSent(answer[r].final[k])

LEMMA OneByOne ==
  ASSUME EngineType, AnswerType
  PROVE  AnswersInv <=> \A r \in Callers : AnswerOf(r)
BY DEF AnswersInv, AnswerOf, EndsAreFinal, AskedFor, PiecesMatch, StreamSound, IsTerminal,
       EngineType, AnswerType, AnswerRecord

LEMMA OthersKept ==
  ASSUME ServerInv, ServerInv', AnswersInv, AnswerType', NEW r \in Callers, OthersKeep(r), AnswerOf(r)'
  PROVE  AnswersInv'
<1>1. \A q \in Callers : AnswerOf(q) BY OneByOne DEF AnswersInv, ServerInv
<1>2. ASSUME NEW q \in Callers, q # r PROVE AnswerOf(q)'
  BY <1>1, <1>2 DEF OthersKeep, AnswerOf, Decoded
<1>3. \A q \in Callers : AnswerOf(q)' BY <1>2
<1>4. EngineType' BY DEF ServerInv
<1> QED
  BY <1>3, <1>4 DEF AnswersInv, AnswerOf, EndsAreFinal, AskedFor, PiecesMatch, StreamSound,
                    IsTerminal, EngineType, AnswerType, AnswerRecord

LEMMA SubmitKeepsAnswers ==
  ASSUME ServerInv, ServerInv', AnswersInv, NEW r \in Callers, SubmitRequest(r)
  PROVE  AnswersInv'
<1>1. AnswerOf(r) BY OneByOne DEF AnswersInv, ServerInv
<1>2. /\ UNCHANGED <<tokens, flight, ended>> /\ status[r] = "new"
      /\ status' = [status EXCEPT ![r] = "live"]
      /\ answer' = [answer EXCEPT ![r].at = IF r \in Streaming THEN "stream" ELSE "wait"]
  BY DEF SubmitRequest
<1>3. AnswerType' BY <1>2 DEF AnswersInv, AnswerType, AnswerRecord
<1>4. OthersKeep(r) BY <1>2 DEF OthersKeep, AnswersInv, AnswerType, ServerInv, EngineType
<1>5. /\ answer[r] = Silent /\ r \notin ended
      /\ status'[r] = "live"
      /\ answer'[r] = [Silent EXCEPT !.at = IF r \in Streaming THEN "stream" ELSE "wait"]
  BY <1>1, <1>2 DEF AnswerOf, AnswersInv, AnswerType, ServerInv, EngineType
<1>6. tokens[r] \in Seq(Pieces) BY DEF AnswersInv, AnswerType, AnswerRecord
<1>7. Decoded(r)' = << >>
  <2>1. SubSeq(tokens[r], 1, 0) = << >> BY <1>6
  <2> QED BY <1>2, <1>5, <2>1, TextEmpty DEF Decoded, Silent
<1>8. AnswerOf(r)' BY <1>2, <1>5, <1>6, <1>7 DEF AnswerOf, Silent
<1> QED BY <1>3, <1>4, <1>8, OthersKept

LEMMA EndKeepsAnswers ==
  ASSUME ServerInv, ServerInv', AnswersInv, NEW r \in Callers,
         TextDone(r) \/ Waited(r) \/ Disconnect(r)
  PROVE  AnswersInv'
<1>1. AnswerOf(r) /\ tokens[r] \in Seq(Pieces) /\ AnswerType /\ EngineType
  BY OneByOne DEF AnswersInv, AnswerType, AnswerRecord, ServerInv
<1>2. CASE TextDone(r)
  <2>1. /\ UNCHANGED <<tokens, flight, ended, status>>
        /\ answer[r].at = "stream" /\ answer[r].taken = Len(tokens[r]) /\ r \in ended
        /\ answer' = [answer EXCEPT ![r].at = "done"]
    BY <1>2 DEF TextDone, engineVars
  <2>2. AnswerType' BY <1>1, <2>1 DEF AnswerType, AnswerRecord
  <2>3. OthersKeep(r) BY <1>1, <2>1 DEF OthersKeep, AnswerType, AnswerRecord
  <2>4. answer'[r] = [answer[r] EXCEPT !.at = "done"] BY <1>1, <2>1 DEF AnswerType, AnswerRecord
  <2>5. /\ answer'[r].taken = answer[r].taken /\ answer'[r].sent = answer[r].sent
        /\ answer'[r].prefix = answer[r].prefix /\ answer'[r].at = "done"
    BY <1>1, <2>4 DEF AnswerType, AnswerRecord
  <2>6. Decoded(r)' = Decoded(r) BY <2>1, <2>5 DEF Decoded
  <2>7. AnswerOf(r)' BY <1>1, <2>1, <2>5, <2>6 DEF AnswerOf
  <2> QED BY <2>2, <2>3, <2>7, OthersKept
<1>3. CASE Waited(r)
  <2>1. /\ UNCHANGED <<tokens, flight, ended, status>>
        /\ answer[r].at \in {"wait", "done"} /\ r \in ended
        /\ answer' = [answer EXCEPT
              ![r].at = IF status[r] = "COMPLETED" THEN "completed" ELSE "broken",
              ![r].final = IF status[r] = "COMPLETED" THEN Text(tokens[r]) ELSE << >>]
    BY <1>3 DEF Waited, engineVars
  <2>2. Text(tokens[r]) \in Seq(Chars) BY <1>1, TextType
  <2>3. AnswerType'
    <3> DEFINE final == IF status[r] = "COMPLETED" THEN Text(tokens[r]) ELSE << >>
               end == IF status[r] = "COMPLETED" THEN "completed" ELSE "broken"
    <3>1. final \in Seq(Chars) BY <2>2
    <3>2. end \in {"completed", "broken"} OBVIOUS
    <3>3. answer' = [answer EXCEPT ![r].at = end, ![r].final = final] BY <2>1
    <3> HIDE DEF final, end
    <3>4. answer'[r] = [answer[r] EXCEPT !.at = end, !.final = final]
      BY <1>1, <3>3 DEF AnswerType, AnswerRecord
    <3>5. answer' = [answer EXCEPT ![r] = answer'[r]] BY <1>1, <3>3 DEF AnswerType, AnswerRecord
    <3>6. answer[r] \in AnswerRecord BY <1>1 DEF AnswerType
    <3>7. answer'[r] \in AnswerRecord BY <3>1, <3>2, <3>4, <3>6 DEF AnswerRecord
    <3> QED BY <1>1, <2>1, <3>5, <3>7 DEF AnswerType
  <2>4. OthersKeep(r) BY <1>1, <2>1 DEF OthersKeep, AnswerType, AnswerRecord
  <2>5. /\ answer'[r].sent = answer[r].sent
        /\ answer'[r].at = IF status[r] = "COMPLETED" THEN "completed" ELSE "broken"
        /\ status[r] = "COMPLETED" => answer'[r].final = Text(tokens[r])
    BY <1>1, <2>1 DEF AnswerType, AnswerRecord
  <2>6. r \in Streaming => answer[r].at = "done" BY <1>1, <2>1 DEF AnswerOf
  <2>7. answer[r].at = "done" => Decoded(r) = Text(tokens[r])
    <3> SUFFICES ASSUME answer[r].at = "done" PROVE Decoded(r) = Text(tokens[r]) OBVIOUS
    <3>1. answer[r].taken = Len(tokens[r]) BY <1>1 DEF AnswerOf
    <3>2. SubSeq(tokens[r], 1, Len(tokens[r])) = tokens[r] BY <1>1
    <3> QED BY <3>1, <3>2 DEF Decoded
  <2>8. /\ status[r] \notin {"new", "live"}
        /\ answer'[r].at \notin {"wait", "stream", "done"}
        /\ answer'[r].at = "completed" =>
              /\ status[r] = "COMPLETED" /\ answer'[r].final = Text(tokens[r])
              /\ r \in Streaming =>
                   /\ Len(answer'[r].sent) = Len(answer'[r].final)
                   /\ \A k \in 1..Len(answer'[r].sent) :
                         answer'[r].sent[k] = AsSent(answer'[r].final[k])
    <3>1. status[r] \notin {"new", "live"} BY <1>1, <2>1 DEF AnswerOf
    <3>2. ASSUME r \in Streaming
          PROVE  /\ Len(answer[r].sent) = Len(Text(tokens[r]))
                 /\ \A k \in 1..Len(answer[r].sent) : answer[r].sent[k] = AsSent(Text(tokens[r])[k])
      BY <1>1, <2>6, <2>7, <3>2 DEF AnswerOf
    <3> QED BY <2>5, <3>1, <3>2
  <2>9. AnswerOf(r)' BY <2>1, <2>8 DEF AnswerOf
  <2> QED BY <2>3, <2>4, <2>9, OthersKept
<1>4. CASE Disconnect(r)
  <2>1. /\ UNCHANGED <<tokens, flight>>
        /\ answer[r].at \in {"wait", "stream", "done"}
        /\ answer' = [answer EXCEPT ![r].at = "dropped"]
        /\ status' = [q \in Callers |-> IF q = r /\ status[q] = "live" THEN "CANCELLED" ELSE status[q]]
        /\ ended' = ended \cup ({q \in {r} : status[q] = "live"} \ flight)
    BY <1>4 DEF Disconnect, Cancelled
  <2>2. AnswerType' BY <1>1, <2>1 DEF AnswerType, AnswerRecord
  <2>3. OthersKeep(r) BY <1>1, <2>1 DEF OthersKeep, AnswerType, EngineType
  <2>4. answer'[r].at = "dropped" BY <1>1, <2>1 DEF AnswerType, AnswerRecord
  <2>5. status[r] # "new" BY <1>1, <2>1 DEF AnswerOf, Silent
  <2>6. /\ status'[r] # "new"
        /\ r \in ended' => status'[r] # "live"
    BY <1>1, <2>1, <2>5 DEF AnswerOf, EngineType
  <2>7. AnswerOf(r)'
    <3>1. (r \in flight)' => status'[r] # "new" BY <2>6
    <3>2. (r \in ended)' => status'[r] \notin {"new", "live"} BY <2>6
    <3> QED BY <2>4, <2>6, <3>1, <3>2 DEF AnswerOf
  <2> QED BY <2>2, <2>3, <2>7, OthersKept
<1> QED BY <1>2, <1>3, <1>4

(* One more token of a stream: the text of the tokens so far is that of the tokens     *)
(* before with one more character, or with a further piece of its last one.            *)
LEMMA DeltaKeepsAnswers ==
  ASSUME ServerInv, ServerInv', AnswersInv, NEW r \in Callers, Delta(r)
  PROVE  AnswersInv'
<1> DEFINE s == tokens[r]
           n == answer[r].taken
           before == Text(SubSeq(s, 1, n))
           text == Text(SubSeq(s, 1, n + 1))
           sent == answer[r].sent
<1>1. AnswerOf(r) /\ s \in Seq(Pieces) /\ AnswerType /\ n \in Nat /\ sent \in Seq(Chars)
  BY OneByOne DEF AnswersInv, AnswerType, AnswerRecord, ServerInv
<1>2. /\ UNCHANGED <<tokens, flight, ended, status>>
      /\ answer[r].at = "stream" /\ n < Len(s)
      /\ answer' = [answer EXCEPT ![r].taken = n + 1, ![r].prefix = Len(text),
                        ![r].sent = @ \o SubSeq(text, answer[r].prefix + 1, Len(text))]
  BY DEF Delta, engineVars
<1>3. /\ Len(sent) = Len(before) /\ answer[r].prefix = Len(before)
      /\ \A k \in 1..Len(sent) : sent[k] = AsSent(before[k])
  BY <1>1, <1>2 DEF AnswerOf, Decoded
<1>4. /\ SubSeq(s, 1, n) \in Seq(Pieces) /\ Len(SubSeq(s, 1, n)) = n
      /\ SubSeq(s, 1, n + 1) \in Seq(Pieces) /\ Len(SubSeq(s, 1, n + 1)) = n + 1
      /\ \A j \in 1..n : SubSeq(s, 1, n)[j] = SubSeq(s, 1, n + 1)[j]
  BY <1>1, <1>2
<1>5. text = NextText(SubSeq(s, 1, n + 1), n + 1, before) BY <1>1, <1>4, TextAppend
<1>6. before \in Seq(Chars) /\ text \in Seq(Chars) BY <1>4, TextType
<1>7. /\ answer'[r].at = "stream" /\ answer'[r].taken = n + 1 /\ answer'[r].prefix = Len(text)
      /\ answer'[r].sent = sent \o SubSeq(text, Len(before) + 1, Len(text))
  BY <1>1, <1>2, <1>3 DEF AnswerType, AnswerRecord
<1>8. /\ Len(answer'[r].sent) = Len(text)
      /\ \A k \in 1..Len(text) : answer'[r].sent[k] = AsSent(text[k])
  <2>1. CASE Joins(SubSeq(s, 1, n + 1), n + 1)
    <3>1. Unfinished(SubSeq(s, 1, n))
      <4> DEFINE u == SubSeq(s, 1, n + 1)
                 p == SubSeq(s, 1, n)
      <4>1. /\ p \in Seq(Pieces) /\ Len(p) = n /\ u \in Seq(Pieces) /\ Len(u) = n + 1
            /\ \A k \in 1..n : p[k] = u[k]
            /\ Joins(u, n + 1)
        BY <1>4, <2>1
      <4>2. n + 1 \in Nat \ {0} /\ (n + 1) - 1 = n BY <1>1
      <4> HIDE DEF u, p, n
      <4>3. Unfinished(p) BY <4>1, <4>2, JoinsUnfinished
      <4> QED BY <4>3 DEF p
    <3>2. before # << >> /\ before[Len(before)] = "?"
      <4>1. SubSeq(s, 1, n) # << >> BY <3>1, UnfinishedBegun
      <4> QED BY <1>4, <3>1, <4>1, TextType
    <3> DEFINE c == IF Completes(SubSeq(s, 1, n + 1), n + 1) THEN "whole" ELSE "?"
    <3>3. text = [before EXCEPT ![Len(before)] = c]
      <4>1. n + 1 # 0 BY <1>1
      <4> HIDE DEF text, before, s, n
      <4>2. text = [before EXCEPT ![Len(before)] =
                      IF Completes(SubSeq(s, 1, n + 1), n + 1) THEN "whole" ELSE @]
        BY <1>5, <2>1, <4>1 DEF NextText
      <4> QED BY <3>2, <4>2
    <3>c. c \in {"whole", "?"} OBVIOUS
    <3> HIDE DEF c
    <3> HIDE DEF before, text, sent, s, n
    <3>4. /\ Len(text) = Len(before) /\ Len(before) \in Nat
          /\ \A k \in 1..Len(before) : k # Len(before) => text[k] = before[k]
          /\ text[Len(before)] = c
      BY <1>6, <3>2, <3>3
    <3>5. SubSeq(text, Len(before) + 1, Len(text)) = << >> BY <1>6, <3>4
    <3>6. answer'[r].sent = sent BY <1>1, <1>7, <3>5, ConcatEmptySeq
    <3>7. AsSent(c) = "?" /\ AsSent("?") = "?" BY <3>c DEF AsSent
    <3>8. sent[Len(before)] = AsSent(text[Len(before)])
      <4>1. Len(before) \in 1..Len(sent) BY <1>3, <1>6, <3>2, <3>4
      <4> QED BY <1>3, <3>2, <3>4, <3>7, <4>1
    <3> QED BY <1>3, <3>4, <3>6, <3>8
  <2>2. CASE ~Joins(SubSeq(s, 1, n + 1), n + 1)
    <3> DEFINE c == IF SubSeq(s, 1, n + 1)[n + 1] = Letter THEN "a" ELSE "?"
    <3>1. text = Append(before, c)
      <4>1. n + 1 # 0 BY <1>1
      <4> HIDE DEF text, before, s, n
      <4> QED BY <1>5, <2>2, <4>1 DEF NextText
    <3>2. c \in Chars /\ AsSent(c) = c BY DEF Chars, AsSent
    <3> HIDE DEF before, text, sent, s, n, c
    <3>3. /\ Len(text) = Len(before) + 1 /\ Len(before) \in Nat /\ text[Len(before) + 1] = c
          /\ \A k \in 1..Len(before) : text[k] = before[k]
      BY <1>6, <3>1, <3>2, AppendProperties
    <3>4. /\ SubSeq(text, Len(before) + 1, Len(text)) \in Seq(Chars)
          /\ Len(SubSeq(text, Len(before) + 1, Len(text))) = 1
          /\ SubSeq(text, Len(before) + 1, Len(text))[1] = c
      BY <1>6, <3>3
    <3>5. /\ Len(answer'[r].sent) = Len(sent) + 1 /\ answer'[r].sent[Len(sent) + 1] = c
          /\ \A k \in 1..Len(sent) : answer'[r].sent[k] = sent[k]
      BY <1>1, <1>7, <3>2, <3>4, ConcatProperties
    <3> QED BY <1>3, <3>2, <3>3, <3>5
  <2> QED BY <2>1, <2>2
<1>9. Decoded(r)' = text BY <1>2, <1>7 DEF Decoded
<1>10. AnswerOf(r)' 
  <2>1. n + 1 <= Len(s) BY <1>1, <1>2, LenProperties
  <2>2. /\ r \in ended' => status'[r] \notin {"new", "live"}
        /\ r \in flight' => status'[r] # "new"
        /\ status'[r] # "new"
    BY <1>1, <1>2 DEF AnswerOf, Silent
  <2>3. tokens'[r] = s BY <1>2
  <2> HIDE DEF text, before, sent, s, n
  <2> QED BY <1>7, <1>8, <1>9, <2>1, <2>2, <2>3 DEF AnswerOf
<1>11. AnswerType'
  <2>1. SubSeq(text, Len(before) + 1, Len(text)) \in Seq(Chars) /\ Len(text) \in Nat
    <3> HIDE DEF text, before
    <3> QED BY <1>6
  <2>2. answer'[r].sent \in Seq(Chars) BY <1>1, <1>7, <2>1, ConcatProperties
  <2>3. n + 1 \in Nat BY <1>1
  <2>4. answer'[r] = [answer[r] EXCEPT !.taken = n + 1, !.prefix = Len(text), !.sent = answer'[r].sent]
    BY <1>1, <1>2 DEF AnswerType, AnswerRecord
  <2>5. answer' = [answer EXCEPT ![r] = answer'[r]] BY <1>1, <1>2 DEF AnswerType, AnswerRecord
  <2>6. ended' \subseteq Callers /\ tokens' \in [Callers -> Seq(Pieces)]
    BY <1>1, <1>2 DEF AnswerType, AnswerRecord
  <2> HIDE DEF text, before, sent, s, n
  <2>7. answer[r] \in AnswerRecord BY <1>1 DEF AnswerType
  <2>8. answer'[r] \in AnswerRecord BY <2>1, <2>2, <2>3, <2>4, <2>7 DEF AnswerRecord
  <2> QED BY <1>1, <2>5, <2>6, <2>8 DEF AnswerType
<1>12. OthersKeep(r) BY <1>1, <1>2 DEF OthersKeep, AnswerType, AnswerRecord
<1> QED BY <1>10, <1>11, <1>12, OthersKept
LEMMA AnswersKeep ==
  ASSUME ServerInv, AnswersInv, [ServerNext]_serverVars
  PROVE  AnswersInv'
<1>1. ServerInv' BY ServerKeeps
<1>2. EngineType BY DEF ServerInv
<1>3. CASE UNCHANGED serverVars
  <2>1. UNCHANGED <<answer, tokens, ended, status>> /\ flight' \subseteq flight
    BY <1>3 DEF serverVars
  <2> QED BY <2>1, StillMoves, EngineKeepsAnswers
<1> QED
  BY <1>1, <1>2, <1>3, LifeKeepsAnswers, FlightKeepsAnswers, SubmitKeepsAnswers, DeltaKeepsAnswers,
     EndKeepsAnswers
  DEF ServerNext

-------------------------------------------------------------------------------
(* Correctness Protocol V2 (experiments/protocol_v2.py).                               *)

\* Of the sets in T some set has no part in T with one element less.
LEMMA LeastSet ==
  ASSUME NEW S, IsFiniteSet(S), NEW T, T \subseteq SUBSET S, T # {}
  PROVE  \E s \in T : \A x \in s : s \ {x} \notin T
<1>1. T \subseteq FiniteSubsetsOf(S)
  BY FS_Subset DEF FiniteSubsetsOf
<1>2. PICK s \in T : \A u \in T : ~ (<<u, s>> \in StrictSubsetOrdering(S))
  BY <1>1, FS_StrictSubsetOrderingWellFounded, WFMin
<1>3. ASSUME NEW x \in s PROVE s \ {x} \notin T
  BY <1>2 DEF StrictSubsetOrdering
<1> QED BY <1>2, <1>3

\* A finite set of integers has a largest.
LEMMA LargestOf ==
  ASSUME NEW S, S \subseteq Int, IsFiniteSet(S), S # {}
  PROVE  Max(S) \in S /\ \A y \in S : y <= Max(S)
<1> DEFINE T == {s \in SUBSET S : s # {} /\ ~\E m \in s : \A y \in s : m >= y}
<1>1. T = {}
  <2> SUFFICES ASSUME T # {} PROVE FALSE OBVIOUS
  <2>1. PICK s \in T : \A x \in s : s \ {x} \notin T
    <3>1. T \subseteq SUBSET S OBVIOUS
    <3> HIDE DEF T
    <3> QED BY <3>1, LeastSet
  <2>2. PICK x \in s : TRUE OBVIOUS
  <2>3. s \ {x} # {} => \E m \in s \ {x} : \A y \in s \ {x} : m >= y BY <2>1, <2>2
  <2>4. s \ {x} = {} => \A y \in s : x >= y BY <2>2
  <2>5. ASSUME NEW m \in s \ {x}, \A y \in s \ {x} : m >= y PROVE \E n \in s : \A y \in s : n >= y
    <3>1. CASE m >= x BY <2>5, <3>1
    <3>2. CASE x >= m BY <2>2, <2>5, <3>2
    <3> QED BY <2>2, <3>1, <3>2
  <2> QED BY <2>2, <2>3, <2>4, <2>5
<1>2. \E m \in S : \A y \in S : m >= y BY <1>1
<1> QED BY <1>2 DEF Max

\* A set of numbers has a smallest.
LEMMA SmallestOf ==
  ASSUME NEW S, S \subseteq Nat, S # {}
  PROVE  Min(S) \in S /\ \A y \in S : Min(S) <= y
<1>1. PICK n \in S : \A m \in Nat : m < n => m \notin S BY LeastNumber
<1>2. \A y \in S : n <= y BY <1>1
<1> QED BY <1>1, <1>2 DEF Min

(* What has been compared: while no child has crashed, every request of the batches    *)
(* that have run; and in the file of a run without a crash, every request there is.    *)
ProtocolInv ==
  /\ split = "none" => pending = {}
  /\ pending \subseteq SplitBatches
  /\ \A x \in DOMAIN results : x \in AllRequests /\ results[x] \in Comparisons
  /\ split # "none" /\ ~crashed =>
        \A x : x \in DOMAIN results <=> \E b \in SplitBatches \ pending : x \in RequestsOf(b)
  /\ \A x \in DOMAIN judged.results : x \in AllRequests /\ judged.results[x] \in Comparisons
  /\ judged.split = "holdout" /\ ~judged.crashed => DOMAIN judged.results = AllRequests

LEMMA ProtocolStarts == ASSUME ProtocolInit PROVE ProtocolInv
BY DEF ProtocolInit, ProtocolInv, NoRun

LEMMA RunBatchKeeps == ASSUME ProtocolInv, RunBatch PROVE ProtocolInv'
<1> DEFINE batch == CHOOSE b \in pending : TRUE
<1>1. /\ batch \in pending /\ batch \in SplitBatches
      /\ pending' = pending \ {batch} /\ UNCHANGED <<split, judged>>
  BY DEF RunBatch, ProtocolInv
<1> HIDE DEF batch
<1>2. RequestsOf(batch) \subseteq AllRequests BY <1>1 DEF AllRequests
<1>3. CASE crashed' = TRUE /\ UNCHANGED results
  BY <1>1, <1>3 DEF ProtocolInv
<1>4. CASE /\ \E rs \in [RequestsOf(batch) -> Comparisons] :
                results' = [x \in DOMAIN results \cup DOMAIN rs |->
                              IF x \in DOMAIN rs THEN rs[x] ELSE results[x]]
           /\ UNCHANGED crashed
  <2>1. PICK rs \in [RequestsOf(batch) -> Comparisons] :
           results' = [x \in DOMAIN results \cup RequestsOf(batch) |->
                         IF x \in RequestsOf(batch) THEN rs[x] ELSE results[x]]
    BY <1>4
  <2>2. DOMAIN results' = DOMAIN results \cup RequestsOf(batch) BY <2>1
  <2>3. \A x \in DOMAIN results' : x \in AllRequests /\ results'[x] \in Comparisons
    BY <1>2, <2>1 DEF ProtocolInv
  <2>4. SplitBatches \ pending' = (SplitBatches \ pending) \cup {batch} BY <1>1
  <2>5. split' # "none" /\ ~crashed' =>
           \A x : x \in DOMAIN results' <=> \E b \in SplitBatches \ pending' : x \in RequestsOf(b)
    BY <1>1, <1>4, <2>2, <2>4 DEF ProtocolInv
  <2>6. split' = "none" => pending' = {} BY <1>1 DEF ProtocolInv
  <2>7. pending' \subseteq SplitBatches BY <1>1 DEF ProtocolInv
  <2> QED BY <1>1, <2>3, <2>5, <2>6, <2>7 DEF ProtocolInv
<1> QED BY <1>3, <1>4 DEF RunBatch, batch

LEMMA ProtocolKeeps == ASSUME ProtocolInv, [ProtocolNext]_protocolVars PROVE ProtocolInv'
<1>1. ASSUME NEW name \in {"calibration", "holdout"}, NEW e, Start(name, e) PROVE ProtocolInv'
  <2>1. /\ results' = << >> /\ pending' = SplitBatches /\ judged' = NoRun /\ split' = name
    BY <1>1 DEF Start
  <2>2. DOMAIN results' = {} /\ DOMAIN NoRun.results = {} /\ NoRun.split = "none"
    BY <2>1 DEF NoRun
  <2>3. SplitBatches \ pending' = {} BY <2>1
  <2> QED BY <2>1, <2>2, <2>3 DEF ProtocolInv
<1>2. CASE Finish
  <2>1. /\ split # "none" /\ pending = {} /\ UNCHANGED pending
        /\ judged' = [split |-> split, epsilon |-> epsilon, crashed |-> crashed,
                      results |-> IF crashed THEN << >> ELSE results]
        /\ split' = "none" /\ results' = << >>
    BY <1>2 DEF Finish
  <2>2. ~crashed => DOMAIN results = AllRequests
    BY <2>1 DEF ProtocolInv, AllRequests
  <2>3. judged'.results = IF crashed THEN << >> ELSE results BY <2>1
  <2>4. judged'.crashed = crashed BY <2>1
  <2> QED BY <2>1, <2>2, <2>3, <2>4 DEF ProtocolInv
<1>3. CASE Commit \/ AllRun \/ UNCHANGED protocolVars
  BY <1>3 DEF Commit, AllRun, protocolVars, ProtocolInv
<1> QED BY <1>1, <1>2, <1>3, RunBatchKeeps DEF ProtocolNext, Calibrate, Holdout

\* Two results of the same number of tokens, and the first position where they differ.
LEMMA SameLength ==
  ASSUME NEW pair, pair.custom.tokens \in Seq(Nat), pair.vllm.tokens \in Seq(Nat),
         Len(pair.custom.tokens) = Len(pair.vllm.tokens)
  PROVE  /\ Window(pair) = Len(pair.custom.tokens)
         /\ Differs(pair) # {} =>
              /\ FirstDifference(pair) \in Differs(pair)
              /\ \A j \in 1..(FirstDifference(pair) - 1) : pair.custom.tokens[j] = pair.vllm.tokens[j]
         /\ Differs(pair) = {} => pair.custom.tokens = pair.vllm.tokens
<1> DEFINE a == pair.custom.tokens
           b == pair.vllm.tokens
<1>1. a \in Seq(Nat) /\ b \in Seq(Nat) /\ Len(a) \in Nat OBVIOUS
<1>2. Window(pair) = Len(a)
  <2>1. {Len(a), Len(b)} = {Len(a)} OBVIOUS
  <2>2. Min({Len(a)}) = Len(a) BY <1>1 DEF Min
  <2> QED BY <2>1, <2>2 DEF Window
<1>3. Differs(pair) = {i \in 1..Len(a) : a[i] # b[i]} BY <1>2 DEF Differs
<1>4. ASSUME Differs(pair) # {}
      PROVE  /\ FirstDifference(pair) \in Differs(pair)
             /\ \A j \in 1..(FirstDifference(pair) - 1) : a[j] = b[j]
  <2>1. Differs(pair) \subseteq Nat BY <1>1, <1>3
  <2>2. /\ FirstDifference(pair) \in Differs(pair)
        /\ \A y \in Differs(pair) : FirstDifference(pair) <= y
    BY <1>4, <2>1, SmallestOf DEF FirstDifference
  <2>3. FirstDifference(pair) \in 1..Len(a) BY <1>3, <2>2
  <2> HIDE DEF a, b
  <2>4. ASSUME NEW j \in 1..(FirstDifference(pair) - 1) PROVE a[j] = b[j]
    <3>1. j \in 1..Len(a) /\ ~(FirstDifference(pair) <= j) BY <1>1, <2>3
    <3>2. j \notin Differs(pair) BY <2>2, <3>1
    <3> QED BY <1>3, <3>1, <3>2
  <2> QED BY <2>2, <2>4
<1>5. ASSUME Differs(pair) = {} PROVE a = b
  <2>1. \A i \in 1..Len(a) : a[i] = b[i] BY <1>3, <1>5
  <2>2. Len(a) = Len(b) OBVIOUS
  <2> HIDE DEF a, b
  <2> QED BY <1>1, <2>1, <2>2, SeqEqual
<1> QED BY <1>2, <1>4, <1>5

\* The two results of a comparison.
LEMMA Compared ==
  ASSUME NEW pair \in Comparisons
  PROVE  /\ pair.custom \in Result /\ pair.vllm \in Result
         /\ Len(pair.custom.tokens) = Len(pair.vllm.tokens)
         /\ Window(pair) = Len(pair.custom.tokens)
         /\ Differs(pair) # {} =>
              /\ FirstDifference(pair) \in Differs(pair)
              /\ \A j \in 1..(FirstDifference(pair) - 1) : pair.custom.tokens[j] = pair.vllm.tokens[j]
         /\ Differs(pair) = {} => pair.custom.tokens = pair.vllm.tokens
<1>1. /\ pair.custom \in Result /\ pair.vllm \in Result
      /\ Len(pair.custom.tokens) = Len(pair.vllm.tokens)
  BY ComparisonAssumption
<1>2. pair.custom.tokens \in Seq(Nat) /\ pair.vllm.tokens \in Seq(Nat) BY <1>1 DEF Result
<1> QED BY <1>1, <1>2, SameLength

\* A verdict that is neither bad nor put off.
LEMMA Settled ==
  ASSUME NEW pair, NEW e, NEW concurrency,
         Verdict(pair, e, concurrency) \notin {"hard_failure", "pending_epsilon"}
  PROVE  /\ Unsound(pair) = {}
         /\ Differs(pair) # {} =>
              /\ e # None
              /\ Unrelated(FirstDisagreement(pair), concurrency) = {}
              /\ \A k \in {1, 2} : Within(FirstDisagreement(pair).margins[k], e)
<1>1. Reasons(pair, e, concurrency) = {} BY DEF Verdict
<1>2. Unsound(pair) = {} BY <1>1 DEF Reasons
<1>3. Differs(pair) # {} => e # None BY <1>1 DEF Verdict
<1>4. ASSUME Differs(pair) # {}
      PROVE  /\ Unrelated(FirstDisagreement(pair), concurrency) = {}
             /\ Within(FirstDisagreement(pair).margins[1], e)
             /\ Within(FirstDisagreement(pair).margins[2], e)
  BY <1>1, <1>3, <1>4 DEF Reasons
<1> QED BY <1>2, <1>3, <1>4

(* What the gate lets pass is sound (CORRECTNESS_PROTOCOL_V2.md, requirements 1 and    *)
(* 10, and what the gate evaluates of 5).                                              *)
LEMMA PassedIsSound == ASSUME ProtocolInv PROVE GateSound
<1> SUFFICES ASSUME GatePasses
             PROVE  /\ DOMAIN judged.results = AllRequests
                    /\ \A x \in AllRequests :
                         LET pair == judged.results[x]
                         IN /\ Len(pair.custom.tokens) = Len(pair.vllm.tokens)
                            /\ \A k \in 1..Len(pair.custom.tokens) :
                                  pair.custom.best[k][1][1] = pair.custom.tokens[k]
                            /\ pair.custom.finite /\ pair.vllm.finite
                            /\ Load[x[1]].concurrency = 1 => pair.custom.tokens = pair.vllm.tokens
                            /\ pair.custom.tokens # pair.vllm.tokens =>
                                 \E i \in 1..Len(pair.custom.tokens) :
                                   /\ \A j \in 1..(i - 1) : pair.custom.tokens[j] = pair.vllm.tokens[j]
                                   /\ pair.custom.tokens[i] # pair.vllm.tokens[i]
                                   /\ pair.custom.tokens[i] \in Chosen(pair.vllm.best[i])
                                   /\ pair.vllm.tokens[i] \in Chosen(pair.custom.best[i])
                                   /\ \A list \in {pair.custom.best[i], pair.vllm.best[i]} :
                                         Margin(list) # None /\ Margin(list) <= judged.epsilon
  BY DEF GateSound
<1>1. DOMAIN judged.results = AllRequests BY DEF GatePasses, ProtocolInv
<1>2. ASSUME NEW x \in AllRequests, NEW pair, pair = judged.results[x]
      PROVE  /\ Len(pair.custom.tokens) = Len(pair.vllm.tokens)
             /\ \A k \in 1..Len(pair.custom.tokens) :
                   pair.custom.best[k][1][1] = pair.custom.tokens[k]
             /\ pair.custom.finite /\ pair.vllm.finite
             /\ Load[x[1]].concurrency = 1 => pair.custom.tokens = pair.vllm.tokens
             /\ pair.custom.tokens # pair.vllm.tokens =>
                  \E i \in 1..Len(pair.custom.tokens) :
                    /\ \A j \in 1..(i - 1) : pair.custom.tokens[j] = pair.vllm.tokens[j]
                    /\ pair.custom.tokens[i] # pair.vllm.tokens[i]
                    /\ pair.custom.tokens[i] \in Chosen(pair.vllm.best[i])
                    /\ pair.vllm.tokens[i] \in Chosen(pair.custom.best[i])
                    /\ \A list \in {pair.custom.best[i], pair.vllm.best[i]} :
                          Margin(list) # None /\ Margin(list) <= judged.epsilon
  <2> DEFINE n == Load[x[1]].concurrency
             i == FirstDifference(pair)
             d == FirstDisagreement(pair)
  <2>1. pair \in Comparisons BY <1>1, <1>2 DEF ProtocolInv
  <2>2. Verdict(pair, judged.epsilon, n) \notin {"hard_failure", "pending_epsilon"}
    BY <1>1, <1>2 DEF GatePasses, Having, VerdictOf
  <2>3. Unsound(pair) = {} BY <2>2, Settled
  <2>4. /\ SelfVerified(pair.custom) /\ pair.custom.finite /\ pair.vllm.finite
        /\ \A k \in 1..Len(pair.custom.tokens) :
              pair.custom.best[k][1][1] = pair.custom.tokens[k]
    <3>1. SelfVerified(pair.custom) /\ pair.custom.finite /\ pair.vllm.finite
      BY <2>3 DEF Unsound
    <3>2. DOMAIN pair.custom.tokens = 1..Len(pair.custom.tokens)
      BY <2>1, Compared DEF Result
    <3> QED BY <3>1, <3>2 DEF SelfVerified
  <2>5. ASSUME Differs(pair) # {}
        PROVE  /\ n # 1 /\ i \in 1..Len(pair.custom.tokens)
               /\ \A j \in 1..(i - 1) : pair.custom.tokens[j] = pair.vllm.tokens[j]
               /\ pair.custom.tokens[i] # pair.vllm.tokens[i]
               /\ pair.custom.tokens[i] \in Chosen(pair.vllm.best[i])
               /\ pair.vllm.tokens[i] \in Chosen(pair.custom.best[i])
               /\ \A list \in {pair.custom.best[i], pair.vllm.best[i]} :
                     Margin(list) # None /\ Margin(list) <= judged.epsilon
    <3>1. /\ Unrelated(d, n) = {}
          /\ Within(d.margins[1], judged.epsilon) /\ Within(d.margins[2], judged.epsilon)
      BY <2>2, <2>5, Settled
    <3>2. d = [margins |-> <<Margin(pair.custom.best[i]), Margin(pair.vllm.best[i])>>,
               overlap |-> Overlap(pair.custom.best[i], pair.vllm.best[i]),
               known |-> <<pair.custom.tokens[i] \in Chosen(pair.vllm.best[i]),
                           pair.vllm.tokens[i] \in Chosen(pair.custom.best[i])>>]
      BY DEF FirstDisagreement
    <3>3. d.known[1] /\ d.known[2] /\ n # 1 BY <3>1 DEF Unrelated
    <3>4. i \in Differs(pair) /\ \A j \in 1..(i - 1) : pair.custom.tokens[j] = pair.vllm.tokens[j]
      BY <2>1, <2>5, Compared
    <3>5. i \in 1..Len(pair.custom.tokens) /\ pair.custom.tokens[i] # pair.vllm.tokens[i]
      BY <2>1, <3>4, Compared DEF Differs
    <3> HIDE DEF i, d, n
    <3>6. /\ pair.custom.tokens[i] \in Chosen(pair.vllm.best[i])
          /\ pair.vllm.tokens[i] \in Chosen(pair.custom.best[i])
      BY <3>2, <3>3
    <3>7. /\ Within(Margin(pair.custom.best[i]), judged.epsilon)
          /\ Within(Margin(pair.vllm.best[i]), judged.epsilon)
      BY <3>1, <3>2
    <3> QED BY <3>3, <3>4, <3>5, <3>6, <3>7 DEF Within
  <2>6. pair.custom.tokens # pair.vllm.tokens => Differs(pair) # {} BY <2>1, Compared
  <2>7. Len(pair.custom.tokens) = Len(pair.vllm.tokens) BY <2>1, Compared
  <2> HIDE DEF i, d
  <2>8. n = 1 => pair.custom.tokens = pair.vllm.tokens BY <2>5, <2>6
  <2>9. pair.custom.tokens # pair.vllm.tokens =>
                  \E k \in 1..Len(pair.custom.tokens) :
                    /\ \A j \in 1..(k - 1) : pair.custom.tokens[j] = pair.vllm.tokens[j]
                    /\ pair.custom.tokens[k] # pair.vllm.tokens[k]
                    /\ pair.custom.tokens[k] \in Chosen(pair.vllm.best[k])
                    /\ pair.vllm.tokens[k] \in Chosen(pair.custom.best[k])
                    /\ \A list \in {pair.custom.best[k], pair.vllm.best[k]} :
                          Margin(list) # None /\ Margin(list) <= judged.epsilon
    BY <2>5, <2>6
  <2> QED BY <2>4, <2>7, <2>8, <2>9
<1> QED BY <1>1, <1>2

\* Its requests are finitely many.
LEMMA RequestsFinite == IsFiniteSet(AllRequests)
<1>1. IsFiniteSet(Cells) /\ Load \in [Cells -> [concurrency : Nat \ {0}, batches : Nat]]
  BY ProtocolAssumption
<1> DEFINE counts == {Load[c].batches : c \in Cells}
           Of(c) == {<<c, p[1], p[2]>> : p \in (1..Load[c].batches) \X (1..Load[c].concurrency)}
<1>2. ASSUME NEW c \in Cells PROVE IsFiniteSet(Of(c))
  <2> DEFINE S == (1..Load[c].batches) \X (1..Load[c].concurrency)
             f == [p \in S |-> <<c, p[1], p[2]>>]
  <2>1. Load[c].batches \in Int /\ Load[c].concurrency \in Int BY <1>1
  <2>2. IsFiniteSet(S)
    <3>1. IsFiniteSet(1..Load[c].batches) /\ IsFiniteSet(1..Load[c].concurrency)
      BY <2>1, FS_Interval
    <3> QED BY <3>1, FS_Product
  <2>3. f \in [S -> Of(c)] OBVIOUS
  <2>4. \A t \in Of(c) : \E p \in S : f[p] = t OBVIOUS
  <2> HIDE DEF S, f, Of
  <2> QED BY <2>2, <2>3, <2>4, Fun_IsSurj, FS_Surjection
<1>3. IsFiniteSet({Of(c) : c \in Cells})
  <2> HIDE DEF Of
  <2> DEFINE T == {Of(c) : c \in Cells}
             f == [c \in Cells |-> Of(c)]
  <2>1. f \in [Cells -> T] /\ \A t \in T : \E c \in Cells : f[c] = t OBVIOUS
  <2>2. IsFiniteSet(T)
    <3> HIDE DEF T, f
    <3>1. f \in Surjection(Cells, T) BY <2>1, Fun_IsSurj
    <3> QED BY <1>1, <3>1, FS_Surjection
  <2> QED BY <2>2
<1>4. IsFiniteSet(UNION {Of(c) : c \in Cells})
  <2> HIDE DEF Of
  <2> DEFINE T == {Of(c) : c \in Cells}
  <2>1. \A t \in T : IsFiniteSet(t) BY <1>2
  <2>2. IsFiniteSet(T) BY <1>3
  <2>3. IsFiniteSet(UNION T)
    <3> HIDE DEF T
    <3> QED BY <2>1, <2>2, FS_UNION
  <2> QED BY <2>3
<1>5. counts \subseteq Int BY <1>1
<1>6. ASSUME NEW x \in AllRequests PROVE \E c \in Cells : x \in Of(c)
  <2>1. PICK b \in SplitBatches : x \in RequestsOf(b) BY DEF AllRequests
  <2>2. /\ b[1] \in Cells /\ b[2] \in 1..Max(counts) /\ b[2] <= Load[b[1]].batches
    BY <2>1 DEF SplitBatches, Batches
  <2>3. Load[b[1]].batches \in counts BY <2>2
  <2>4. IsFiniteSet(counts)
    <3> DEFINE f == [c \in Cells |-> Load[c].batches]
    <3>1. f \in [Cells -> counts] /\ \A t \in counts : \E c \in Cells : f[c] = t OBVIOUS
    <3> HIDE DEF counts, f
    <3> QED BY <1>1, <3>1, Fun_IsSurj, FS_Surjection
  <2>5. Max(counts) \in Int BY <1>5, <2>3, <2>4, LargestOf
  <2>6. b[2] \in 1..Load[b[1]].batches BY <1>1, <2>2, <2>5
  <2>7. PICK i \in 1..Load[b[1]].concurrency : x = <<b[1], b[2], i>> BY <2>1 DEF RequestsOf
  <2>8. <<b[2], i>> \in (1..Load[b[1]].batches) \X (1..Load[b[1]].concurrency) BY <2>6
  <2> QED BY <2>2, <2>7, <2>8
<1>7. AllRequests \subseteq UNION {Of(c) : c \in Cells} BY <1>6
<1> QED BY <1>4, <1>7, FS_Subset

\* A pair is finite.
LEMMA PairFinite == ASSUME NEW m1, NEW m2 PROVE IsFiniteSet({m1, m2})
<1>1. IsFiniteSet({m1}) /\ IsFiniteSet({m2}) BY FS_Singleton
<1>2. {m1, m2} = {m1} \cup {m2} OBVIOUS
<1> QED BY <1>1, <1>2, FS_Union

(* The tolerance a calibration proposes lets all its candidates pass                   *)
(* (protocol_v2.py:296-304).                                                           *)
LEMMA ProposedQualifies == ASSUME ProtocolInv PROVE CandidatesQualify
<1> DEFINE rs == judged.results
           C == Candidates(rs)
           e == ProposedEpsilon(rs)
           both(x) == {FirstDisagreement(rs[x]).margins[k] : k \in {1, 2}}
           margins == UNION {both(x) : x \in C}
<1> SUFFICES ASSUME NEW x \in C
             PROVE  Verdict(rs[x], e, Load[x[1]].concurrency) = "near_tie_qualified"
  BY DEF CandidatesQualify, VerdictOf
<1>1. ASSUME NEW y \in C
      PROVE  both(y) \subseteq Int \ {None} /\ IsFiniteSet(both(y))
  <2> DEFINE d == FirstDisagreement(rs[y])
             i == FirstDifference(rs[y])
  <2>1. /\ rs[y] \in Comparisons /\ Differs(rs[y]) # {} /\ None \notin both(y)
        /\ Reasons(rs[y], None, Load[y[1]].concurrency) = {}
    BY DEF Candidates, ProtocolInv
  <2>2. Unsound(rs[y]) = {} BY <2>1 DEF Reasons
  <2>3. SelfVerified(rs[y].custom) BY <2>2 DEF Unsound
  <2>4. /\ rs[y].custom \in Result /\ rs[y].vllm \in Result
        /\ i \in 1..Len(rs[y].custom.tokens)
        /\ Len(rs[y].custom.tokens) = Len(rs[y].vllm.tokens)
    BY <2>1, Compared DEF Differs
  <2>5. /\ Len(rs[y].custom.best) >= Len(rs[y].custom.tokens)
        /\ Len(rs[y].vllm.best) >= Len(rs[y].vllm.tokens)
    BY <2>1, <2>3, ComparisonAssumption DEF SelfVerified
  <2>6. /\ rs[y].custom.best[i] \in Seq(Nat \X Int)
        /\ rs[y].vllm.best[i] \in Seq(Nat \X Int)
    <3>1. /\ rs[y].custom.best \in Seq(Seq(Nat \X Int)) /\ rs[y].vllm.best \in Seq(Seq(Nat \X Int))
          /\ rs[y].custom.tokens \in Seq(Nat)
      BY <2>4 DEF Result
    <3>2. /\ Len(rs[y].custom.best) \in Nat /\ Len(rs[y].vllm.best) \in Nat
          /\ Len(rs[y].custom.tokens) \in Nat
      BY <3>1, LenProperties
    <3>3. \A l, m \in Nat : \A k \in 1..l : m >= l => k \in 1..m OBVIOUS
    <3>4. i \in 1..Len(rs[y].custom.best)
      <4> HIDE DEF i, rs
      <4> QED BY <2>4, <2>5, <3>2, <3>3, Zenon
    <3>5. i \in 1..Len(rs[y].vllm.best)
      <4>1. Len(rs[y].vllm.best) >= Len(rs[y].custom.tokens) BY <2>4, <2>5
      <4> HIDE DEF i, rs
      <4> QED BY <2>4, <3>2, <3>3, <4>1, Zenon
    <3> QED BY <3>1, <3>4, <3>5, ElementOfSeq
  <2>7. \A list \in Seq(Nat \X Int) : Margin(list) \in Int
    BY DEF Margin, None
  <2>8. d.margins = <<Margin(rs[y].custom.best[i]), Margin(rs[y].vllm.best[i])>>
    BY DEF FirstDisagreement
  <2>9. both(y) = {Margin(rs[y].custom.best[i]), Margin(rs[y].vllm.best[i])} BY <2>8
  <2>10. both(y) \subseteq Int \ {None} BY <2>1, <2>6, <2>7, <2>9
  <2>11. IsFiniteSet(both(y))
    <3>3. \A m1, m2 : IsFiniteSet({m1, m2}) BY PairFinite
    <3> HIDE DEF both, rs, i
    <3> QED BY <2>9, <3>3, Zenon
  <2> QED BY <2>10, <2>11
<1>2. IsFiniteSet(C)
  <2>1. C \subseteq AllRequests BY DEF Candidates, ProtocolInv
  <2> QED BY <2>1, RequestsFinite, FS_Subset
<1>3. IsFiniteSet(margins)
  <2> DEFINE T == {both(y) : y \in C}
             f == [y \in C |-> both(y)]
  <2>1. f \in [C -> T] /\ \A t \in T : \E y \in C : f[y] = t OBVIOUS
  <2>2. \A t \in T : IsFiniteSet(t) BY <1>1
  <2>3. IsFiniteSet(T)
    <3> HIDE DEF T, f, C
    <3> QED BY <1>2, <2>1, Fun_IsSurj, FS_Surjection
  <2> HIDE DEF C, both
  <2> QED BY <2>2, <2>3, FS_UNION
<1>4. /\ margins \subseteq Int \ {None} /\ both(x) \subseteq margins
      /\ e = Max(margins)
  <2>1. C # {} /\ e = Max(margins) BY DEF ProposedEpsilon
  <2> HIDE DEF C, both
  <2>2. margins \subseteq Int \ {None} /\ both(x) \subseteq margins BY <1>1
  <2> QED BY <2>1, <2>2
<1>5. FirstDisagreement(rs[x]).margins[1] \in both(x) /\ FirstDisagreement(rs[x]).margins[2] \in both(x)
  OBVIOUS
<1> HIDE DEF margins, e, both, C
<1>6. e \in margins /\ \A m \in margins : m <= e BY <1>3, <1>4, <1>5, LargestOf
<1>7. /\ Within(FirstDisagreement(rs[x]).margins[1], e)
      /\ Within(FirstDisagreement(rs[x]).margins[2], e)
      /\ e # None
  BY <1>4, <1>5, <1>6 DEF Within
<1>8. Differs(rs[x]) # {} /\ Reasons(rs[x], None, Load[x[1]].concurrency) = {}
  BY DEF C, Candidates
<1>9. Reasons(rs[x], e, Load[x[1]].concurrency) = {} BY <1>7, <1>8 DEF Reasons
<1> QED BY <1>7, <1>8, <1>9 DEF Verdict

-------------------------------------------------------------------------------
(* The audit of the protocol (protocol_v2.py:84-176).                                  *)

(* What the children have returned, and what the report was made from.                 *)
AuditInv ==
  /\ \A x \in DOMAIN runs :
        /\ x \in Variants \X Engines
        /\ runs[x] = Crashed \/ runs[x] \in ResultsOf(x)
  /\ report.at = "analyzed" =>
        /\ DOMAIN runs = Variants \X Engines
        /\ \A x \in DOMAIN runs : runs[x] # Crashed
        /\ report = Analysis

LEMMA AuditStarts == ASSUME AuditInit PROVE AuditInv
BY DEF AuditInit, AuditInv, NoReport

\* The children run are those of every variant and engine.
LEMMA EveryVariant ==
  /\ DOMAIN AuditOrder = 1..6
  /\ \A k \in DOMAIN AuditOrder : AuditOrder[k] \in Variants \X Engines
  /\ \A x \in Variants \X Engines : \E k \in DOMAIN AuditOrder : AuditOrder[k] = x
<1>1. DOMAIN AuditOrder = 1..6 BY DEF AuditOrder
<1>2. /\ AuditOrder[1] = <<"alone", "custom">> /\ AuditOrder[2] = <<"alone", "vllm">>
      /\ AuditOrder[3] = <<"original", "custom">> /\ AuditOrder[4] = <<"original", "vllm">>
      /\ AuditOrder[5] = <<"reordered", "custom">> /\ AuditOrder[6] = <<"reordered", "vllm">>
  BY DEF AuditOrder
<1>3. \A x \in Variants \X Engines : \E k \in 1..6 : AuditOrder[k] = x
  <2> SUFFICES ASSUME NEW v \in Variants, NEW e \in Engines
               PROVE  \E k \in 1..6 : AuditOrder[k] = <<v, e>>
    OBVIOUS
  <2> 1 \in 1..6 /\ 2 \in 1..6 /\ 3 \in 1..6 /\ 4 \in 1..6 /\ 5 \in 1..6 /\ 6 \in 1..6 OBVIOUS
  <2> QED BY <1>2, Zenon DEF Variants, Engines
<1>4. \A k \in 1..6 : k \in {1, 2, 3, 4, 5, 6} OBVIOUS
<1>5. \A k \in 1..6 : AuditOrder[k] \in Variants \X Engines
  BY <1>2, <1>4 DEF Variants, Engines
<1> QED BY <1>1, <1>3, <1>5

LEMMA AuditKeeps == ASSUME AuditInv, [AuditNext]_auditVars PROVE AuditInv'
<1>1. CASE RunVariant
  <2>1. PICK k \in DOMAIN AuditOrder :
           /\ AuditOrder[k] \notin DOMAIN runs
           /\ \E result \in {Crashed} \cup ResultsOf(AuditOrder[k]) :
                 runs' = [y \in DOMAIN runs \cup {AuditOrder[k]} |->
                            IF y = AuditOrder[k] THEN result ELSE runs[y]]
    BY <1>1 DEF RunVariant
  <2>2. PICK result \in {Crashed} \cup ResultsOf(AuditOrder[k]) :
           runs' = [y \in DOMAIN runs \cup {AuditOrder[k]} |->
                      IF y = AuditOrder[k] THEN result ELSE runs[y]]
    BY <2>1
  <2>3. AuditOrder[k] \in Variants \X Engines BY EveryVariant
  <2>4. \A x \in DOMAIN runs' :
           /\ x \in Variants \X Engines
           /\ runs'[x] = Crashed \/ runs'[x] \in ResultsOf(x)
    <3> DEFINE y == AuditOrder[k]
    <3> HIDE DEF y
    <3> QED BY <2>2, <2>3 DEF AuditInv, y
  <2>5. report' = report BY <1>1 DEF RunVariant
  <2>6. report.at # "analyzed" BY <2>1, <2>3 DEF AuditInv
  <2> QED BY <2>4, <2>5, <2>6 DEF AuditInv
<1>2. CASE Analyze
  <2>1. runs' = runs /\ report' = Analysis BY <1>2 DEF Analyze
  <2>2. DOMAIN runs = Variants \X Engines
    <3>1. \A x \in Variants \X Engines : x \in DOMAIN runs BY <1>2, EveryVariant DEF Analyze
    <3> QED BY <3>1 DEF AuditInv
  <2>3. Analysis.at = "analyzed" => \A x \in DOMAIN runs : runs[x] # Crashed BY DEF Analysis
  <2>4. Analysis' = Analysis
    BY <2>1 DEF Analysis, TargetResult, Matching
  <2> QED BY <2>1, <2>2, <2>3, <2>4 DEF AuditInv
<1>3. CASE Audited \/ UNCHANGED auditVars
  <2>1. runs' = runs /\ report' = report BY <1>3 DEF Audited, auditVars
  <2>2. Analysis' = Analysis BY <2>1 DEF Analysis, TargetResult, Matching
  <2> QED BY <2>1, <2>2 DEF AuditInv
<1> QED BY <1>1, <1>2, <1>3 DEF AuditNext

\* The batch of a variant has the prompt that failed at its target index and nowhere else.
LEMMA TargetInBatch ==
  ASSUME NEW v \in Variants
  PROVE  /\ TargetIndex(v) \in DOMAIN BatchOf(v)
         /\ \A i \in DOMAIN BatchOf(v) : BatchOf(v)[i] = AuditTarget <=> i = TargetIndex(v)
<1> DEFINE original == [i \in 1..AuditSize |-> i]
<1>1. AuditSize \in Nat \ {0} /\ AuditTarget \in 1..AuditSize BY AuditAssumption
<1>2. CASE v = "alone" BY <1>2 DEF BatchOf, TargetIndex
<1>3. CASE v = "original" BY <1>1, <1>3 DEF BatchOf, TargetIndex
<1>4. CASE v = "reordered"
  <2>1. original \in Seq(Nat) /\ Len(original) = AuditSize BY <1>1
  <2> DEFINE rest == RemoveAt(original, AuditTarget)
  <2>2. /\ rest \in Seq(Nat) /\ Len(rest) = AuditSize - 1
        /\ \A i \in 1..(AuditSize - 1) : rest[i] = IF i < AuditTarget THEN i ELSE i + 1
    <3> DEFINE p == SubSeq(original, 1, AuditTarget - 1)
               q == SubSeq(original, AuditTarget + 1, AuditSize)
    <3>1. p \in Seq(Nat) /\ Len(p) = AuditTarget - 1 /\ \A i \in 1..(AuditTarget - 1) : p[i] = i
      BY <1>1, <2>1
    <3>2. /\ q \in Seq(Nat) /\ Len(q) = AuditSize - AuditTarget
          /\ \A i \in 1..(AuditSize - AuditTarget) : q[i] = AuditTarget + i
      BY <1>1, <2>1
    <3>3. rest = p \o q BY <2>1 DEF RemoveAt
    <3> HIDE DEF p, q, rest, original
    <3>4. rest \in Seq(Nat) /\ Len(rest) = AuditSize - 1
      <4>1. p \o q \in Seq(Nat) /\ Len(p \o q) = Len(p) + Len(q) BY <3>1, <3>2, ConcatProperties
      <4>2. (AuditTarget - 1) + (AuditSize - AuditTarget) = AuditSize - 1 BY <1>1
      <4> QED BY <3>1, <3>2, <3>3, <4>1, <4>2
    <3>5. ASSUME NEW i \in 1..(AuditSize - 1) PROVE rest[i] = IF i < AuditTarget THEN i ELSE i + 1
      <4>1. CASE i < AuditTarget BY <1>1, <3>1, <3>2, <3>3, <4>1
      <4>2. CASE ~(i < AuditTarget)
        <5>1. i - (AuditTarget - 1) \in 1..(AuditSize - AuditTarget) BY <1>1, <4>2
        <5>2. rest[i] = q[i - (AuditTarget - 1)] BY <1>1, <3>1, <3>2, <3>3, <4>2
        <5> QED BY <1>1, <3>2, <4>2, <5>1, <5>2
      <4> QED BY <4>1, <4>2
    <3> QED BY <3>4, <3>5
  <2>3. BatchOf(v) = <<AuditTarget>> \o rest BY <1>4 DEF BatchOf
  <2> HIDE DEF rest, original
  <2>4. /\ DOMAIN BatchOf(v) = 1..AuditSize /\ BatchOf(v)[1] = AuditTarget
        /\ \A i \in 2..AuditSize : BatchOf(v)[i] = rest[i - 1]
    BY <1>1, <2>2, <2>3
  <2>5. \A i \in 2..AuditSize : BatchOf(v)[i] # AuditTarget
    <3> TAKE i \in 2..AuditSize
    <3>1. i - 1 \in 1..(AuditSize - 1) BY <1>1
    <3>2. BatchOf(v)[i] = rest[i - 1] BY <2>4
    <3>3. rest[i - 1] = IF i - 1 < AuditTarget THEN i - 1 ELSE (i - 1) + 1 BY <2>2, <3>1
    <3> QED BY <1>1, <3>2, <3>3
  <2>6. TargetIndex(v) = 1 BY <1>4 DEF TargetIndex
  <2> QED BY <1>1, <2>4, <2>5, <2>6
<1> QED BY <1>2, <1>3, <1>4 DEF Variants

\* What a child has returned: to each prompt of its batch, one of its outputs.
LEMMA Returned ==
  ASSUME NEW v, NEW e, NEW rs \in ResultsOf(<<v, e>>)
  PROVE  /\ DOMAIN rs = DOMAIN BatchOf(v)
         /\ \A i \in DOMAIN rs :
               /\ rs[i].prompt = BatchOf(v)[i]
               /\ \E out \in TargetOutputs \cup OtherOutputs :
                     rs[i].tokens = out.tokens /\ rs[i].best = out.best
<1>1. PICK out \in Answers(BatchOf(v)) :
         rs = [i \in DOMAIN BatchOf(v) |-> ResultOf(BatchOf(v)[i], out[i])]
  BY DEF ResultsOf, Results
<1>2. \A i \in DOMAIN BatchOf(v) : out[i] \in TargetOutputs \cup OtherOutputs
  BY <1>1 DEF Answers
<1>3. \A p, o : /\ ResultOf(p, o).prompt = p /\ ResultOf(p, o).tokens = o.tokens
                /\ ResultOf(p, o).best = o.best
  BY DEF ResultOf
<1>4. DOMAIN rs = DOMAIN BatchOf(v) BY <1>1
<1>5. ASSUME NEW i \in DOMAIN rs
      PROVE  /\ rs[i].prompt = BatchOf(v)[i]
             /\ rs[i].tokens = out[i].tokens /\ rs[i].best = out[i].best
             /\ out[i] \in TargetOutputs \cup OtherOutputs
  <2>1. rs[i] = ResultOf(BatchOf(v)[i], out[i]) BY <1>1, <1>4
  <2> QED BY <1>2, <1>3, <1>4, <2>1
<1> QED BY <1>4, <1>5

\* Choices are out of the bound exactly if they are not all within it.
LEMMA FarOrNear ==
  ASSUME NEW l \in Seq(Nat \X Int), NEW m \in Seq(Nat \X Int)
  PROVE  HighDrift(l, m) <=>
           ~ \A x \in ToSet(l), y \in ToSet(m) : x[1] = y[1] => Apart(x[2], y[2]) <= DriftBound
<1>1. DriftBound \in Nat BY AuditAssumption
<1>2. ASSUME NEW i \in DOMAIN l, NEW j \in DOMAIN m
      PROVE  Apart(l[i][2], m[j][2]) > DriftBound <=> ~(Apart(l[i][2], m[j][2]) <= DriftBound)
  <2>1. l[i] \in Nat \X Int /\ m[j] \in Nat \X Int BY ElementOfSeq
  <2>2. l[i][2] \in Int /\ m[j][2] \in Int BY <2>1
  <2>3. \A x, y \in Int : Apart(x, y) \in Int BY DEF Apart
  <2>4. \A z \in Int : z > DriftBound <=> ~(z <= DriftBound) BY <1>1
  <2> QED BY <2>2, <2>3, <2>4
<1>3. ToSet(l) = {l[i] : i \in DOMAIN l} /\ ToSet(m) = {m[j] : j \in DOMAIN m} BY DEF ToSet
<1>4. (\A x \in ToSet(l), y \in ToSet(m) : x[1] = y[1] => Apart(x[2], y[2]) <= DriftBound) <=>
        \A i \in DOMAIN l, j \in DOMAIN m : l[i][1] = m[j][1] => Apart(l[i][2], m[j][2]) <= DriftBound
  BY <1>3
<1> QED BY <1>2, <1>4 DEF HighDrift

\* Two answers to the prompt that failed: one drifts from the other exactly if they are
\* not the same up to the bound.
LEMMA DriftIsUnsteady ==
  ASSUME NEW a, NEW b,
         a.tokens \in Seq(Nat), b.tokens \in Seq(Nat), Len(a.tokens) = Len(b.tokens),
         a.best \in Seq(Seq(Nat \X Int)), b.best \in Seq(Seq(Nat \X Int)),
         Len(a.best) >= Len(a.tokens), Len(b.best) >= Len(b.tokens)
  PROVE  Drift(a, b) <=>
           ~ (/\ a.tokens = b.tokens
              /\ \A k \in DOMAIN a.tokens : \A x \in ToSet(a.best[k]), y \in ToSet(b.best[k]) :
                    x[1] = y[1] => Apart(x[2], y[2]) <= DriftBound)
<1> DEFINE n == Len(a.tokens)
           near(k) == \A x \in ToSet(a.best[k]), y \in ToSet(b.best[k]) :
                         x[1] = y[1] => Apart(x[2], y[2]) <= DriftBound
<1>1. n \in Nat /\ DOMAIN a.tokens = 1..n /\ DriftBound \in Nat BY AuditAssumption
<1>2. Min({Len(a.tokens), Len(b.tokens)}) = n
  <2>1. {Len(a.tokens), Len(b.tokens)} = {n} OBVIOUS
  <2>2. Min({n}) = n BY <1>1 DEF Min
  <2> QED BY <2>1, <2>2
<1>3. ASSUME NEW k \in 1..n PROVE HighDrift(a.best[k], b.best[k]) <=> ~near(k)
  <2>1. \A l, m \in Nat : \A i \in 1..l : m >= l => i \in 1..m OBVIOUS
  <2>2. Len(a.best) \in Nat /\ Len(b.best) \in Nat BY LenProperties
  <2>3. Len(b.best) >= n OBVIOUS
  <2>4. k \in 1..Len(a.best) /\ k \in 1..Len(b.best)
    <3> HIDE DEF near
    <3>1. Len(a.best) >= n OBVIOUS
    <3> HIDE DEF n
    <3> QED BY <1>1, <2>1, <2>2, <2>3, <3>1, Zenon
  <2>5. a.best[k] \in Seq(Nat \X Int) /\ b.best[k] \in Seq(Nat \X Int) BY <2>4, ElementOfSeq
  <2> QED BY <2>5, FarOrNear
<1> HIDE DEF near
<1>4. Drift(a, b) <=>
        \E k \in 1..n : /\ \A j \in 1..(k - 1) : a.tokens[j] = b.tokens[j]
                        /\ a.tokens[k] # b.tokens[k] \/ ~near(k)
  BY <1>2, <1>3 DEF Drift
<1>5. CASE a.tokens = b.tokens
  <2>1. Drift(a, b) <=> \E k \in 1..n : ~near(k) BY <1>4, <1>5
  <2> QED BY <1>1, <1>5, <2>1 DEF near
<1>6. CASE a.tokens # b.tokens
  <2> DEFINE D == {i \in 1..n : a.tokens[i] # b.tokens[i]}
  <2>1. D # {} BY <1>6, SeqEqual
  <2>2. D \subseteq Nat BY <1>1
  <2>3. PICK k \in D : \A m \in Nat : m < k => m \notin D
    <3> HIDE DEF D
    <3> QED BY <2>1, <2>2, LeastNumber
  <2>4. k \in 1..n /\ a.tokens[k] # b.tokens[k] OBVIOUS
  <2>5. \A j \in 1..(k - 1) : j \in Nat /\ j < k /\ j \in 1..n BY <1>1, <2>4
  <2>6. \A j \in 1..(k - 1) : a.tokens[j] = b.tokens[j] BY <2>3, <2>5
  <2> HIDE DEF D
  <2>7. Drift(a, b) BY <1>4, <2>4, <2>6
  <2> QED BY <1>6, <2>7
<1> QED BY <1>5, <1>6

(* The report is about the request that failed, wherever it was in the batch.          *)
LEMMA AnalysisIsSound == ASSUME AuditInv PROVE AuditSound
<1> SUFFICES ASSUME report.at = "analyzed" PROVE AuditSound BY DEF AuditSound
<1> DEFINE given(v, e) == CHOOSE a \in ToSet(runs[<<v, e>>]) : a.prompt = AuditTarget
           steady(a, b) ==
             /\ a.tokens = b.tokens
             /\ \A k \in DOMAIN a.tokens : \A x \in ToSet(a.best[k]), y \in ToSet(b.best[k]) :
                   x[1] = y[1] => Apart(x[2], y[2]) <= DriftBound
<1>1. /\ DOMAIN runs = Variants \X Engines
      /\ report = Analysis /\ Analysis.at = "analyzed"
      /\ \A x \in DOMAIN runs : runs[x] \in ResultsOf(x)
  BY DEF AuditInv
<1>2. /\ report.suspected = {x \in DOMAIN runs : x[1] # "alone" /\ Matching(x[1], x[2]) # {}}
      /\ report.verdict = [v \in Variants |->
            Verdict([custom |-> TargetResult(v, "custom"), vllm |-> TargetResult(v, "vllm")],
                    AuditEpsilon, Len(BatchOf(v)))]
      /\ report.drifting = {e \in Engines : Drift(TargetResult("alone", e), TargetResult("original", e))}
  BY <1>1 DEF Analysis
<1>3. ASSUME NEW v \in Variants, NEW e \in Engines
      PROVE  /\ given(v, e) = TargetResult(v, e)
             /\ \E out \in TargetOutputs \cup OtherOutputs :
                   TargetResult(v, e).tokens = out.tokens /\ TargetResult(v, e).best = out.best
             /\ Matching(v, e) # {} <=>
                   \E a \in ToSet(runs[<<v, e>>]) :
                      a.prompt # AuditTarget /\ a.tokens = TargetResult(v, e).tokens
  <2> DEFINE rs == runs[<<v, e>>]
             t == TargetIndex(v)
  <2>1. rs \in ResultsOf(<<v, e>>) BY <1>1
  <2>2. t \in DOMAIN rs /\ \A i \in DOMAIN rs : rs[i].prompt = AuditTarget <=> i = t
    BY <2>1, Returned, TargetInBatch
  <2>3. TargetResult(v, e) = rs[t] BY DEF TargetResult
  <2>4. ToSet(rs) = {rs[i] : i \in DOMAIN rs} BY DEF ToSet
  <2>5. Matching(v, e) = {i \in DOMAIN rs : i # t /\ rs[i].tokens = rs[t].tokens}
    BY <2>3 DEF Matching
  <2>6. \E out \in TargetOutputs \cup OtherOutputs :
           rs[t].tokens = out.tokens /\ rs[t].best = out.best
    BY <2>1, <2>2, Returned
  <2>7. given(v, e) = CHOOSE a \in ToSet(rs) : a.prompt = AuditTarget OBVIOUS
  <2> HIDE DEF rs, t, given
  <2>8. given(v, e) = rs[t] BY <2>2, <2>4, <2>7
  <2>9. Matching(v, e) # {} <=> \E a \in ToSet(rs) : a.prompt # AuditTarget /\ a.tokens = rs[t].tokens
    BY <2>2, <2>4, <2>5
  <2> QED BY <2>3, <2>6, <2>8, <2>9 DEF rs
<1>4. \A v \in Variants, e \in Engines :
         /\ TargetResult(v, e).tokens \in Seq(Nat) /\ TargetResult(v, e).best \in Seq(Seq(Nat \X Int))
         /\ Len(TargetResult(v, e).best) >= Len(TargetResult(v, e).tokens)
         /\ \A w \in Variants, f \in Engines :
               Len(TargetResult(v, e).tokens) = Len(TargetResult(w, f).tokens)
  <2>1. ASSUME NEW v \in Variants, NEW e \in Engines
        PROVE  \E out \in TargetOutputs \cup OtherOutputs :
                   TargetResult(v, e).tokens = out.tokens /\ TargetResult(v, e).best = out.best
    BY <1>3
  <2>2. \A out \in TargetOutputs \cup OtherOutputs :
           /\ out.tokens \in Seq(Nat) /\ out.best \in Seq(Seq(Nat \X Int))
           /\ Len(out.best) >= Len(out.tokens)
           /\ \A other \in TargetOutputs \cup OtherOutputs : Len(out.tokens) = Len(other.tokens)
    BY OutputAssumption
  <2> HIDE DEF given, steady
  <2> TAKE v \in Variants, e \in Engines
  <2>3. PICK out \in TargetOutputs \cup OtherOutputs :
           TargetResult(v, e).tokens = out.tokens /\ TargetResult(v, e).best = out.best
    BY <2>1
  <2>4. ASSUME NEW w \in Variants, NEW f \in Engines
        PROVE  Len(TargetResult(v, e).tokens) = Len(TargetResult(w, f).tokens)
    <3>1. PICK other \in TargetOutputs \cup OtherOutputs : TargetResult(w, f).tokens = other.tokens
      BY <2>1
    <3> QED BY <2>2, <2>3, <3>1
  <2> QED BY <2>2, <2>3, <2>4
<1>5. "alone" \in Variants /\ "original" \in Variants /\ "reordered" \in Variants
      /\ "custom" \in Engines /\ "vllm" \in Engines
  BY DEF Variants, Engines
<1> HIDE DEF given, steady
<1>6. ASSUME NEW e \in Engines
      PROVE  e \in report.drifting <=> ~steady(given("alone", e), given("original", e))
  <2> DEFINE a == TargetResult("alone", e)
             b == TargetResult("original", e)
  <2>1. given("alone", e) = a /\ given("original", e) = b BY <1>3, <1>5
  <2>2. e \in report.drifting <=> Drift(a, b) BY <1>2
  <2>3. /\ a.tokens \in Seq(Nat) /\ b.tokens \in Seq(Nat) /\ Len(a.tokens) = Len(b.tokens)
        /\ a.best \in Seq(Seq(Nat \X Int)) /\ b.best \in Seq(Seq(Nat \X Int))
        /\ Len(a.best) >= Len(a.tokens) /\ Len(b.best) >= Len(b.tokens)
    BY <1>4, <1>5
  <2> HIDE DEF a, b
  <2>4. Drift(a, b) <=> ~steady(a, b) BY <2>3, DriftIsUnsteady DEF steady
  <2> QED BY <2>1, <2>2, <2>4
<1>7. ASSUME NEW v \in {"original", "reordered"}, NEW e \in Engines
      PROVE  <<v, e>> \in report.suspected <=>
               \E a \in ToSet(runs[<<v, e>>]) :
                  a.prompt # AuditTarget /\ a.tokens = given(v, e).tokens
  <2>1. v \in Variants /\ v # "alone" BY DEF Variants
  <2>2. <<v, e>> \in DOMAIN runs BY <1>1, <2>1
  <2>3. <<v, e>> \in report.suspected <=> Matching(v, e) # {}
    BY <1>2, <2>1, <2>2
  <2> QED BY <1>3, <2>1, <2>3
<1>8. ASSUME given("alone", "custom").tokens # given("alone", "vllm").tokens
      PROVE  report.verdict["alone"] = "hard_failure"
  <2> DEFINE pair == [custom |-> TargetResult("alone", "custom"), vllm |-> TargetResult("alone", "vllm")]
  <2>1. pair.custom.tokens # pair.vllm.tokens BY <1>3, <1>5, <1>8
  <2>2. /\ pair.custom.tokens \in Seq(Nat) /\ pair.vllm.tokens \in Seq(Nat)
        /\ Len(pair.custom.tokens) = Len(pair.vllm.tokens)
    BY <1>4, <1>5
  <2>3. report.verdict["alone"] = Verdict(pair, AuditEpsilon, Len(BatchOf("alone"))) BY <1>2, <1>5
  <2>4. Len(BatchOf("alone")) = 1 BY DEF BatchOf
  <2> HIDE DEF pair
  <2>5. Differs(pair) # {} BY <2>1, <2>2, SameLength
  <2>6. "at_concurrency_one" \in Unrelated(FirstDisagreement(pair), 1) BY DEF Unrelated
  <2>7. Reasons(pair, AuditEpsilon, 1) # {} BY <2>5, <2>6 DEF Reasons
  <2> QED BY <2>3, <2>4, <2>7 DEF Verdict
<1> QED BY <1>6, <1>7, <1>8 DEF AuditSound, given, steady

-------------------------------------------------------------------------------
(* All the functions together.                                                         *)

\* The steps of each function.
ServerSteps == [ServerNext]_serverVars
ChildSteps == [ChildNext]_childVars
PilotSteps == [PilotNext]_pilotVars
ProtocolSteps == [ProtocolNext]_protocolVars
AuditSteps == [AuditNext]_auditVars

\* A step of one function is a stutter of every other.
LEMMA EachAlone ==
  ASSUME [Next]_vars
  PROVE  ServerSteps /\ ChildSteps /\ PilotSteps /\ ProtocolSteps /\ AuditSteps
BY DEF Next, vars, ServerStep, ChildStep, PilotStep, ProtocolStep, AuditStep,
       ServerSteps, ChildSteps, PilotSteps, ProtocolSteps, AuditSteps

(* For any callers and any answers: when the server is closed, every caller has been   *)
(* given an end, but for the latecomers and those whose flight nobody came back from   *)
(* (engine.py:600-605, modal_app.py:1678-1682).                                        *)
THEOREM NobodyIsAbandoned == Spec => []NothingAbandoned
<1>1. Init => ServerInv BY ServerStarts DEF Init
<1>2. ServerInv /\ [Next]_vars => ServerInv' BY EachAlone, ServerKeeps DEF ServerSteps
<1>3. ServerInv => NothingAbandoned BY ServerAbandonsNobody
<1> QED BY <1>1, <1>2, <1>3, PTL DEF Spec

(* For any number of cells, requests and warm-up runs: a phase measured cold meets an  *)
(* engine that has not seen its prompts, one measured warm an engine that has seen     *)
(* them all (sentinel_pilot.py:903-960).                                               *)
THEOREM ColdPhasesAreCold == Spec => []ColdIsCold
<1>1. Init => ChildInv BY ChildStarts DEF Init
<1>2. ChildInv /\ [Next]_vars => ChildInv' BY EachAlone, ChildKeeps DEF ChildSteps
<1>3. ChildInv => ColdIsCold BY ColdStaysCold
<1> QED BY <1>1, <1>2, <1>3, PTL DEF Spec

\* The driver's invariant, for the two theorems below.
LEMMA PilotHolds == Spec => []PilotInv
<1>1. Init => PilotInv BY PilotStarts DEF Init
<1>2. PilotInv /\ [Next]_vars => PilotInv' BY EachAlone, PilotKeeps DEF PilotSteps
<1> QED BY <1>1, <1>2, PTL DEF Spec

(* For any number of pairs, devices, kills and new starts: what is claimed rests on    *)
(* pairs that ran whole, in order, on one device and to the same tokens                *)
(* (sentinel_report.py:140-150).                                                       *)
THEOREM ClaimsAreSound == Spec => []ClaimSound
<1>1. PilotInv => ClaimSound BY DiskIsSound
<1> QED BY <1>1, PilotHolds, PTL

(* However often the driver is killed and started again, and wherever a kill met it:   *)
(* of the pairs on disk at most one for each kill in the middle of an append has no    *)
(* workload there that can be read (modal_app.py:1886-1892).                           *)
THEOREM WorkloadsAreOnDisk == Spec => []WorkloadOnDisk
<1>1. PilotInv => WorkloadOnDisk BY DiskIsSound
<1> QED BY <1>1, PilotHolds, PTL

(* For any callers and lengths and any split of characters over up to MaxPieces        *)
(* tokens: an answer is called complete only when its request is, with its whole text, *)
(* and the pieces streamed before are the letters of that text, one by one and in      *)
(* order, but for those split over tokens, and each of these is a replacement          *)
(* character (api.py:854-865, against README.md:657-658).                              *)
THEOREM StreamsAreSound == Spec => []StreamSound
<1>1. Init => ServerInv /\ AnswersInv BY ServerStarts, AnswersStart DEF Init
<1>2. ServerInv /\ AnswersInv /\ [Next]_vars => (ServerInv /\ AnswersInv)'
  BY EachAlone, ServerKeeps, AnswersKeep DEF ServerSteps
<1>3. AnswersInv => StreamSound BY DEF AnswersInv
<1> QED BY <1>1, <1>2, <1>3, PTL DEF Spec

\* What the protocol has compared, for the two theorems below.
LEMMA ProtocolHolds == Spec => []ProtocolInv
<1>1. Init => ProtocolInv BY ProtocolStarts DEF Init
<1>2. ProtocolInv /\ [Next]_vars => ProtocolInv' BY EachAlone, ProtocolKeeps DEF ProtocolSteps
<1> QED BY <1>1, <1>2, PTL DEF Spec

(* For any load of any cells and any results: a comparison the gate lets pass is of    *)
(* every request there is, each custom result is its own best choice at every step,    *)
(* and each that differs is a near tie within the tolerance committed before           *)
(* (modal_app.py:2279-2282).  The rest of requirement 5, drift and corruption, no      *)
(* gate looks at (protocol_v2.py:230-250).                                             *)
THEOREM GateIsSound == Spec => []GateSound
<1>1. ProtocolInv => GateSound BY PassedIsSound
<1> QED BY <1>1, ProtocolHolds, PTL

(* For any load of any cells and any results: the tolerance a calibration proposes     *)
(* lets each of the differences it was proposed for pass (protocol_v2.py:296-304).     *)
THEOREM CandidatesDoQualify == Spec => []CandidatesQualify
<1>1. ProtocolInv => CandidatesQualify BY ProposedQualifies
<1> QED BY <1>1, ProtocolHolds, PTL

(* For any batch and any outputs of one number of tokens: the report of the audit is   *)
(* about the request that failed, wherever it was put in the batch                     *)
(* (protocol_v2.py:104-176).                                                           *)
THEOREM AuditIsSound == Spec => []AuditSound
<1>1. Init => AuditInv BY AuditStarts DEF Init
<1>2. AuditInv /\ [Next]_vars => AuditInv' BY EachAlone, AuditKeeps DEF AuditSteps
<1>3. AuditInv => AuditSound BY AnalysisIsSound
<1> QED BY <1>1, <1>2, <1>3, PTL DEF Spec
================================================================================
