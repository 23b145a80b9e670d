----------------------- MODULE RaggedScheduler_proofs -----------------------
(***************************************************************************)
(* Proofs about the packed scheduler loop, for every set of requests, every*)
(* prompt and output length, every queue, batch and chunk size, every      *)
(* runner and every preemption policy.                                     *)
(*                                                                         *)
(* The argument has two halves that hardly touch. Control: where each      *)
(* request is (queue, active list, plan) against its state; with it,       *)
(* Feeding: what a plan feeds against what its requests have been fed.     *)
(* Streams: what a stream holds against the tokens generated. From all     *)
(* three the refinement of RequestLifecycle follows.                       *)
(***************************************************************************)
EXTENDS RaggedScheduler, Scheduler_proofs, NaturalsInduction, WellFoundedInduction

-----------------------------------------------------------------------------
\* Plans as sets of requests.

ReqsOf(p) == {p[i].req : i \in DOMAIN p}

OncePer(p) == \A i, j \in DOMAIN p : p[i].req = p[j].req => i = j

(* The item of a request that is not in the plan yet.                      *)
LEMMA PlanAppend ==
  ASSUME NEW p \in Seq(Item), NEW item \in Item
  PROVE  /\ Append(p, item) \in Seq(Item)
         /\ ReqsOf(Append(p, item)) = ReqsOf(p) \cup {item.req}
         /\ OncePer(p) /\ item.req \notin ReqsOf(p) => OncePer(Append(p, item))
<1> DEFINE t == Append(p, item)
<1>1. /\ t \in Seq(Item) /\ Len(t) = Len(p) + 1
      /\ \A i \in 1 .. Len(p) : t[i] = p[i]
      /\ t[Len(p) + 1] = item
  BY AppendProperties
<1>2. DOMAIN p = 1 .. Len(p) /\ DOMAIN t = 1 .. Len(p) + 1 /\ Len(p) \in Nat
  BY <1>1, LenProperties
<1>3. \A i \in 1 .. Len(p) + 1 : i \in 1 .. Len(p) \/ i = Len(p) + 1
  BY <1>2
<1>4. 1 .. Len(p) \subseteq 1 .. Len(p) + 1 /\ Len(p) + 1 \in 1 .. Len(p) + 1
  BY <1>2
<1> HIDE DEF t
<1>5. ReqsOf(t) = ReqsOf(p) \cup {item.req}
  BY <1>1, <1>2, <1>3, <1>4 DEF ReqsOf
<1>6. ASSUME OncePer(p), item.req \notin ReqsOf(p) PROVE OncePer(t)
  BY <1>1, <1>2, <1>3, <1>6 DEF OncePer, ReqsOf
<1> QED BY <1>1, <1>5, <1>6 DEF t

(* The plan behind its first item.                                         *)
LEMMA PlanTail ==
  ASSUME NEW p \in Seq(Item), p # <<>>
  PROVE  /\ Tail(p) \in Seq(Item) /\ Head(p) \in Item
         /\ Head(p).req \in ReqsOf(p)
         /\ OncePer(p) => /\ ReqsOf(Tail(p)) = ReqsOf(p) \ {Head(p).req}
                          /\ OncePer(Tail(p))
<1> DEFINE t == Tail(p)
<1>1. /\ Head(p) \in Item /\ t \in Seq(Item) /\ Len(t) = Len(p) - 1
      /\ \A i \in 1 .. Len(t) : t[i] = p[i + 1]
  BY HeadTailProperties
<1>2. DOMAIN p = 1 .. Len(p) /\ DOMAIN t = 1 .. Len(t) /\ Len(p) \in Nat /\ Len(p) > 0
  BY <1>1, LenProperties, EmptySeq
<1>3. Head(p) = p[1] /\ 1 \in DOMAIN p
  BY <1>2
<1>4. \A i \in DOMAIN t : i + 1 \in DOMAIN p /\ i + 1 # 1 /\ t[i] = p[i + 1]
  BY <1>1, <1>2
<1>5. \A i \in DOMAIN p : i # 1 => i - 1 \in DOMAIN t /\ t[i - 1] = p[i]
  <2> SUFFICES ASSUME NEW i \in DOMAIN p, i # 1
               PROVE  i - 1 \in DOMAIN t /\ t[i - 1] = p[i]
    OBVIOUS
  <2>1. i - 1 \in 1 .. Len(t) /\ (i - 1) + 1 = i
    BY <1>1, <1>2
  <2> QED BY <1>1, <1>2, <2>1
<1>6. \A i, j \in DOMAIN t : i + 1 = j + 1 => i = j
  BY <1>1, <1>2
<1> HIDE DEF t
<1>7. ASSUME OncePer(p) PROVE ReqsOf(t) = ReqsOf(p) \ {Head(p).req}
  <2>1. ASSUME NEW r \in ReqsOf(t) PROVE r \in ReqsOf(p) \ {Head(p).req}
    BY <1>3, <1>4, <1>7, <2>1 DEF ReqsOf, OncePer
  <2>2. ASSUME NEW r \in ReqsOf(p) \ {Head(p).req} PROVE r \in ReqsOf(t)
    <3>1. PICK i \in DOMAIN p : r = p[i].req
      BY DEF ReqsOf
    <3>2. i # 1
      BY <1>3, <3>1
    <3> QED BY <1>5, <3>1, <3>2 DEF ReqsOf
  <2> QED BY <2>1, <2>2
<1>8. ASSUME OncePer(p) PROVE OncePer(t)
  BY <1>4, <1>6, <1>8 DEF OncePer
<1> QED BY <1>1, <1>3, <1>7, <1>8 DEF t, ReqsOf

-----------------------------------------------------------------------------
\* Control.

ControlType ==
  /\ pc \in {"reap", "admit", "plan", "flight", "settle", "sleep", "stopped"}
  /\ waiting \in Seq(Reqs) /\ active \in Seq(Reqs)
  /\ state \in [Reqs -> States]
  /\ fed \in [Reqs -> Nat] /\ gen \in [Reqs -> Nat]
  /\ preempted \subseteq Reqs /\ rejected \subseteq Reqs /\ resolved \subseteq Reqs
  /\ late \subseteq Reqs
  /\ plan \in Seq(Item) /\ budget \in Nat
  /\ outcome \in {"none", "pending", "ok", "capacity", "error"}
  /\ running \in BOOLEAN

\* Between iterations, and while requests are reaped and admitted, there is no plan.
PlanPlace == pc \in {"reap", "admit", "sleep", "stopped"} => plan = <<>>

Control == ControlType /\ Residence /\ InFlightPinned /\ PlanPlace

(* InFlightPinned in terms of sets.                                        *)
LEMMA PinnedSets ==
  ASSUME ControlType
  PROVE  /\ Planned = ReqsOf(plan)
         /\ InFlightPinned <=> ReqsOf(plan) \subseteq ToSet(active) /\ OncePer(plan)
  BY DEF Planned, ReqsOf, OncePer, InFlightPinned

(* A request in a terminal state that is finalized, ...                    *)
LEMMA Finalized ==
  ASSUME Control, NEW r \in Reqs, NEW events, Finalize(r, events),
         state' \in [Reqs -> States], state'[r] \in Terminal,
         \A q \in Reqs \ {r} : state'[q] = state[q]
  PROVE  /\ waiting' \in Seq(Reqs) /\ active' \in Seq(Reqs) /\ resolved' \subseteq Reqs
         /\ ToSet(active') = ToSet(active) \ {r}
         /\ Residence'
<1>1. Places BY DEF Control, ControlType, Places, PlacesType
<1>2. Places' /\ ToSet(active') = ToSet(active) \ {r} BY <1>1, FinalizeKeepsPlaces
<1> QED BY <1>2 DEF Places, PlacesType

(* ... or gets into one.                                                   *)
LEMMA Ended ==
  ASSUME Control, NEW r \in Reqs, NEW terminal \in Terminal, NEW events,
         End(r, terminal, events)
  PROVE  /\ waiting' \in Seq(Reqs) /\ active' \in Seq(Reqs) /\ resolved' \subseteq Reqs
         /\ state' \in [Reqs -> States]
         /\ ToSet(active') = ToSet(active) \ {r}
         /\ Residence'
<1>1. Places BY DEF Control, ControlType, Places, PlacesType
<1>2. Places' /\ ToSet(active') = ToSet(active) \ {r} BY <1>1, EndKeepsPlaces
<1> QED BY <1>2 DEF Places, PlacesType

(* A plan that keeps its items, while a request outside it leaves.         *)
LEMMA PlanKept ==
  ASSUME Control, ControlType', UNCHANGED plan, NEW r, r \notin Planned,
         ToSet(active') = ToSet(active) \ {r}
  PROVE  InFlightPinned'
  BY DEF Control, InFlightPinned, Planned

(* A plan that gives up its first item, whose request may leave.           *)
LEMMA PlanPopped ==
  ASSUME Control, plan # <<>>, plan' = Tail(plan),
         ToSet(active) \ {Head(plan).req} \subseteq ToSet(active')
  PROVE  plan' \in Seq(Item) /\ InFlightPinned'
<1>1. plan \in Seq(Item) /\ ReqsOf(plan) \subseteq ToSet(active) /\ OncePer(plan)
  BY DEF Control, ControlType, InFlightPinned, Planned, ReqsOf, OncePer
<1>2. /\ plan' \in Seq(Item)
      /\ ReqsOf(plan') = ReqsOf(plan) \ {Head(plan).req} /\ OncePer(plan')
  BY <1>1, PlanTail
<1>3. ReqsOf(plan') \subseteq ToSet(active')
  BY <1>1, <1>2
<1> QED BY <1>2, <1>3 DEF InFlightPinned, Planned, ReqsOf, OncePer

\* An empty plan pins no request (scheduler.py:521-525: _inflight_ids is empty).
LEMMA NoPlan == ASSUME plan = <<>> PROVE Planned = {}
  BY DEF Planned

(* Reaping, draining and refusing, between iterations.                     *)
LEMMA ReapControl ==
  ASSUME Control, ReapOverdue \/ ReapStalled \/ DrainActiveStreams
  PROVE  Control'
<1>1. ASSUME NEW r \in Reqs, NEW terminal \in Terminal, End(r, terminal, <<>>),
             pc = "reap",
             UNCHANGED <<pc, fed, gen, preempted, rejected, late, batch, running>>
      PROVE  Control'
  <2>1. /\ waiting' \in Seq(Reqs) /\ active' \in Seq(Reqs) /\ resolved' \subseteq Reqs
        /\ state' \in [Reqs -> States] /\ ToSet(active') = ToSet(active) \ {r} /\ Residence'
    BY <1>1, Ended
  <2>2. ControlType'
    BY <1>1, <2>1 DEF Control, ControlType, batch
  <2>3. plan = <<>> /\ plan' = plan
    BY <1>1 DEF Control, PlanPlace, batch
  <2>4. InFlightPinned'
    BY <2>1, <2>2, <2>3, NoPlan, PlanKept
  <2> QED BY <2>1, <2>2, <2>3, <2>4 DEF Control, PlanPlace
<1>2. CASE ReapOverdue
  <2>1. PICK r \in Overdue : End(r, "TIMED_OUT", <<>>)
    BY <1>2 DEF ReapOverdue, BaseReapOverdue
  <2>2. r \in Reqs
    BY LenProperties, ElementOfSeq DEF Overdue, ToSet, Control, ControlType
  <2> QED BY <1>1, <1>2, <2>1, <2>2 DEF ReapOverdue, BaseReapOverdue, batch, Terminal
<1>3. CASE ReapStalled
  <2>1. PICK r \in SlowConsumers : End(r, "CANCELLED", <<>>)
    BY <1>3 DEF ReapStalled, BaseReapStalled
  <2>2. r \in Reqs
    BY LenProperties, ElementOfSeq DEF SlowConsumers, ToSet, Control, ControlType
  <2> QED BY <1>1, <1>3, <2>1, <2>2 DEF ReapStalled, BaseReapStalled, batch, Terminal
<1>4. CASE DrainActiveStreams
  <2>1. /\ pc' = "admit" /\ pc = "reap"
        /\ UNCHANGED <<waiting, active, state, fed, gen, preempted, rejected, resolved,
                       late, plan, budget, outcome, running>>
    BY <1>4 DEF DrainActiveStreams, request, batch
  <2>2. ControlType'
    BY <2>1 DEF Control, ControlType
  <2>3. Residence' /\ InFlightPinned' /\ PlanPlace'
    BY <2>1 DEF Control, Residence, InFlightPinned, Planned, PlanPlace, is_terminal
  <2> QED BY <2>2, <2>3 DEF Control
<1> QED BY <1>2, <1>3, <1>4

(* The first of the waiting requests is one of them, and waits.            *)
LEMMA HeadWaits ==
  ASSUME Control, waiting # <<>>
  PROVE  /\ Head(waiting) \in Reqs /\ state[Head(waiting)] = "WAITING"
         /\ Head(waiting) \notin ToSet(active)
         /\ Tail(waiting) \in Seq(Reqs) /\ Distinct(Tail(waiting))
         /\ ToSet(Tail(waiting)) = ToSet(waiting) \ {Head(waiting)}
BY HeadOfQueue DEF Control, ControlType, Places, PlacesType

(* Admission.                                                              *)
LEMMA AdmitControl ==
  ASSUME Control, Admit \/ AdmissionRefused \/ EndAdmission
  PROVE  Control'
<1>1. CASE Admit
  <2> DEFINE r == Head(waiting)
  <2>1. /\ pc = "admit" /\ pc' = pc /\ waiting # <<>>
        /\ state' = [state EXCEPT ![r] = "PREFILL"]
        /\ active' = Append(active, r) /\ waiting' = Tail(waiting)
        /\ UNCHANGED <<gen, preempted, rejected, resolved, late, plan, budget, outcome, running>>
    BY <1>1 DEF Admit, MayAdmit, batch
  <2>2. PICK hit \in 0 .. PromptLen[r] - 1 : fed' = [fed EXCEPT ![r] = hit]
    BY <1>1 DEF Admit
  <2>3. /\ r \in Reqs /\ state[r] = "WAITING" /\ r \notin ToSet(active)
        /\ waiting' \in Seq(Reqs) /\ Distinct(waiting')
        /\ ToSet(waiting') = ToSet(waiting) \ {r}
    BY <2>1, HeadWaits
  <2> HIDE DEF r
  <2>4. /\ active' \in Seq(Reqs) /\ Distinct(active')
        /\ ToSet(active') = ToSet(active) \cup {r}
    BY <2>1, <2>3, AppendMembers DEF Control, ControlType, Residence
  <2>5. fed' \in [Reqs -> Nat]
    <3>1. hit \in Nat
      BY <2>2, <2>3, RequestAssumption
    <3> QED BY <2>2, <2>3, <3>1 DEF Control, ControlType
  <2>6. state' \in [Reqs -> States]
    BY <2>1 DEF Control, ControlType, States
  <2>7. ControlType'
    BY <2>1, <2>3, <2>4, <2>5, <2>6 DEF Control, ControlType
  <2>8. Residence'
    <3> SUFFICES ASSUME NEW q \in Reqs
                 PROVE  /\ q \in ToSet(waiting') <=> state'[q] = "WAITING"
                        /\ state'[q] \in {"PREFILL", "DECODING"} => q \in ToSet(active')
                        /\ q \in ToSet(active') =>
                             state'[q] # "new" /\ q \notin ToSet(waiting') \cup resolved'
                        /\ q \in resolved' => is_terminal(q)'
      BY <2>3, <2>4 DEF Residence
    <3>1. state \in [Reqs -> States]
      BY DEF Control, ControlType
    <3>2. CASE q = r
      <4>1. r \notin resolved
        BY <2>3 DEF Control, Residence, is_terminal, Terminal
      <4> QED BY <2>1, <2>3, <2>4, <3>1, <3>2, <4>1
    <3>3. CASE q # r
      BY <2>1, <2>3, <2>4, <3>1, <3>3 DEF Control, Residence, is_terminal
    <3> QED BY <3>2, <3>3
  <2>9. InFlightPinned' /\ PlanPlace'
    BY <2>1, <2>4 DEF Control, InFlightPinned, Planned, PlanPlace
  <2> QED BY <2>7, <2>8, <2>9 DEF Control
<1>2. CASE AdmissionRefused
  <2> DEFINE r == Head(waiting)
  <2>1. /\ pc = "admit" /\ waiting # <<>> /\ End(r, "FAILED", <<>>)
        /\ rejected' \in {rejected, rejected \cup {r}}
        /\ UNCHANGED <<pc, fed, gen, preempted, late, plan, budget, outcome, running>>
    BY <1>2 DEF AdmissionRefused, MayAdmit, batch
  <2>2. r \in Reqs
    BY <2>1, HeadWaits
  <2> HIDE DEF r
  <2>3. /\ waiting' \in Seq(Reqs) /\ active' \in Seq(Reqs) /\ resolved' \subseteq Reqs
        /\ state' \in [Reqs -> States] /\ ToSet(active') = ToSet(active) \ {r} /\ Residence'
    BY <2>1, <2>2, Ended DEF Terminal
  <2>4. ControlType'
    BY <2>1, <2>2, <2>3 DEF Control, ControlType
  <2>5. plan = <<>>
    BY <2>1 DEF Control, PlanPlace
  <2>6. InFlightPinned'
    BY <2>1, <2>3, <2>4, <2>5, NoPlan, PlanKept
  <2> QED BY <2>1, <2>3, <2>4, <2>5, <2>6 DEF Control, PlanPlace
<1>3. CASE EndAdmission
  <2>1. /\ pc' = "plan" /\ budget' = MaxBatchedTokens /\ plan' = <<>>
        /\ UNCHANGED <<waiting, active, state, fed, gen, preempted, rejected, resolved,
                       late, outcome, running>>
    BY <1>3 DEF EndAdmission, request
  <2>2. ControlType'
    BY <2>1, ConfigAssumption DEF Control, ControlType
  <2>3. Residence'
    BY <2>1 DEF Control, Residence, is_terminal
  <2>4. InFlightPinned' /\ PlanPlace'
    BY <2>1 DEF InFlightPinned, Planned, PlanPlace
  <2> QED BY <2>2, <2>3, <2>4 DEF Control
<1> QED BY <1>1, <1>2, <1>3

(* What a candidate takes from the budget: at least one token, and no more *)
(* than is left of the budget and of its own tokens.                       *)
LEMMA CutBounds ==
  ASSUME NEW m \in Nat \ {0}, NEW limit \in Nat \ {0}, NEW k \in Nat \ {0}
  PROVE  /\ Lesser(Lesser(m, limit), k) \in Nat \ {0}
         /\ Lesser(Lesser(m, limit), k) <= m
         /\ Lesser(Lesser(m, limit), k) <= k
  BY DEF Lesser

(* Building a plan and sending it off.                                     *)
LEMMA PlanControl ==
  ASSUME Control, PlanItem \/ EndPlan
  PROVE  Control'
<1>1. CASE PlanItem
  <2>1. PICK r \in Candidates :
          LET limit == IF r \in Decodes THEN 1 ELSE PrefillChunk
              n == Lesser(Lesser(Remaining(r), limit), budget)
          IN  /\ plan' = Append(plan, [req |-> r, start |-> fed[r], end |-> fed[r] + n,
                                       sample |-> fed[r] + n = Known(r)])
              /\ budget' = budget - n
    BY <1>1 DEF PlanItem
  <2> DEFINE n == Lesser(Lesser(Remaining(r), IF r \in Decodes THEN 1 ELSE PrefillChunk), budget)
             item == [req |-> r, start |-> fed[r], end |-> fed[r] + n,
                      sample |-> fed[r] + n = Known(r)]
  <2>2. /\ pc = "plan" /\ budget > 0
        /\ plan' = Append(plan, item) /\ budget' = budget - n
        /\ UNCHANGED <<pc, waiting, active, state, fed, gen, preempted, rejected, resolved,
                       late, outcome, running>>
    BY <1>1, <2>1 DEF PlanItem, request
  <2>3. r \in ToSet(active) /\ r \notin ReqsOf(plan) /\ Remaining(r) > 0
    BY DEF Candidates, Decodes, Eligible, Planned, ReqsOf
  <2>4. r \in Reqs
    BY <2>3, LenProperties, ElementOfSeq DEF ToSet, Control, ControlType
  <2>5. n \in Nat \ {0} /\ n <= budget
    <3>1. Remaining(r) \in Nat \ {0}
      BY <2>3, <2>4, RequestAssumption DEF Remaining, Known, Control, ControlType
    <3>2. (IF r \in Decodes THEN 1 ELSE PrefillChunk) \in Nat \ {0} /\ budget \in Nat \ {0}
      BY <2>2, ChunkAssumption DEF Control, ControlType
    <3> QED BY <3>1, <3>2, CutBounds
  <2> HIDE DEF n
  <2>6. item \in Item
    BY <2>4, <2>5 DEF Item, Control, ControlType
  <2>7. /\ plan' \in Seq(Item)
        /\ ReqsOf(plan') = ReqsOf(plan) \cup {r}
        /\ OncePer(plan) => OncePer(plan')
    BY <2>2, <2>3, <2>6, PlanAppend DEF Control, ControlType
  <2>8. budget' \in Nat
    BY <2>2, <2>5 DEF Control, ControlType
  <2>9. ControlType'
    BY <2>2, <2>7, <2>8 DEF Control, ControlType
  <2>10. Residence'
    BY <2>2 DEF Control, Residence, is_terminal
  <2>11. InFlightPinned'
    BY <2>2, <2>3, <2>7, <2>9, PinnedSets DEF Control, InFlightPinned, Planned, ReqsOf, OncePer
  <2> QED BY <2>2, <2>9, <2>10, <2>11 DEF Control, PlanPlace
<1>2. CASE EndPlan
  <2>1. /\ pc = "plan"
        /\ \/ plan = <<>> /\ pc' = "sleep" /\ outcome' = outcome
           \/ plan # <<>> /\ pc' = "flight" /\ outcome' = "pending"
        /\ UNCHANGED <<waiting, active, state, fed, gen, preempted, rejected, resolved,
                       late, plan, budget, running>>
    BY <1>2 DEF EndPlan, request
  <2>2. ControlType'
    BY <2>1 DEF Control, ControlType
  <2>3. Residence' /\ InFlightPinned' /\ PlanPlace'
    BY <2>1 DEF Control, Residence, is_terminal, InFlightPinned, Planned, PlanPlace
  <2> QED BY <2>2, <2>3 DEF Control
<1> QED BY <1>1, <1>2

(* The flight.                                                             *)
LEMMA FlightControl ==
  ASSUME Control, WorkerReturns \/ Land
  PROVE  Control'
<1>1. CASE WorkerReturns
  <2>1. /\ pc = "flight" /\ outcome' \in {"ok", "capacity", "error"}
        /\ UNCHANGED <<pc, waiting, active, state, gen, preempted, rejected, resolved,
                       late, plan, budget, running>>
    BY <1>1 DEF WorkerReturns
  <2>2. fed' \in [Reqs -> Nat]
    <3>1. CASE fed' = fed
      BY <3>1 DEF Control, ControlType
    <3>2. CASE fed' = [r \in Reqs |->
                 IF r \in Planned THEN plan[CHOOSE i \in DOMAIN plan : plan[i].req = r].end
                                  ELSE fed[r]]
      <4>1. ASSUME NEW r \in Reqs, r \in Planned
            PROVE  plan[CHOOSE i \in DOMAIN plan : plan[i].req = r].end \in Nat
        <5>1. (CHOOSE i \in DOMAIN plan : plan[i].req = r) \in DOMAIN plan
          BY <4>1 DEF Planned
        <5>2. \A i \in DOMAIN plan : plan[i] \in Item
          BY LenProperties, ElementOfSeq DEF Control, ControlType
        <5> QED BY <5>1, <5>2 DEF Item
      <4> QED BY <3>2, <4>1 DEF Control, ControlType
    <3> QED BY <1>1, <3>1, <3>2 DEF WorkerReturns
  <2>3. ControlType'
    BY <2>1, <2>2 DEF Control, ControlType
  <2>4. Residence' /\ InFlightPinned' /\ PlanPlace'
    BY <2>1 DEF Control, Residence, is_terminal, InFlightPinned, Planned, PlanPlace
  <2> QED BY <2>3, <2>4 DEF Control
<1>2. CASE Land
  <2>1. /\ pc = "flight" /\ pc' = "settle"
        /\ UNCHANGED <<waiting, active, state, fed, gen, preempted, rejected, resolved,
                       late, plan, budget, outcome, running>>
    BY <1>2 DEF Land, request, batch
  <2>2. ControlType'
    BY <2>1 DEF Control, ControlType
  <2>3. Residence' /\ InFlightPinned' /\ PlanPlace'
    BY <2>1 DEF Control, Residence, is_terminal, InFlightPinned, Planned, PlanPlace
  <2> QED BY <2>2, <2>3 DEF Control
<1> QED BY <1>1, <1>2

(* The item being settled is an active request's.                          *)
LEMMA HeadActive ==
  ASSUME Control, plan # <<>>
  PROVE  /\ Head(plan) \in Item /\ Head(plan).req \in Reqs
         /\ Head(plan).req \in ToSet(active)
         /\ Head(plan).req \notin ToSet(waiting) \cup resolved
         /\ state[Head(plan).req] # "new"
<1>1. plan \in Seq(Item) /\ ReqsOf(plan) \subseteq ToSet(active)
  BY PinnedSets DEF Control, ControlType
<1>2. Head(plan) \in Item /\ Head(plan).req \in ReqsOf(plan)
  BY <1>1, PlanTail
<1> QED BY <1>1, <1>2 DEF Item, Control, Residence

(* A settled item whose request is finalized.                              *)
LEMMA SettledAway ==
  ASSUME Control, pc = "settle", plan # <<>>, plan' = Tail(plan),
         UNCHANGED <<pc, fed, preempted, late, budget, outcome, running>>,
         gen' \in [Reqs -> Nat], rejected' \subseteq Reqs,
         waiting' \in Seq(Reqs), active' \in Seq(Reqs), resolved' \subseteq Reqs,
         state' \in [Reqs -> States], ToSet(active') = ToSet(active) \ {Head(plan).req},
         Residence'
  PROVE  Control'
<1>1. plan' \in Seq(Item) /\ InFlightPinned'
  BY PlanPopped
<1>2. ControlType'
  BY <1>1 DEF Control, ControlType
<1> QED BY <1>1, <1>2 DEF Control, PlanPlace

(* A settled item whose request goes on, in state s.                       *)
LEMMA SettledOn ==
  ASSUME Control, pc = "settle", plan # <<>>, plan' = Tail(plan), ~is_terminal(Head(plan).req),
         UNCHANGED <<pc, waiting, active, fed, preempted, rejected, resolved, late,
                     budget, outcome, running>>,
         gen' \in [Reqs -> Nat], NEW s \in {"PREFILL", "DECODING"},
         state' = [state EXCEPT ![Head(plan).req] = s]
  PROVE  Control'
<1> DEFINE r == Head(plan).req
<1>1. plan' \in Seq(Item) /\ InFlightPinned'
  BY PlanPopped
<1>2. r \in Reqs /\ r \in ToSet(active) /\ r \notin ToSet(waiting) \cup resolved
  BY HeadActive
<1>3. state \in [Reqs -> States] /\ state' \in [Reqs -> States]
  BY DEF Control, ControlType, States
<1>4. ControlType'
  BY <1>1, <1>3 DEF Control, ControlType
<1> HIDE DEF r
<1>5. state'[r] = s /\ \A q \in Reqs \ {r} : state'[q] = state[q]
  BY <1>2, <1>3 DEF r
<1>6. Residence'
  <2> SUFFICES ASSUME NEW q \in Reqs
               PROVE  /\ q \in ToSet(waiting) <=> state'[q] = "WAITING"
                      /\ state'[q] \in {"PREFILL", "DECODING"} => q \in ToSet(active)
                      /\ q \in ToSet(active) =>
                           state'[q] # "new" /\ q \notin ToSet(waiting) \cup resolved
                      /\ q \in resolved => is_terminal(q)'
    BY DEF Residence, Control
  <2>1. CASE q = r
    BY <1>2, <1>5, <2>1
  <2>2. CASE q # r
    BY <1>5, <2>2 DEF Control, Residence, is_terminal
  <2> QED BY <2>1, <2>2
<1> QED BY <1>1, <1>4, <1>6 DEF Control, PlanPlace

(* What the worker thread made of the plan, item by item.                  *)
LEMMA SettleControl ==
  ASSUME Control,
         \/ SettleCancelled \/ SettleToken \/ SettleOmitted \/ SettleChunk
         \/ SettleError \/ EndSettle
  PROVE  Control'
<1> DEFINE r == Head(plan).req
<1>0. gen \in [Reqs -> Nat] /\ rejected \subseteq Reqs /\ state \in [Reqs -> States]
  BY DEF Control, ControlType
<1>1. CASE SettleCancelled
  <2>1. /\ pc = "settle" /\ plan # <<>> /\ plan' = Tail(plan)
        /\ is_terminal(r) /\ Finalize(r, <<>>)
        /\ UNCHANGED <<pc, state, fed, gen, preempted, rejected, late, budget, outcome, running>>
    BY <1>1 DEF SettleCancelled, Settling, NextItem
  <2>2. r \in Reqs
    BY <2>1, HeadActive
  <2>3. state' \in [Reqs -> States] /\ state'[r] \in Terminal
    BY <1>0, <2>1 DEF is_terminal
  <2>4. /\ waiting' \in Seq(Reqs) /\ active' \in Seq(Reqs) /\ resolved' \subseteq Reqs
        /\ ToSet(active') = ToSet(active) \ {r} /\ Residence'
    BY <2>1, <2>2, <2>3, Finalized
  <2> QED BY <1>0, <2>1, <2>3, <2>4, SettledAway
<1>2. ASSUME NEW terminal \in Terminal, NEW events, End(r, terminal, events),
             pc = "settle", plan # <<>>, plan' = Tail(plan),
             UNCHANGED <<pc, fed, preempted, late, budget, outcome, running>>,
             gen' \in [Reqs -> Nat], rejected' \subseteq Reqs
      PROVE  Control'
  <2>1. r \in Reqs
    BY <1>2, HeadActive
  <2>2. /\ waiting' \in Seq(Reqs) /\ active' \in Seq(Reqs) /\ resolved' \subseteq Reqs
        /\ state' \in [Reqs -> States] /\ ToSet(active') = ToSet(active) \ {r} /\ Residence'
    BY <1>2, <2>1, Ended
  <2> QED BY <1>2, <2>2, SettledAway
<1>3. CASE SettleToken
  <2>1. /\ pc = "settle" /\ plan # <<>> /\ plan' = Tail(plan) /\ ~is_terminal(r)
        /\ gen' = [gen EXCEPT ![r] = gen[r] + 1]
        /\ UNCHANGED <<pc, fed, preempted, rejected, late, budget, outcome, running>>
    BY <1>3 DEF SettleToken, Settling, NextItem
  <2>2. gen' \in [Reqs -> Nat]
    <3>1. r \in Reqs
      BY <2>1, HeadActive
    <3> QED BY <1>0, <2>1, <3>1
  <2>3. CASE End(r, "COMPLETED", <<gen[r] + 1>>)
    BY <1>0, <1>2, <2>1, <2>2, <2>3 DEF Terminal
  <2>4. CASE /\ state' = [state EXCEPT ![r] = "DECODING"]
             /\ UNCHANGED <<waiting, active, resolved>>
    BY <2>1, <2>2, <2>4, SettledOn
  <2> QED BY <1>3, <2>3, <2>4 DEF SettleToken
<1>4. CASE SettleOmitted \/ SettleError
  <2>1. /\ pc = "settle" /\ plan # <<>> /\ plan' = Tail(plan) /\ End(r, "FAILED", <<>>)
        /\ UNCHANGED <<pc, fed, gen, preempted, rejected, late, budget, outcome, running>>
    BY <1>4 DEF SettleOmitted, SettleError, Settling, NextItem
  <2> QED BY <1>0, <1>2, <2>1 DEF Terminal
<1>5. CASE SettleChunk
  <2>1. /\ pc = "settle" /\ plan # <<>> /\ plan' = Tail(plan) /\ ~is_terminal(r)
        /\ state' = [state EXCEPT ![r] = "PREFILL"]
        /\ UNCHANGED <<pc, waiting, active, fed, gen, preempted, rejected, resolved, late,
                       budget, outcome, running>>
    BY <1>5 DEF SettleChunk, Settling, NextItem
  <2> QED BY <1>0, <2>1, SettledOn
<1>6. CASE EndSettle
  <2>1. /\ plan = <<>> /\ pc' = "sleep" /\ outcome' = "none"
        /\ UNCHANGED <<waiting, active, state, fed, gen, preempted, rejected, resolved,
                       late, plan, budget, running>>
    BY <1>6 DEF EndSettle, request
  <2>2. ControlType'
    BY <2>1 DEF Control, ControlType
  <2>3. Residence' /\ InFlightPinned' /\ PlanPlace'
    BY <2>1 DEF Control, Residence, is_terminal, InFlightPinned, Planned, PlanPlace
  <2> QED BY <2>2, <2>3 DEF Control
<1> QED BY <1>1, <1>3, <1>4, <1>5, <1>6

(* Capacity pressure: a victim goes back to the queue, or none is found.   *)
LEMMA CapacityControl ==
  ASSUME Control, Preempt \/ RefuseForCapacity
  PROVE  Control'
<1>0. ASSUME plan' = <<>> PROVE InFlightPinned'
  BY <1>0 DEF InFlightPinned, Planned
<1>1. CASE Preempt
  <2>1. PICK v \in Runnable :
          /\ active' = Without(active, v) /\ waiting' = Append(waiting, v)
          /\ fed' = [fed EXCEPT ![v] = 0] /\ preempted' = preempted \cup {v}
          /\ state' = [state EXCEPT ![v] = "WAITING"]
    BY <1>1 DEF Preempt
  <2>2. /\ pc' = "sleep" /\ plan' = <<>> /\ outcome' = "none"
        /\ UNCHANGED <<budget, gen, rejected, resolved, late, running>>
    BY <1>1 DEF Preempt, DropPlan
  <2>3. v \in ToSet(active) /\ ~is_terminal(v) /\ v \in Reqs
    BY LenProperties, ElementOfSeq DEF Runnable, ToSet, Control, ControlType
  <2>4. v \notin ToSet(waiting) \cup resolved
    BY <2>3 DEF Control, Residence
  <2>5. /\ active' \in Seq(Reqs) /\ Distinct(active') /\ ToSet(active') = ToSet(active) \ {v}
    BY <2>1, WithoutMembers DEF Control, ControlType, Residence
  <2>6. /\ waiting' \in Seq(Reqs) /\ Distinct(waiting')
        /\ ToSet(waiting') = ToSet(waiting) \cup {v}
    BY <2>1, <2>3, <2>4, AppendMembers DEF Control, ControlType, Residence
  <2>7. /\ state' \in [Reqs -> States] /\ state'[v] = "WAITING"
        /\ \A q \in Reqs \ {v} : state'[q] = state[q]
    BY <2>1, <2>3 DEF Control, ControlType, States
  <2>8. ControlType'
    BY <2>1, <2>2, <2>3, <2>5, <2>6, <2>7 DEF Control, ControlType
  <2>9. Residence'
    <3> SUFFICES ASSUME NEW q \in Reqs
                 PROVE  /\ q \in ToSet(waiting') <=> state'[q] = "WAITING"
                        /\ state'[q] \in {"PREFILL", "DECODING"} => q \in ToSet(active')
                        /\ q \in ToSet(active') =>
                             state'[q] # "new" /\ q \notin ToSet(waiting') \cup resolved'
                        /\ q \in resolved' => is_terminal(q)'
      BY <2>5, <2>6 DEF Residence
    <3>1. CASE q = v
      BY <2>2, <2>4, <2>5, <2>6, <2>7, <3>1
    <3>2. CASE q # v
      BY <2>2, <2>5, <2>6, <2>7, <3>2 DEF Control, Residence, is_terminal
    <3> QED BY <3>1, <3>2
  <2> QED BY <1>0, <2>2, <2>8, <2>9 DEF Control, PlanPlace
<1>2. CASE RefuseForCapacity
  <2>1. /\ pc' = "sleep" /\ plan' = <<>> /\ outcome' = "none"
        /\ UNCHANGED <<budget, fed, gen, preempted, late, running>>
    BY <1>2 DEF RefuseForCapacity, DropPlan
  <2>2. CASE \E r \in Runnable \cap Planned :
               End(r, "FAILED", <<>>) /\ rejected' = rejected \cup {r}
    <3>1. PICK r \in Runnable : End(r, "FAILED", <<>>) /\ rejected' = rejected \cup {r}
      BY <2>2
    <3>2. r \in Reqs
      BY LenProperties, ElementOfSeq DEF Runnable, ToSet, Control, ControlType
    <3>3. /\ waiting' \in Seq(Reqs) /\ active' \in Seq(Reqs) /\ resolved' \subseteq Reqs
          /\ state' \in [Reqs -> States] /\ Residence'
      BY <3>1, <3>2, Ended DEF Terminal
    <3>4. ControlType'
      BY <2>1, <3>1, <3>2, <3>3 DEF Control, ControlType
    <3> QED BY <1>0, <2>1, <3>3, <3>4 DEF Control, PlanPlace
  <2>3. CASE UNCHANGED <<waiting, active, state, rejected, resolved>>
    <3>1. ControlType'
      BY <2>1, <2>3 DEF Control, ControlType
    <3>2. Residence'
      BY <2>3 DEF Control, Residence, is_terminal
    <3> QED BY <1>0, <2>1, <3>1, <3>2 DEF Control, PlanPlace
  <2> QED BY <1>2, <2>2, <2>3 DEF RefuseForCapacity
<1> QED BY <1>1, <1>2

(* The other tasks of the event loop, and time.                            *)
LEMMA EnvironmentControl ==
  ASSUME Control, NEW r \in Reqs, Environment(r)
  PROVE  Control'
<1>1. CASE Submit(r)
  <2>1. /\ state[r] = "new" /\ state' = [state EXCEPT ![r] = "WAITING"]
        /\ waiting' = Append(waiting, r)
        /\ UNCHANGED <<pc, active, fed, gen, preempted, rejected, resolved, late,
                       plan, budget, outcome, running>>
    BY <1>1 DEF Submit, BaseSubmit, batch
  <2>2. r \notin ToSet(waiting) /\ r \notin ToSet(active) /\ r \notin resolved
    BY <2>1 DEF Control, Residence, is_terminal, Terminal
  <2>3. /\ waiting' \in Seq(Reqs) /\ Distinct(waiting')
        /\ ToSet(waiting') = ToSet(waiting) \cup {r}
    BY <2>1, <2>2, AppendMembers DEF Control, ControlType, Residence
  <2>4. /\ state' \in [Reqs -> States] /\ state'[r] = "WAITING"
        /\ \A q \in Reqs \ {r} : state'[q] = state[q]
    BY <2>1 DEF Control, ControlType, States
  <2>5. ControlType'
    BY <2>1, <2>3, <2>4 DEF Control, ControlType
  <2>6. Residence'
    <3> SUFFICES ASSUME NEW q \in Reqs
                 PROVE  /\ q \in ToSet(waiting') <=> state'[q] = "WAITING"
                        /\ state'[q] \in {"PREFILL", "DECODING"} => q \in ToSet(active')
                        /\ q \in ToSet(active') =>
                             state'[q] # "new" /\ q \notin ToSet(waiting') \cup resolved'
                        /\ q \in resolved' => is_terminal(q)'
      BY <2>1, <2>3 DEF Residence, Control
    <3>1. CASE q = r
      BY <2>1, <2>2, <2>3, <2>4, <3>1
    <3>2. CASE q # r
      BY <2>1, <2>3, <2>4, <3>2 DEF Control, Residence, is_terminal
    <3> QED BY <3>1, <3>2
  <2>7. InFlightPinned' /\ PlanPlace'
    BY <2>1 DEF Control, InFlightPinned, Planned, PlanPlace
  <2> QED BY <2>5, <2>6, <2>7 DEF Control
<1>2. CASE Cancel(r)
  <2>1. /\ pc \in {"sleep", "flight", "stopped"} /\ state[r] # "new" /\ ~is_terminal(r)
        /\ UNCHANGED <<pc, fed, gen, preempted, rejected, late, plan, budget, outcome, running>>
    BY <1>2 DEF Cancel, BaseCancel, AtAwait, batch
  <2>2. CASE r \in Inflight
    <3>1. /\ state' = [state EXCEPT ![r] = "CANCELLED"]
          /\ UNCHANGED <<waiting, active, resolved>>
      BY <1>2, <2>2 DEF Cancel, BaseCancel
    <3>2. /\ state' \in [Reqs -> States] /\ state'[r] = "CANCELLED"
          /\ \A q \in Reqs \ {r} : state'[q] = state[q]
      BY <3>1 DEF Control, ControlType, States, Terminal
    <3>3. r \in ToSet(active) /\ r \notin ToSet(waiting) \cup resolved
      BY <2>2 DEF Inflight, Control, Residence, InFlightPinned
    <3>4. ControlType'
      BY <2>1, <3>1, <3>2 DEF Control, ControlType
    <3>5. Residence'
      <4> SUFFICES ASSUME NEW q \in Reqs
                   PROVE  /\ q \in ToSet(waiting) <=> state'[q] = "WAITING"
                          /\ state'[q] \in {"PREFILL", "DECODING"} => q \in ToSet(active)
                          /\ q \in ToSet(active) =>
                               state'[q] # "new" /\ q \notin ToSet(waiting) \cup resolved
                          /\ q \in resolved => is_terminal(q)'
        BY <3>1 DEF Residence, Control
      <4>1. CASE q = r
        BY <3>2, <3>3, <4>1
      <4>2. CASE q # r
        BY <3>2, <4>2 DEF Control, Residence, is_terminal
      <4> QED BY <4>1, <4>2
    <3>6. InFlightPinned' /\ PlanPlace'
      BY <2>1, <3>1 DEF Control, InFlightPinned, Planned, PlanPlace
    <3> QED BY <3>4, <3>5, <3>6 DEF Control
  <2>3. CASE r \notin Inflight
    <3>1. End(r, "CANCELLED", <<>>)
      BY <1>2, <2>3 DEF Cancel, BaseCancel
    <3>2. /\ waiting' \in Seq(Reqs) /\ active' \in Seq(Reqs) /\ resolved' \subseteq Reqs
          /\ state' \in [Reqs -> States] /\ ToSet(active') = ToSet(active) \ {r} /\ Residence'
      BY <3>1, Ended DEF Terminal
    <3>3. ControlType'
      BY <2>1, <3>2 DEF Control, ControlType
    <3>4. r \notin Planned
      BY <2>1, <2>3, NoPlan DEF Inflight, Control, PlanPlace
    <3>5. InFlightPinned'
      BY <2>1, <3>2, <3>3, <3>4, PlanKept
    <3> QED BY <2>1, <3>2, <3>3, <3>5 DEF Control, PlanPlace
  <2> QED BY <2>2, <2>3
<1>3. CASE Consume(r) \/ QueueTimeout(r) \/ StallTimeout(r)
  <2>1. /\ UNCHANGED <<pc, waiting, active, state, fed, gen, preempted, rejected, resolved,
                       plan, budget, outcome, running>>
        /\ late' \subseteq Reqs
    BY <1>3 DEF Consume, BaseConsume, QueueTimeout, BaseQueueTimeout, StallTimeout, BaseStallTimeout, request, batch, Control, ControlType
  <2>2. ControlType'
    BY <2>1 DEF Control, ControlType
  <2>3. Residence' /\ InFlightPinned' /\ PlanPlace'
    BY <2>1 DEF Control, Residence, is_terminal, InFlightPinned, Planned, PlanPlace
  <2> QED BY <2>2, <2>3 DEF Control
<1> QED BY <1>1, <1>2, <1>3 DEF Environment

\* A scheduler just constructed satisfies Control (scheduler.py:218-226).
LEMMA ControlInit == ASSUME Init PROVE Control
<1>1. /\ pc = "sleep" /\ waiting = <<>> /\ active = <<>> /\ plan = <<>> /\ budget = 0
      /\ outcome = "none" /\ running = TRUE
      /\ preempted = {} /\ rejected = {} /\ resolved = {} /\ late = {}
  BY DEF Init, BaseInit
<1>2. /\ state = [r \in Reqs |-> "new"]
      /\ fed = [r \in Reqs |-> 0] /\ gen = [r \in Reqs |-> 0]
  BY DEF Init, BaseInit
<1>3. ControlType
  BY <1>1, <1>2 DEF ControlType, States
<1>4. ToSet(waiting) = {} /\ ToSet(active) = {} /\ Distinct(waiting) /\ Distinct(active)
  BY <1>1 DEF ToSet, Distinct
<1>5. Residence
  BY <1>1, <1>2, <1>4 DEF Residence
<1>6. InFlightPinned /\ PlanPlace
  BY <1>1 DEF InFlightPinned, Planned, PlanPlace
<1> QED BY <1>3, <1>5, <1>6 DEF Control

(* Every step of the loop, of the worker thread and of the other tasks     *)
(* preserves Control: one case per action, each by its own lemma.          *)
LEMMA ControlStep == ASSUME Control, [Next]_vars PROVE Control'
<1>1. ASSUME UNCHANGED <<waiting, active, state, fed, gen, preempted, rejected, resolved, late,
                         plan, budget, outcome>>,
             pc' = pc \/ (pc = "sleep" /\ pc' \in {"reap", "stopped"}),
             running' \in BOOLEAN
      PROVE  Control'
  <2>1. ControlType'
    BY <1>1 DEF Control, ControlType
  <2>2. Residence' /\ InFlightPinned' /\ PlanPlace'
    BY <1>1 DEF Control, Residence, is_terminal, InFlightPinned, Planned, PlanPlace
  <2> QED BY <2>1, <2>2 DEF Control
<1>2. CASE Loop
  <2>1. CASE Wake
    BY <1>1, <2>1 DEF Wake, BaseWake, request, batch, Control, ControlType
  <2> QED BY <1>2, <2>1, ReapControl, AdmitControl, PlanControl, FlightControl,
             SettleControl, CapacityControl DEF Loop
<1>3. CASE WorkerReturns
  BY <1>3, FlightControl
<1>4. CASE \E r \in Reqs : Environment(r)
  BY <1>4, EnvironmentControl
<1>5. CASE Stop
  BY <1>1, <1>5 DEF Stop, BaseStop, request, batch
<1>6. CASE Halted \/ UNCHANGED vars
  BY <1>1, <1>6 DEF Halted, vars, request, batch, Control, ControlType
<1> QED BY <1>2, <1>3, <1>4, <1>5, <1>6 DEF Next

(* Where the requests are, and what the plan holds, is an invariant.       *)
THEOREM ControlInvariant == Spec => []Control
<1> QED BY ControlInit, ControlStep, PTL DEF Spec

(* A request is never lost, never in two places, and in neither list once  *)
(* its future is resolved.                                                 *)
THEOREM ResidenceHolds == Spec => []Residence
<1>1. Control => Residence
  BY DEF Control
<1> QED BY <1>1, ControlInvariant, PTL

(* What the worker thread computes stays in the active list until the task *)
(* is back, whoever cancels it meanwhile.                                  *)
THEOREM PinnedInFlight == Spec => []InFlightPinned
<1>1. Control => InFlightPinned
  BY DEF Control
<1> QED BY <1>1, ControlInvariant, PTL

(* No step changes the state of a request in a terminal state, or gives it *)
(* another token.                                                          *)
LEMMA FinalStep ==
  ASSUME Control, Next, NEW r \in Reqs, is_terminal(r)
  PROVE  state'[r] = state[r] /\ gen'[r] = gen[r]
<1>0. state \in [Reqs -> States] /\ gen \in [Reqs -> Nat]
  BY DEF Control, ControlType
<1>1. ASSUME NEW q, q # r, NEW s, state' = [state EXCEPT ![q] = s]
      PROVE  state'[r] = state[r]
  BY <1>0, <1>1
<1>2. ASSUME NEW q, ~is_terminal(q), NEW terminal, NEW events, End(q, terminal, events)
      PROVE  state'[r] = state[r]
  BY <1>1, <1>2 DEF End
<1>3. CASE ReapOverdue \/ ReapStalled
  <2>1. gen' = gen /\ \E q : ~is_terminal(q) /\ \E t : End(q, t, <<>>)
    BY <1>3 DEF ReapOverdue, BaseReapOverdue, ReapStalled, BaseReapStalled, Overdue, SlowConsumers
  <2> QED BY <1>2, <2>1
<1>4. CASE Admit \/ AdmissionRefused
  <2> DEFINE q == Head(waiting)
  <2>1. waiting # <<>> /\ gen' = gen
    BY <1>4 DEF Admit, AdmissionRefused, MayAdmit
  <2>2. ~is_terminal(q)
    BY <2>1, HeadWaits DEF is_terminal, Terminal
  <2>3. state' = [state EXCEPT ![q] = "PREFILL"] \/ End(q, "FAILED", <<>>)
    BY <1>4 DEF Admit, AdmissionRefused
  <2> QED BY <1>1, <1>2, <2>1, <2>2, <2>3
<1>5. CASE SettleToken
  <2> DEFINE q == Head(plan).req
  <2>1. /\ ~is_terminal(q) /\ gen' = [gen EXCEPT ![q] = gen[q] + 1]
        /\ \/ End(q, "COMPLETED", <<gen[q] + 1>>)
           \/ state' = [state EXCEPT ![q] = "DECODING"]
    BY <1>5 DEF SettleToken
  <2>2. q # r
    BY <2>1
  <2> HIDE DEF q
  <2>3. gen'[r] = gen[r]
    BY <1>0, <2>1, <2>2
  <2> QED BY <1>1, <1>2, <2>1, <2>2, <2>3
<1>6. CASE SettleOmitted \/ SettleChunk \/ SettleError
  <2> DEFINE q == Head(plan).req
  <2>1. /\ ~is_terminal(q) /\ gen' = gen
        /\ End(q, "FAILED", <<>>) \/ state' = [state EXCEPT ![q] = "PREFILL"]
    BY <1>6 DEF SettleOmitted, SettleChunk, SettleError
  <2> QED BY <1>1, <1>2, <2>1
<1>7. CASE Preempt \/ RefuseForCapacity
  <2>1. gen' = gen
    BY <1>7 DEF Preempt, RefuseForCapacity
  <2>2. \/ state' = state
        \/ \E q : ~is_terminal(q) /\ (End(q, "FAILED", <<>>)
                                        \/ state' = [state EXCEPT ![q] = "WAITING"])
    BY <1>7 DEF Preempt, RefuseForCapacity, Runnable
  <2> QED BY <1>1, <1>2, <2>1, <2>2
<1>8. ASSUME NEW q \in Reqs, Environment(q)
      PROVE  state'[r] = state[r] /\ gen'[r] = gen[r]
  <2>1. gen' = gen
    BY <1>8 DEF Environment, Submit, BaseSubmit, Cancel, BaseCancel, Consume, BaseConsume, QueueTimeout, BaseQueueTimeout, StallTimeout, BaseStallTimeout, request
  <2>2. \/ state' = state
        \/ state[q] = "new" /\ state' = [state EXCEPT ![q] = "WAITING"]
        \/ ~is_terminal(q) /\ (End(q, "CANCELLED", <<>>)
                                 \/ state' = [state EXCEPT ![q] = "CANCELLED"])
    BY <1>8 DEF Environment, Submit, BaseSubmit, Cancel, BaseCancel, Consume, BaseConsume, QueueTimeout, BaseQueueTimeout, StallTimeout, BaseStallTimeout, request
  <2>3. state[q] = "new" => q # r
    BY DEF is_terminal, Terminal
  <2> QED BY <1>1, <1>2, <2>1, <2>2, <2>3
<1>9. CASE \/ DrainActiveStreams \/ EndAdmission \/ PlanItem \/ EndPlan \/ Land \/ SettleCancelled
           \/ EndSettle \/ Wake \/ WorkerReturns \/ Stop \/ Halted
  BY <1>9 DEF DrainActiveStreams, EndAdmission, PlanItem, EndPlan, Land, SettleCancelled,
              EndSettle, Wake, BaseWake, WorkerReturns, Stop, BaseStop, Halted, request, vars
<1> QED BY <1>3, <1>4, <1>5, <1>6, <1>7, <1>8, <1>9 DEF Next, Loop

(* Terminal transitions are irreversible: neither a late answer of the     *)
(* worker nor a preemption revives a request (scheduler.py:10).            *)
THEOREM TerminalIsFinal == Spec => TerminalFinal
<1>1. Control /\ [Next]_vars =>
        [\A r \in Reqs : is_terminal(r) => state'[r] = state[r] /\ gen'[r] = gen[r]]_vars
  BY FinalStep
<1> QED BY <1>1, ControlInvariant, PTL DEF Spec, TerminalFinal

-----------------------------------------------------------------------------
\* Feeding: the tokens of a plan against those of its requests.

Items == {plan[i] : i \in DOMAIN plan}

(* A request that is being computed has tokens to feed, one only once it   *)
(* decodes.                                                                *)
Working(r) ==
  state[r] \in Computed => fed[r] < Known(r) /\ (state[r] = "DECODING" => fed[r] + 1 = Known(r))

(* An item feeds what comes next, up to the last known token if it is to   *)
(* sample; a successful forward has fed it.                                *)
ItemSound(item) ==
  /\ item.end <= Known(item.req)
  /\ item.sample <=> item.end = Known(item.req)
  /\ state[item.req] = "DECODING" => item.sample
  /\ outcome = "ok" => fed[item.req] = item.end
  /\ outcome \notin {"ok", "error"} => item.start = fed[item.req] /\ fed[item.req] < item.end

OutcomePlace == pc \notin {"flight", "settle"} => outcome = "none"

(* Once the forward is over, what its plan fed is dealt with item by item. *)
Feeding ==
  /\ OutcomePlace
  /\ \A item \in Items : ItemSound(item)
  /\ \A r \in Reqs : (outcome \in {"ok", "error"} => r \notin Planned) => Working(r)

\* The items behind the first one are of other requests.
LEMMA RestOfPlan ==
  ASSUME Control, plan # <<>>
  PROVE  /\ Head(plan) \in Items
         /\ {Tail(plan)[i] : i \in DOMAIN Tail(plan)} \subseteq Items
         /\ plan' = Tail(plan) => Items' \subseteq Items /\ Planned' = Planned \ {Head(plan).req}
<1>1. plan \in Seq(Item) /\ OncePer(plan) /\ Planned = ReqsOf(plan)
  BY PinnedSets DEF Control, ControlType
<1>2. /\ Head(plan) = plan[1] /\ Len(plan) \in Nat /\ Len(plan) > 0 /\ DOMAIN plan = 1 .. Len(plan)
      /\ Tail(plan) \in Seq(Item) /\ Len(Tail(plan)) = Len(plan) - 1
      /\ \A i \in 1 .. Len(Tail(plan)) : Tail(plan)[i] = plan[i + 1]
  BY <1>1, HeadTailProperties, LenProperties, EmptySeq
<1>3. 1 \in DOMAIN plan BY <1>2
<1>4. \A i \in DOMAIN Tail(plan) : i + 1 \in DOMAIN plan /\ Tail(plan)[i] = plan[i + 1]
  BY <1>2, LenProperties
<1>5. {Tail(plan)[i] : i \in DOMAIN Tail(plan)} \subseteq Items BY <1>4 DEF Items
<1>6. ASSUME plan' = Tail(plan) PROVE Items' \subseteq Items /\ Planned' = Planned \ {Head(plan).req}
  <2>1. ReqsOf(Tail(plan)) = ReqsOf(plan) \ {Head(plan).req} BY <1>1, PlanTail
  <2>2. Planned' = ReqsOf(Tail(plan)) BY <1>6 DEF Planned, ReqsOf
  <2>3. Items' = {Tail(plan)[i] : i \in DOMAIN Tail(plan)} BY <1>6 DEF Items
  <2> QED BY <1>1, <1>5, <2>1, <2>2, <2>3
<1> QED BY <1>2, <1>3, <1>5, <1>6 DEF Items

\* An item of the plan is an item, and its request's only one.
LEMMA ItemOfPlan ==
  ASSUME Control
  PROVE  /\ \A item \in Items : item \in Item /\ item.req \in Reqs /\ item.req \in Planned
         /\ \A a, b \in Items : a.req = b.req => a = b
         /\ \A r \in Planned : \E item \in Items : item.req = r
<1>1. \A i \in DOMAIN plan : plan[i] \in Item
  BY LenProperties, ElementOfSeq DEF Control, ControlType
<1> QED BY <1>1 DEF Items, Planned, Item, Control, InFlightPinned

(* A step that feeds nothing and generates nothing, moves no request into  *)
(* the computation, and gives up only items of requests that have left it. *)
LEMMA FeedingKept ==
  ASSUME Feeding, Control, OutcomePlace', UNCHANGED <<fed, gen, outcome>>,
         Items' \subseteq Items, Planned' \subseteq Planned,
         \A r \in Reqs : state'[r] = state[r] \/ state'[r] \notin Computed,
         outcome \in {"ok", "error"} => \A r \in Planned \ Planned' : state'[r] \notin Computed
  PROVE  Feeding'
<1>1. \A r \in Reqs : Known(r)' = Known(r) BY DEF Known
<1>2. ASSUME NEW item \in Items' PROVE ItemSound(item)'
  <2>1. item \in Items /\ item.req \in Reqs BY ItemOfPlan
  <2> QED BY <1>1, <2>1 DEF Feeding, ItemSound, Computed
<1>3. ASSUME NEW r \in Reqs, outcome' \in {"ok", "error"} => r \notin Planned' PROVE Working(r)'
  BY <1>1, <1>3 DEF Feeding, Working, Computed
<1> QED BY <1>2, <1>3 DEF Feeding

(* A step that ends, or stays outside of, a flight that has not moved      *)
(* tokens_fed: no item is left to deal with.                               *)
LEMMA FeedingDropped ==
  ASSUME Feeding, OutcomePlace', plan' = <<>>, plan = <<>> \/ outcome \notin {"ok", "error"},
         \A r \in Reqs : \/ state'[r] \notin Computed
                         \/ state'[r] = state[r] /\ fed'[r] = fed[r] /\ gen'[r] = gen[r]
  PROVE  Feeding'
<1>1. Items' = {} /\ Planned' = {} BY DEF Items, Planned
<1>2. \A r \in Reqs : Working(r) BY NoPlan DEF Feeding
<1>3. ASSUME NEW r \in Reqs PROVE Working(r)' BY <1>2 DEF Working, Known
<1> QED BY <1>1, <1>3 DEF Feeding

\* The end of one request touches no other's state, and it leaves the computation.
LEMMA EndedState ==
  ASSUME Control, NEW q, NEW terminal \in Terminal, NEW events, End(q, terminal, events)
  PROVE  \A r \in Reqs : state'[r] = state[r] \/ (r = q /\ state'[r] \notin Computed)
BY DEF End, Terminal, Computed, Control, ControlType

\* Between iterations (scheduler.py:367-375).
LEMMA GatherFeeding ==
  ASSUME Control, Feeding,
         \/ ReapOverdue \/ ReapStalled \/ DrainActiveStreams \/ AdmissionRefused \/ EndAdmission
         \/ EndPlan \/ Land \/ EndSettle \/ Wake
  PROVE  Feeding'
<1>1. CASE \/ ReapOverdue \/ ReapStalled \/ DrainActiveStreams \/ AdmissionRefused
           \/ EndAdmission \/ EndSettle \/ Wake
  <2>1. plan = <<>> /\ plan' = <<>> /\ OutcomePlace'
    BY <1>1 DEF ReapOverdue, BaseReapOverdue, ReapStalled, BaseReapStalled, DrainActiveStreams,
         AdmissionRefused, EndAdmission, EndSettle, Wake, BaseWake, Control, PlanPlace, batch,
         Feeding, OutcomePlace
  <2>2. UNCHANGED <<fed, gen>>
    BY <1>1 DEF ReapOverdue, BaseReapOverdue, ReapStalled, BaseReapStalled, DrainActiveStreams,
         AdmissionRefused, EndAdmission, EndSettle, Wake, BaseWake, request
  <2>3. \A r \in Reqs : state'[r] = state[r] \/ state'[r] \notin Computed
    <3>1. CASE ReapOverdue \/ ReapStalled \/ AdmissionRefused
      <4>1. \E q : \E t \in Terminal : End(q, t, <<>>)
        BY <3>1 DEF ReapOverdue, BaseReapOverdue, ReapStalled, BaseReapStalled, AdmissionRefused, Terminal
      <4> QED BY <4>1, EndedState
    <3>2. CASE DrainActiveStreams \/ EndAdmission \/ EndSettle \/ Wake
      BY <3>2 DEF DrainActiveStreams, EndAdmission, EndSettle, Wake, BaseWake, request
    <3> QED BY <1>1, <3>1, <3>2
  <2> QED BY <2>1, <2>2, <2>3, FeedingDropped
<1>2. CASE EndPlan
  <2>1. /\ pc = "plan" /\ UNCHANGED <<plan, state, fed, gen>>
        /\ \/ outcome' = outcome
           \/ pc' = "flight" /\ outcome' = "pending"
    BY <1>2 DEF EndPlan, request
  <2>2. outcome = "none" BY <2>1 DEF Feeding, OutcomePlace
  <2>3. Items' = Items /\ Planned' = Planned /\ \A r : Known(r)' = Known(r)
    BY <2>1 DEF Items, Planned, Known
  <2> QED BY <2>1, <2>2, <2>3 DEF Feeding, ItemSound, Working, OutcomePlace
<1>3. CASE Land
  <2>1. /\ pc' = "settle" /\ UNCHANGED <<plan, state, fed, gen, outcome>>
    BY <1>3 DEF Land, batch, request
  <2>2. Items' = Items /\ Planned' = Planned BY <2>1 DEF Items, Planned
  <2> QED BY <2>1, <2>2, FeedingKept DEF OutcomePlace
<1> QED BY <1>1, <1>2, <1>3

\* An admitted request has tokens left, whatever the cache had of its prompt (scheduler.py:444-456).
LEMMA AdmitFeeding == ASSUME Control, Feeding, Admit PROVE Feeding'
<1> DEFINE r == Head(waiting)
<1>1. /\ pc = "admit" /\ waiting # <<>> /\ state' = [state EXCEPT ![r] = "PREFILL"]
      /\ UNCHANGED <<pc, gen, plan, outcome>>
      /\ \E hit \in 0 .. PromptLen[r] - 1 : fed' = [fed EXCEPT ![r] = hit]
  BY DEF Admit, MayAdmit, batch
<1>2. r \in Reqs BY <1>1, HeadWaits
<1>3. plan = <<>> BY <1>1 DEF Control, PlanPlace
<1> HIDE DEF r
<1>4. PICK hit \in 0 .. PromptLen[r] - 1 : fed' = [fed EXCEPT ![r] = hit] BY <1>1
<1>5. /\ state'[r] = "PREFILL" /\ fed'[r] = hit
      /\ \A q \in Reqs \ {r} : state'[q] = state[q] /\ fed'[q] = fed[q]
  BY <1>1, <1>2, <1>4 DEF Control, ControlType
<1>6. hit < Known(r)
  <2>1. PromptLen[r] \in Nat \ {0} /\ gen[r] \in Nat
    BY <1>2, RequestAssumption DEF Control, ControlType
  <2> QED BY <1>4, <2>1 DEF Known
<1>7. \A q \in Reqs : Working(q) BY <1>3, NoPlan DEF Feeding
<1>8. \A q \in Reqs : Working(q)' BY <1>1, <1>5, <1>6, <1>7 DEF Working, Known
<1>9. Items' = {} /\ Planned' = {} BY <1>1, <1>3 DEF Items, Planned
<1> QED BY <1>1, <1>8, <1>9 DEF Feeding, OutcomePlace

\* An item takes the next tokens of a request, one of which at least is left (scheduler.py:495-517).
LEMMA PlanItemFeeding == ASSUME Control, Feeding, PlanItem PROVE Feeding'
<1>1. PICK r \in Candidates :
        LET limit == IF r \in Decodes THEN 1 ELSE PrefillChunk
            n == Lesser(Lesser(Remaining(r), limit), budget)
        IN  plan' = Append(plan, [req |-> r, start |-> fed[r], end |-> fed[r] + n,
                                  sample |-> fed[r] + n = Known(r)])
  BY DEF PlanItem
<1> DEFINE n == Lesser(Lesser(Remaining(r), IF r \in Decodes THEN 1 ELSE PrefillChunk), budget)
           item == [req |-> r, start |-> fed[r], end |-> fed[r] + n,
                    sample |-> fed[r] + n = Known(r)]
<1>2. /\ pc = "plan" /\ budget > 0 /\ plan' = Append(plan, item)
      /\ UNCHANGED <<pc, state, fed, gen, outcome>>
  BY <1>1 DEF PlanItem, request
<1>3. r \in ToSet(active) /\ Remaining(r) > 0 BY DEF Candidates, Decodes, Eligible
<1>4. r \in Reqs BY <1>3, LenProperties, ElementOfSeq DEF ToSet, Control, ControlType
<1>5. Known(r) \in Nat /\ fed[r] \in Nat /\ Remaining(r) = Known(r) - fed[r]
  BY <1>4, RequestAssumption DEF Known, Remaining, Control, ControlType
<1>6. n \in Nat \ {0} /\ n <= Remaining(r)
  <2>1. (IF r \in Decodes THEN 1 ELSE PrefillChunk) \in Nat \ {0} /\ budget \in Nat \ {0}
    BY <1>2, ChunkAssumption DEF Control, ControlType
  <2>2. Remaining(r) \in Nat \ {0} BY <1>3, <1>5
  <2> QED BY <2>1, <2>2, CutBounds
<1> HIDE DEF n
<1>7. outcome = "none" BY <1>2 DEF Feeding, OutcomePlace
<1>8. Working(r) BY <1>4, <1>7 DEF Feeding
<1>9. /\ item.req = r /\ item.start = fed[r] /\ item.end = fed[r] + n
      /\ item.sample <=> fed[r] + n = Known(r)
  OBVIOUS
<1>10. ItemSound(item)
  <2>1. item.end <= Known(r) /\ fed[r] < item.end BY <1>5, <1>6, <1>9
  <2>2. state[r] = "DECODING" => fed[r] + n = Known(r)
    BY <1>5, <1>6, <1>8 DEF Working, Computed
  <2> QED BY <1>7, <1>9, <2>1, <2>2 DEF ItemSound
<1>11. item \in Item BY <1>4, <1>5, <1>6 DEF Item
<1> HIDE DEF item
<1>12. Items' \subseteq Items \cup {item}
  <2>1. plan \in Seq(Item) BY DEF Control, ControlType
  <2>2. /\ Len(plan') = Len(plan) + 1 /\ DOMAIN plan = 1 .. Len(plan) /\ DOMAIN plan' = 1 .. Len(plan')
        /\ \A i \in 1 .. Len(plan) : plan'[i] = plan[i]
        /\ plan'[Len(plan) + 1] = item /\ Len(plan) \in Nat
    BY <1>2, <1>11, <2>1, AppendProperties, LenProperties
  <2>3. \A i \in DOMAIN plan' : i \in DOMAIN plan \/ i = Len(plan) + 1 BY <2>2
  <2> QED BY <2>2, <2>3 DEF Items
<1>13. \A q : Known(q)' = Known(q) BY <1>2 DEF Known
<1>14. \A it : ItemSound(it) => ItemSound(it)' BY <1>2, <1>13 DEF ItemSound
<1>15. \A q \in Reqs : Working(q)' BY <1>2, <1>7, <1>13 DEF Feeding, Working
<1> QED BY <1>2, <1>10, <1>12, <1>14, <1>15 DEF Feeding, OutcomePlace

\* The forward has fed the items of its plan, or it raised (engine.py:479-487).
LEMMA WorkerFeeding == ASSUME Control, Feeding, WorkerReturns PROVE Feeding'
<1>1. /\ pc = "flight" /\ outcome = "pending" /\ UNCHANGED <<pc, state, gen, plan>>
      /\ \/ outcome' \in {"capacity", "error"} /\ UNCHANGED fed
         \/ /\ outcome' \in {"ok", "error"}
            /\ fed' = [r \in Reqs |->
                 IF r \in Planned THEN plan[CHOOSE i \in DOMAIN plan : plan[i].req = r].end ELSE fed[r]]
  BY DEF WorkerReturns
<1>2. Items' = Items /\ Planned' = Planned /\ \A r : Known(r)' = Known(r)
  BY <1>1 DEF Items, Planned, Known
<1>3. CASE outcome' \in {"capacity", "error"} /\ UNCHANGED fed
  BY <1>1, <1>2, <1>3 DEF Feeding, ItemSound, Working, OutcomePlace
<1>4. CASE /\ outcome' \in {"ok", "error"}
           /\ fed' = [r \in Reqs |->
                IF r \in Planned THEN plan[CHOOSE i \in DOMAIN plan : plan[i].req = r].end ELSE fed[r]]
  <2>1. ASSUME NEW item \in Items PROVE fed'[item.req] = item.end
    <3>1. item.req \in Reqs /\ item.req \in Planned BY ItemOfPlan
    <3> DEFINE k == CHOOSE i \in DOMAIN plan : plan[i].req = item.req
    <3>2. k \in DOMAIN plan /\ plan[k].req = item.req BY <3>1 DEF Planned
    <3>3. plan[k] = item BY <3>2, ItemOfPlan DEF Items
    <3> QED BY <1>4, <3>1, <3>3
  <2>2. \A r \in Reqs \ Planned : fed'[r] = fed[r] BY <1>4
  <2> QED BY <1>1, <1>2, <1>4, <2>1, <2>2 DEF Feeding, ItemSound, Working, OutcomePlace
<1> QED BY <1>1, <1>3, <1>4

\* The answer of the forward, item by item (scheduler.py:401-436).
LEMMA SettleFeeding ==
  ASSUME Control, Feeding,
         SettleCancelled \/ SettleToken \/ SettleOmitted \/ SettleChunk \/ SettleError
  PROVE  Feeding'
<1>0. PICK head, r : head = Head(plan) /\ r = Head(plan).req OBVIOUS
<1>1. /\ pc = "settle" /\ plan # <<>> /\ plan' = Tail(plan) /\ outcome \in {"ok", "error"}
      /\ UNCHANGED <<pc, fed, outcome>>
  BY DEF SettleCancelled, SettleToken, SettleOmitted, SettleChunk, SettleError, Settling, NextItem
<1>2. /\ r \in Reqs /\ head \in Items /\ Items' \subseteq Items /\ Planned' = Planned \ {r}
      /\ r \in ToSet(active) /\ state[r] \notin {"new", "WAITING"}
  BY <1>0, <1>1, HeadActive, RestOfPlan DEF Control, Residence
<1>3. OutcomePlace' BY <1>1 DEF Feeding, OutcomePlace
<1>4. CASE SettleCancelled \/ SettleOmitted \/ SettleError
  <2>1. gen' = gen /\ ((UNCHANGED state /\ is_terminal(r)) \/ End(r, "FAILED", <<>>))
    BY <1>0, <1>4 DEF SettleCancelled, SettleOmitted, SettleError
  <2>2. \A q \in Reqs : state'[q] = state[q] \/ state'[q] \notin Computed
    BY <2>1, EndedState DEF Terminal
  <2>3. state'[r] \notin Computed
    <3>1. CASE UNCHANGED state /\ is_terminal(r) BY <3>1 DEF is_terminal, Terminal, Computed
    <3>2. CASE End(r, "FAILED", <<>>) BY <1>2, <3>2 DEF End, Computed, Control, ControlType
    <3> QED BY <2>1, <3>1, <3>2
  <2> QED BY <1>1, <1>2, <1>3, <2>1, <2>2, <2>3, FeedingKept
<1>5. ASSUME outcome = "ok", \A q \in Reqs \ {r} : state'[q] = state[q] /\ gen'[q] = gen[q],
             Working(r)'
      PROVE  Feeding'
  <2>1. \A item \in Items' : item.req \in Reqs /\ item.req # r /\ item \in Items
    <3>1. \A item \in Items' : item.req \in Planned' BY DEF Items, Planned
    <3> QED BY <1>2, <3>1, ItemOfPlan
  <2>2. \A q \in Reqs \ {r} : Known(q)' = Known(q) BY <1>5 DEF Known
  <2>3. ASSUME NEW item \in Items' PROVE ItemSound(item)'
    <3>1. item \in Items /\ item.req \in Reqs \ {r} BY <2>1
    <3> QED BY <1>1, <1>5, <2>2, <3>1 DEF Feeding, ItemSound
  <2>4. ASSUME NEW q \in Reqs, q \notin Planned' PROVE Working(q)'
    <3>1. CASE q = r BY <1>5, <3>1
    <3>2. CASE q # r
      <4>1. Working(q) BY <1>2, <2>4, <3>2 DEF Feeding
      <4> QED BY <1>1, <1>5, <2>2, <3>2, <4>1 DEF Working
    <3> QED BY <3>1, <3>2
  <2> QED BY <1>1, <1>3, <1>5, <2>3, <2>4 DEF Feeding
<1>6. /\ Known(r) \in Nat /\ fed[r] \in Nat /\ gen[r] \in Nat /\ PromptLen[r] \in Nat
      /\ gen \in [Reqs -> Nat] /\ state \in [Reqs -> States]
  BY <1>2, RequestAssumption DEF Known, Control, ControlType
<1>7. ItemSound(head) BY <1>2 DEF Feeding
<1>8. CASE SettleToken
  <2>1. /\ outcome = "ok" /\ head.sample /\ gen' = [gen EXCEPT ![r] = gen[r] + 1]
        /\ \/ End(r, "COMPLETED", <<gen[r] + 1>>)
           \/ state' = [state EXCEPT ![r] = "DECODING"]
    BY <1>0, <1>8 DEF SettleToken, Settling
  <2>2. fed[r] = Known(r) BY <1>0, <1>7, <2>1 DEF ItemSound
  <2>3. gen'[r] = gen[r] + 1 /\ \A q \in Reqs \ {r} : gen'[q] = gen[q] BY <1>2, <1>6, <2>1
  <2>4. Known(r)' = Known(r) + 1 BY <1>6, <2>3 DEF Known
  <2>5. \A q \in Reqs \ {r} : state'[q] = state[q] BY <1>6, <2>1 DEF End
  <2>6. Working(r)' BY <1>1, <1>6, <2>2, <2>4 DEF Working
  <2> QED BY <1>5, <2>1, <2>3, <2>5, <2>6
<1>9. CASE SettleChunk
  <2>1. /\ outcome = "ok" /\ ~head.sample /\ gen' = gen /\ state' = [state EXCEPT ![r] = "PREFILL"]
    BY <1>0, <1>9 DEF SettleChunk, Settling
  <2>2. fed[r] < Known(r) /\ fed[r] \in Nat
    <3>1. head.req = r /\ head.end = fed[r] /\ head.end <= Known(r) /\ head.end # Known(r)
      BY <1>0, <1>7, <2>1 DEF ItemSound
    <3> QED BY <1>6, <3>1
  <2>3. state'[r] = "PREFILL" /\ \A q \in Reqs \ {r} : state'[q] = state[q] BY <1>2, <1>6, <2>1
  <2>4. Working(r)' BY <1>1, <2>1, <2>2, <2>3 DEF Working, Known
  <2> QED BY <1>5, <2>1, <2>3, <2>4
<1> QED BY <1>4, <1>8, <1>9

\* Capacity pressure: the forward has fed nothing (scheduler.py:377-400, 527-553).
LEMMA CapacityFeeding == ASSUME Control, Feeding, Preempt \/ RefuseForCapacity PROVE Feeding'
<1>1. /\ outcome = "capacity" /\ plan' = <<>> /\ OutcomePlace' /\ gen' = gen
  BY DEF Preempt, RefuseForCapacity, DropPlan, OutcomePlace
<1>2. CASE Preempt
  <2>1. PICK v \in Runnable : fed' = [fed EXCEPT ![v] = 0] /\ state' = [state EXCEPT ![v] = "WAITING"]
    BY <1>2 DEF Preempt
  <2>2. \A r \in Reqs : \/ state'[r] \notin Computed
                        \/ state'[r] = state[r] /\ fed'[r] = fed[r]
    BY <2>1 DEF Computed, Control, ControlType
  <2> QED BY <1>1, <2>2, FeedingDropped
<1>3. CASE RefuseForCapacity
  <2>1. fed' = fed /\ (UNCHANGED state \/ \E r \in Runnable : End(r, "FAILED", <<>>))
    BY <1>3 DEF RefuseForCapacity
  <2>2. \A r \in Reqs : state'[r] = state[r] \/ state'[r] \notin Computed
    BY <2>1, EndedState DEF Terminal
  <2> QED BY <1>1, <2>1, <2>2, FeedingDropped
<1> QED BY <1>2, <1>3

\* The other tasks, and the end.
LEMMA OthersFeeding ==
  ASSUME Control, Feeding, (\E r \in Reqs : Environment(r)) \/ Stop \/ Halted \/ UNCHANGED vars
  PROVE  Feeding'
<1>1. UNCHANGED <<pc, fed, gen, outcome, plan>>
  BY DEF Environment, Submit, BaseSubmit, Cancel, BaseCancel, Consume, BaseConsume, QueueTimeout,
         BaseQueueTimeout, StallTimeout, BaseStallTimeout, Stop, BaseStop, Halted, vars, request, batch
<1>2. \A r \in Reqs : state'[r] = state[r] \/ state'[r] \notin Computed
  <2>1. CASE \E q \in Reqs : Submit(q) \/ Cancel(q)
    <3>1. \E q \in Reqs : \/ state' = [state EXCEPT ![q] = "WAITING"]
                          \/ state' = [state EXCEPT ![q] = "CANCELLED"]
      BY <2>1 DEF Submit, BaseSubmit, Cancel, BaseCancel, End
    <3> QED BY <3>1 DEF Computed, Control, ControlType
  <2>2. CASE ~\E q \in Reqs : Submit(q) \/ Cancel(q)
    BY <2>2 DEF Environment, Consume, BaseConsume, QueueTimeout, BaseQueueTimeout, StallTimeout,
                BaseStallTimeout, Stop, BaseStop, Halted, vars, request
  <2> QED BY <2>1, <2>2
<1>3. Items' = Items /\ Planned' = Planned BY <1>1 DEF Items, Planned
<1>4. OutcomePlace' BY <1>1 DEF Feeding, OutcomePlace
<1> QED BY <1>1, <1>2, <1>3, <1>4, FeedingKept

LEMMA FeedingStep == ASSUME Control, Feeding, [Next]_vars PROVE Feeding'
BY GatherFeeding, AdmitFeeding, PlanItemFeeding, WorkerFeeding, SettleFeeding, CapacityFeeding,
   OthersFeeding DEF Next, Loop

LEMMA FeedingInit == ASSUME Init PROVE Feeding
BY DEF Init, BaseInit, Feeding, OutcomePlace, Items, Planned, Working, Computed

(* Plans and requests agree on what has been fed, is being fed, and is to  *)
(* be fed next.                                                            *)
THEOREM FeedingInvariant == Spec => [](Control /\ Feeding)
<1> QED BY ControlInit, ControlStep, FeedingInit, FeedingStep, PTL DEF Spec

(* A runnable request always has a token to feed, for any chunk size, any  *)
(* cached prefix and any preemption policy: no plan passes it over for     *)
(* want of work (scheduler.py:473-475).                                    *)
THEOREM RunnableHasWork == Spec => []AlwaysWork
<1>1. Control /\ Feeding => AlwaysWork
  <2> SUFFICES ASSUME Control, Feeding, pc \in {"sleep", "reap", "admit"}, NEW r \in Runnable
               PROVE  Remaining(r) > 0
    BY DEF AlwaysWork
  <2>1. r \in ToSet(active) /\ ~is_terminal(r) BY DEF Runnable
  <2>2. r \in Reqs BY <2>1, LenProperties, ElementOfSeq DEF ToSet, Control, ControlType
  <2>3. state[r] \in Computed
    BY <2>1, <2>2 DEF Control, ControlType, Residence, is_terminal, Terminal, States, Computed
  <2>4. Working(r) BY <2>2 DEF Feeding, OutcomePlace
  <2>5. fed[r] \in Nat /\ Known(r) \in Nat
    BY <2>2, RequestAssumption DEF Known, Control, ControlType
  <2> QED BY <2>3, <2>4, <2>5 DEF Working, Remaining
<1> QED BY <1>1, FeedingInvariant, PTL

-----------------------------------------------------------------------------
(* The budget: what the items of a plan feed, and what is left for more.   *)
(* The total is a recursive function over the plan; that it exists, and    *)
(* that a prefix decides it, is shown by the least length for which it     *)
(* would not.                                                              *)

\* A set of numbers has a least.
LEMMA LeastLength ==
  ASSUME NEW T, T \subseteq Nat, T # {}
  PROVE  \E n \in T : \A m \in Nat : m < n => m \notin T
<1>1. PICK n \in T : \A m \in T : ~ (<<m, n>> \in OpToRel(<, Nat))
  BY NatLessThanWellFounded, WFMin
<1>2. \A m \in Nat : m < n => <<m, n>> \in OpToRel(<, Nat) BY DEF OpToRel
<1> QED BY <1>1, <1>2

\* f gives what each prefix of p feeds, up to the m-th.
NextFed(p, n, before) == IF n = 0 THEN 0 ELSE before + (p[n].end - p[n].start)
IsFed(f, p, m) == f = [n \in 0 .. m |-> NextFed(p, n, f[n - 1])]

\* Fed is defined by such a function.
LEMMA FedOf == ASSUME NEW p PROVE Fed(p) = (CHOOSE f : IsFed(f, p, Len(p)))[Len(p)]
BY DEF Fed, IsFed, NextFed

\* It exists, for every plan.
LEMMA FedExists ==
  ASSUME NEW p, NEW m \in Nat
  PROVE  \E f : IsFed(f, p, m)
<1> DEFINE T == {n \in Nat : ~\E f : IsFed(f, p, n)}
<1> SUFFICES ASSUME T # {} PROVE FALSE OBVIOUS
<1>1. PICK n \in T : \A k \in Nat : k < n => k \notin T
  <2> HIDE DEF T
  <2> QED BY LeastLength DEF T
<1>2. CASE n = 0
  <2> DEFINE f == [k \in 0 .. 0 |-> 0]
  <2>1. f = [k \in 0 .. 0 |-> NextFed(p, k, f[k - 1])] BY DEF NextFed
  <2> QED BY <1>2, <2>1 DEF IsFed
<1>3. CASE n # 0
  <2>1. n - 1 \in Nat /\ n - 1 < n BY <1>3
  <2>2. PICK f : IsFed(f, p, n - 1) BY <1>1, <2>1
  <2> DEFINE g == [k \in 0 .. n |-> IF k = n THEN NextFed(p, n, f[n - 1]) ELSE f[k]]
  <2>3. \A k \in 0 .. n - 1 : f[k] = NextFed(p, k, f[k - 1]) BY <2>2 DEF IsFed
  <2>4. \A k \in 0 .. n : g[k] = NextFed(p, k, g[k - 1])
    <3> TAKE k \in 0 .. n
    <3>1. CASE k = n
      <4>1. g[k - 1] = f[n - 1] BY <3>1, <1>3
      <4> QED BY <4>1, <3>1
    <3>2. CASE k # n /\ k # 0
      <4>1. g[k - 1] = f[k - 1] /\ k \in 0 .. n - 1 BY <3>2
      <4> QED BY <4>1, <3>2, <2>3
    <3>3. CASE k = 0
      <4>1. 0 \in 0 .. n - 1 /\ g[0] = f[0] BY <1>3
      <4>2. f[0] = 0 BY <2>3, <4>1 DEF NextFed
      <4> QED BY <3>3, <4>1, <4>2 DEF NextFed
    <3> QED BY <3>1, <3>2, <3>3
  <2>5. g = [k \in 0 .. n |-> NextFed(p, k, g[k - 1])]
    <3> HIDE DEF g
    <3>1. \A e : (e = [k \in 0 .. n |-> g[k]]) => (e = [k \in 0 .. n |-> NextFed(p, k, g[k - 1])])
      BY <2>4
    <3>2. g = [k \in 0 .. n |-> g[k]] BY DEF g
    <3> QED BY <3>1, <3>2
  <2> HIDE DEF g
  <2> QED BY <2>5 DEF IsFed
<1> QED BY <1>2, <1>3

\* It depends on the prefix only.
LEMMA FedUnique ==
  ASSUME NEW f, NEW g, NEW p, NEW q, NEW m \in Nat, NEW n \in Nat, NEW k \in Nat,
         k <= m, k <= n, IsFed(f, p, m), IsFed(g, q, n),
         \A j \in 1 .. k : p[j] = q[j]
  PROVE  f[k] = g[k]
<1> DEFINE T == {j \in Nat : j <= k /\ f[j] # g[j]}
<1> SUFFICES ASSUME T # {} PROVE FALSE OBVIOUS
<1>1. PICK j \in T : \A i \in Nat : i < j => i \notin T
  <2> HIDE DEF T
  <2> QED BY LeastLength DEF T
<1>2. f[j] = NextFed(p, j, f[j - 1]) /\ g[j] = NextFed(q, j, g[j - 1]) BY <1>1 DEF IsFed
<1>3. CASE j = 0 BY <1>1, <1>2, <1>3 DEF NextFed
<1>4. CASE j # 0
  <2>1. f[j - 1] = g[j - 1] BY <1>1, <1>4
  <2>2. p[j] = q[j] BY <1>1, <1>4
  <2> QED BY <1>1, <1>2, <2>1, <2>2 DEF NextFed
<1> QED BY <1>3, <1>4

\* An empty plan feeds nothing.
LEMMA FedEmpty == Fed(<<>>) = 0
<1> DEFINE f == CHOOSE f : IsFed(f, <<>>, 0)
<1>1. IsFed(f, <<>>, 0) BY FedExists
<1>2. Fed(<<>>) = f[0] BY FedOf
<1> HIDE DEF f
<1> QED BY <1>1, <1>2 DEF IsFed, NextFed

\* One more item feeds its own tokens more.
LEMMA FedAppend ==
  ASSUME NEW p \in Seq(Item), NEW item \in Item
  PROVE  Fed(Append(p, item)) = Fed(p) + (item.end - item.start)
<1> DEFINE n == Len(p)
           t == Append(p, item)
           f == CHOOSE f : IsFed(f, t, n + 1)
           g == CHOOSE g : IsFed(g, p, n)
<1>1. /\ n \in Nat /\ Len(t) = n + 1 /\ t[n + 1] = item /\ \A j \in 1 .. n : t[j] = p[j]
  BY AppendProperties, LenProperties
<1>2. IsFed(f, t, n + 1) /\ IsFed(g, p, n)
  <2>1. n + 1 \in Nat BY <1>1
  <2> HIDE DEF t, n
  <2>2. (\E x : IsFed(x, t, n + 1)) /\ (\E x : IsFed(x, p, n)) BY <1>1, <2>1, FedExists
  <2> QED BY <2>2
<1>3. Fed(t) = f[n + 1] /\ Fed(p) = g[n] BY <1>1, FedOf
<1> HIDE DEF f, g, t, n
<1>4. f[n + 1] = f[n] + (t[n + 1].end - t[n + 1].start) BY <1>1, <1>2 DEF IsFed, NextFed
<1>5. f[n] = g[n] BY <1>1, <1>2, FedUnique
<1> QED BY <1>1, <1>3, <1>4, <1>5 DEF t

\* While a plan is built, and until its forward is over.
Spent ==
  pc = "plan" \/ (pc = "flight" /\ outcome = "pending") =>
    Fed(plan) \in Nat /\ budget + Fed(plan) = MaxBatchedTokens

\* An item takes its tokens from the budget (scheduler.py:495-517).
LEMMA PlanItemSpends == ASSUME Control, Spent, PlanItem PROVE Spent'
<1>1. PICK r \in Candidates :
        LET limit == IF r \in Decodes THEN 1 ELSE PrefillChunk
            n == Lesser(Lesser(Remaining(r), limit), budget)
        IN  /\ plan' = Append(plan, [req |-> r, start |-> fed[r], end |-> fed[r] + n,
                                     sample |-> fed[r] + n = Known(r)])
            /\ budget' = budget - n
  BY DEF PlanItem
<1> DEFINE n == Lesser(Lesser(Remaining(r), IF r \in Decodes THEN 1 ELSE PrefillChunk), budget)
           item == [req |-> r, start |-> fed[r], end |-> fed[r] + n,
                    sample |-> fed[r] + n = Known(r)]
<1>2. /\ pc = "plan" /\ budget > 0 /\ plan' = Append(plan, item) /\ budget' = budget - n
      /\ UNCHANGED <<pc, outcome>>
  BY <1>1 DEF PlanItem
<1>3. r \in Reqs /\ Remaining(r) > 0
  BY LenProperties, ElementOfSeq DEF Candidates, Decodes, Eligible, ToSet, Control, ControlType
<1>4. n \in Nat \ {0} /\ n <= budget
  <2>1. Remaining(r) \in Nat \ {0}
    BY <1>3, RequestAssumption DEF Remaining, Known, Control, ControlType
  <2>2. (IF r \in Decodes THEN 1 ELSE PrefillChunk) \in Nat \ {0} /\ budget \in Nat \ {0}
    BY <1>2, ChunkAssumption DEF Control, ControlType
  <2> QED BY <2>1, <2>2, CutBounds
<1> HIDE DEF n
<1>5. item \in Item /\ fed[r] \in Nat /\ item.end = fed[r] + n /\ item.start = fed[r]
  BY <1>3, <1>4 DEF Item, Control, ControlType
<1> HIDE DEF item
<1>6. Fed(plan') = Fed(plan) + (item.end - item.start)
  BY <1>2, <1>5, FedAppend DEF Control, ControlType
<1>7. item.end - item.start = n BY <1>4, <1>5
<1>8. /\ Fed(plan) \in Nat /\ budget + Fed(plan) = MaxBatchedTokens
      /\ budget \in Nat /\ MaxBatchedTokens \in Nat
  BY <1>2, ConfigAssumption DEF Spent, Control, ControlType
<1>9. Fed(plan') \in Nat /\ budget' + Fed(plan') = MaxBatchedTokens
  <2> DEFINE k == Fed(plan)
  <2>1. Fed(plan') = k + n /\ k \in Nat /\ budget + k = MaxBatchedTokens BY <1>6, <1>7, <1>8
  <2> HIDE DEF k
  <2>2. k + n \in Nat /\ (budget - n) + (k + n) = MaxBatchedTokens BY <1>4, <1>8, <2>1
  <2> QED BY <1>2, <2>1, <2>2
<1> QED BY <1>9 DEF Spent, Fed

LEMMA SpentStep == ASSUME Control, Spent, [Next]_vars PROVE Spent'
<1>1. CASE PlanItem BY <1>1, PlanItemSpends
<1>2. CASE EndAdmission
  <2>1. pc' = "plan" /\ budget' = MaxBatchedTokens /\ plan' = <<>> BY <1>2 DEF EndAdmission
  <2>2. Fed(plan') = 0 BY <2>1, FedEmpty
  <2>3. Fed(plan') \in Nat /\ budget' + Fed(plan') = MaxBatchedTokens
    BY <2>1, <2>2, ConfigAssumption
  <2> QED BY <2>3 DEF Spent, Fed
<1>3. ASSUME \/ pc' \notin {"plan", "flight"}
             \/ pc' = "flight" /\ outcome' # "pending"
      PROVE  Spent'
  BY <1>3 DEF Spent
<1>4. ASSUME pc = "plan", UNCHANGED <<plan, budget>> PROVE Spent'
  <2>1. Fed(plan)' = Fed(plan) BY <1>4 DEF Fed
  <2> QED BY <1>4, <2>1 DEF Spent
<1>5. ASSUME UNCHANGED <<pc, plan, budget, outcome>> PROVE Spent'
  <2>1. Fed(plan)' = Fed(plan) BY <1>5 DEF Fed
  <2> QED BY <1>5, <2>1 DEF Spent
<1>6. CASE EndPlan
  BY <1>4, <1>6 DEF EndPlan
<1>7. CASE WorkerReturns BY <1>3, <1>7 DEF WorkerReturns
<1>8. CASE ReapOverdue \/ ReapStalled \/ DrainActiveStreams \/ Admit \/ AdmissionRefused
  <2>1. pc' \in {"reap", "admit"}
    BY <1>8 DEF ReapOverdue, BaseReapOverdue, ReapStalled, BaseReapStalled, DrainActiveStreams,
                Admit, AdmissionRefused
  <2> QED BY <1>3, <2>1
<1>9. CASE \/ Land \/ SettleCancelled \/ SettleToken \/ SettleOmitted \/ SettleChunk \/ SettleError
           \/ EndSettle
  <2>1. pc' \in {"settle", "sleep"}
    BY <1>9 DEF Land, Settling, SettleCancelled, SettleToken, SettleOmitted, SettleChunk,
                SettleError, EndSettle
  <2> QED BY <1>3, <2>1
<1>10. CASE Preempt \/ RefuseForCapacity \/ Wake
  <2>1. pc' \in {"sleep", "reap", "stopped"}
    BY <1>10 DEF Preempt, RefuseForCapacity, DropPlan, Wake, BaseWake
  <2> QED BY <1>3, <2>1
<1>11. CASE (\E r \in Reqs : Environment(r)) \/ Stop \/ Halted \/ UNCHANGED vars
  <2>1. UNCHANGED <<pc, plan, budget, outcome>>
    BY <1>11
    DEF Environment, Submit, BaseSubmit, Cancel, BaseCancel, Consume, BaseConsume, QueueTimeout,
        BaseQueueTimeout, StallTimeout, BaseStallTimeout, Stop, BaseStop, Halted, vars, batch
  <2> QED BY <1>5, <2>1
<1> QED BY <1>1, <1>2, <1>6, <1>7, <1>8, <1>9, <1>10, <1>11 DEF Next, Loop

(* A plan in flight keeps to the budget of max_batched_tokens and feeds    *)
(* each of its requests exactly what comes next, sampling when that is the *)
(* last known token, for any requests, chunk size, budget and policy, and  *)
(* whatever was cancelled, preempted or refused before.                    *)
THEOREM PlansAreSound == Spec => []PlanSound
<1>1. Init => Spent BY DEF Init, BaseInit, Spent
<1>2. Control /\ Spent /\ [Next]_vars => Spent' BY SpentStep
<1>3. Control /\ Feeding /\ Spent => PlanSound
  <2> SUFFICES ASSUME Control, Feeding, Spent, pc = "flight", outcome = "pending"
               PROVE  /\ Fed(plan) <= MaxBatchedTokens
                      /\ \A i \in DOMAIN plan : LET r == plan[i].req IN
                           /\ plan[i].start = fed[r] /\ fed[r] < plan[i].end
                           /\ plan[i].end <= Known(r)
                           /\ plan[i].sample <=> plan[i].end = Known(r)
    BY DEF PlanSound
  <2>1. Fed(plan) <= MaxBatchedTokens
    <3>1. /\ Fed(plan) \in Nat /\ budget + Fed(plan) = MaxBatchedTokens /\ budget \in Nat
          /\ MaxBatchedTokens \in Nat
      BY ConfigAssumption DEF Spent, Control, ControlType
    <3> QED BY <3>1
  <2>2. \A i \in DOMAIN plan : ItemSound(plan[i]) BY DEF Feeding, Items
  <2> QED BY <2>1, <2>2 DEF ItemSound
<1> QED BY <1>1, <1>2, <1>3, FeedingInvariant, PTL DEF Spec

-----------------------------------------------------------------------------
(* Streams: a request with work in the plan has nothing pending, so that   *)
(* its token goes out behind an empty backlog.                             *)
CaughtUp == \A r \in Planned : pending[r] = <<>>

Streams == Streaming /\ CaughtUp

\* The plan is about requests.
LEMMA PlannedReqs == ASSUME Control PROVE Planned \subseteq Reqs
<1>1. \A i \in DOMAIN plan : plan[i] \in Item
  BY LenProperties, ElementOfSeq DEF Control, ControlType
<1> QED BY <1>1 DEF Planned, Item

(* A step that leaves the streams alone, and settles or drops items.       *)
LEMMA StreamsKept ==
  ASSUME Streams, UNCHANGED streams, UNCHANGED <<gen, resolved>>,
         \A r \in Planned' : pending[r] = <<>>
  PROVE  Streams'
<1>1. Streaming' BY Untouched DEF Streams
<1> QED BY <1>1 DEF Streams, CaughtUp, streams

(* What is planned of a request that is not finalized in this step.        *)
LEMMA Remains ==
  ASSUME Control, Control', NEW r, ToSet(active') \subseteq ToSet(active) \ {r},
         Planned' \subseteq Planned \/ plan' = <<>>
  PROVE  Planned' \subseteq Planned /\ r \notin Planned'
<1>1. plan' = <<>> => Planned' = {}
  BY DEF Planned
<1> QED BY <1>1 DEF Control, InFlightPinned

(* A finalized request has no work left in the plan.                       *)
LEMMA FinalizedUnplanned ==
  ASSUME Control, Control', Streams, NEW r \in Reqs, NEW events, Finalize(r, events),
         Planned' \subseteq Planned \/ plan' = <<>>
  PROVE  \A q \in Planned' : q \in Reqs /\ q # r /\ pending[q] = <<>>
<1>1. active \in Seq(Reqs) /\ Distinct(active) /\ active' = Without(active, r)
  BY DEF Control, ControlType, Residence, Finalize
<1>2. ToSet(active') = ToSet(active) \ {r} BY <1>1, WithoutMembers
<1>3. Planned' \subseteq Planned /\ r \notin Planned' BY <1>2, Remains
<1> QED BY <1>3, PlannedReqs DEF Streams, CaughtUp

(* A request finalized without events, ...                                 *)
LEMMA EndedStreams ==
  ASSUME Control, Control', Streams, NEW r \in Reqs, r \notin resolved,
         Finalize(r, <<>>), gen' = gen, Planned' \subseteq Planned \/ plan' = <<>>
  PROVE  Streams'
<1> DEFINE Q == Planned'
<1>1. \A q \in Q : q \in Reqs /\ q # r /\ pending[q] = <<>> BY FinalizedUnplanned
<1> HIDE DEF Q
<1>2. Streaming /\ gen \in [Reqs -> Nat] BY DEF Streams, Control, ControlType
<1>3. Streaming' /\ \A q \in Q : pending'[q] = <<>> BY <1>1, <1>2, FinalizedEmpty
<1> QED BY <1>3 DEF Streams, CaughtUp, Q

(* ... and one with its last token.                                        *)
LEMMA CompletedStreams ==
  ASSUME Control, Control', Streams, NEW r \in Reqs, r \notin resolved,
         Finalize(r, <<gen[r] + 1>>), gen' = [gen EXCEPT ![r] = gen[r] + 1],
         pending[r] = <<>>, Planned' \subseteq Planned
  PROVE  Streams'
<1> DEFINE Q == Planned'
<1>1. \A q \in Q : q \in Reqs /\ q # r /\ pending[q] = <<>> BY FinalizedUnplanned
<1> HIDE DEF Q
<1>2. Streaming /\ gen \in [Reqs -> Nat] BY DEF Streams, Control, ControlType
<1>3. Streaming' /\ \A q \in Q : pending'[q] = <<>> BY <1>1, <1>2, FinalizedToken
<1> QED BY <1>3 DEF Streams, CaughtUp, Q

(* A token that is not the last.                                           *)
LEMMA TokenStreams ==
  ASSUME Control, Streams, NEW r \in Reqs, r \notin resolved, resolved' = resolved,
         Deliver({r}, <<gen[r] + 1>>), gen' = [gen EXCEPT ![r] = gen[r] + 1],
         pending[r] = <<>>, Planned' \subseteq Planned \ {r}
  PROVE  Streams'
<1> DEFINE Q == Planned'
<1>1. \A q \in Q : q \in Reqs /\ q # r /\ pending[q] = <<>>
  BY PlannedReqs DEF Streams, CaughtUp
<1> HIDE DEF Q
<1>2. Streaming /\ gen \in [Reqs -> Nat] BY DEF Streams, Control, ControlType
<1>3. Streaming' /\ \A q \in Q : pending'[q] = <<>> BY <1>1, <1>2, EmittedStreams
<1> QED BY <1>3 DEF Streams, CaughtUp, Q

(* The backlogs are delivered before anything is planned.                  *)
LEMMA BacklogStreams ==
  ASSUME Control, Streams, DrainActiveStreams
  PROVE  Streams'
<1> DEFINE S == {r \in ToSet(active) : pending[r] # <<>>}
<1>1. Deliver(S, <<>>) /\ UNCHANGED <<gen, resolved>> /\ plan' = plan /\ plan = <<>>
  BY DEF DrainActiveStreams, request, batch, Control, PlanPlace
<1> HIDE DEF S
<1>2. Planned' = {} BY <1>1 DEF Planned
<1>3. Streaming /\ gen \in [Reqs -> Nat] BY DEF Streams, Control, ControlType
<1> DEFINE Q == Planned'
<1>4. \A q \in Q : q \in Reqs /\ pending[q] = <<>> BY <1>2
<1> HIDE DEF Q
<1>5. Streaming' BY <1>1, <1>3, <1>4, DrainedStreams
<1> QED BY <1>2, <1>5 DEF Streams, CaughtUp

(* Streams and the plan while requests are reaped, admitted and planned.   *)
LEMMA GatherStreams ==
  ASSUME Control, Control', Streams,
         \/ ReapOverdue \/ ReapStalled \/ DrainActiveStreams
         \/ Admit \/ AdmissionRefused \/ EndAdmission \/ PlanItem \/ EndPlan
  PROVE  Streams'
<1>1. ASSUME plan' = plan \/ plan' = <<>> PROVE Planned' \subseteq Planned
  BY <1>1 DEF Planned
<1>2. ToSet(waiting) \cup ToSet(active) \subseteq Reqs
  <2>1. waiting \in Seq(Reqs) /\ active \in Seq(Reqs)
    BY DEF Control, ControlType
  <2>2. ASSUME NEW s \in Seq(Reqs) PROVE ToSet(s) \subseteq Reqs
    BY LenProperties, ElementOfSeq DEF ToSet
  <2> QED BY <2>1, <2>2
<1>3. ASSUME NEW r \in ToSet(waiting) \cup ToSet(active), NEW t, End(r, t, <<>>),
             gen' = gen, UNCHANGED batch
      PROVE  Streams'
  <2>1. r \in Reqs
    BY <1>2, <1>3
  <2>2. r \notin resolved
    BY <1>3, <2>1 DEF Control, Residence, is_terminal, Terminal
  <2>3. Planned' \subseteq Planned
    BY <1>1, <1>3 DEF batch
  <2> QED BY <1>3, <2>1, <2>2, <2>3, EndedStreams DEF End
<1>4. CASE ReapOverdue
  <2>1. gen' = gen /\ UNCHANGED batch /\ \E r \in ToSet(waiting) : End(r, "TIMED_OUT", <<>>)
    BY <1>4 DEF ReapOverdue, BaseReapOverdue, Overdue, batch
  <2> QED BY <1>3, <2>1
<1>5. CASE ReapStalled
  <2>1. gen' = gen /\ UNCHANGED batch /\ \E r \in ToSet(active) : End(r, "CANCELLED", <<>>)
    BY <1>5 DEF ReapStalled, BaseReapStalled, SlowConsumers, batch
  <2> QED BY <1>3, <2>1
<1>6. CASE DrainActiveStreams
  BY <1>6, BacklogStreams
<1>7. CASE AdmissionRefused
  <2>1. gen' = gen /\ UNCHANGED batch /\ waiting # <<>> /\ End(Head(waiting), "FAILED", <<>>)
    BY <1>7 DEF AdmissionRefused, MayAdmit
  <2>2. Head(waiting) \in ToSet(waiting)
    BY <2>1, TailMembers DEF Control, ControlType, Residence
  <2> QED BY <1>3, <2>1, <2>2
<1>8. CASE Admit \/ EndAdmission \/ EndPlan
  <2>1. UNCHANGED streams /\ UNCHANGED <<gen, resolved>> /\ (plan' = plan \/ plan' = <<>>)
    BY <1>8 DEF Admit, EndAdmission, EndPlan, request, batch
  <2>2. \A q \in Planned' : pending[q] = <<>>
    BY <1>1, <2>1 DEF Streams, CaughtUp
  <2> QED BY <2>1, <2>2, StreamsKept
<1>9. CASE PlanItem
  <2>1. UNCHANGED streams /\ UNCHANGED <<gen, resolved>>
    BY <1>9 DEF PlanItem, request
  <2>2. PICK r \in Candidates :
          plan' = Append(plan, [req |-> r, start |-> fed[r],
            end |-> fed[r] + Lesser(Lesser(Remaining(r), IF r \in Decodes THEN 1 ELSE PrefillChunk), budget),
            sample |-> fed[r] + Lesser(Lesser(Remaining(r), IF r \in Decodes THEN 1 ELSE PrefillChunk), budget)
                         = Known(r)])
    BY <1>9 DEF PlanItem
  <2>3. pending[r] = <<>>
    BY DEF Candidates, Decodes, Eligible
  <2>4. Planned' \subseteq Planned \cup {r}
    <3>1. plan \in Seq(Item)
      BY DEF Control, ControlType
    <3> DEFINE item == [req |-> r, start |-> fed[r],
            end |-> fed[r] + Lesser(Lesser(Remaining(r), IF r \in Decodes THEN 1 ELSE PrefillChunk), budget),
            sample |-> fed[r] + Lesser(Lesser(Remaining(r), IF r \in Decodes THEN 1 ELSE PrefillChunk), budget)
                         = Known(r)]
    <3>2. item.req = r /\ plan' = Append(plan, item)
      BY <2>2
    <3> HIDE DEF item
    <3>3. /\ DOMAIN plan' = 1 .. Len(plan) + 1 /\ DOMAIN plan = 1 .. Len(plan) /\ Len(plan) \in Nat
          /\ \A i \in 1 .. Len(plan) : plan'[i] = plan[i]
          /\ plan'[Len(plan) + 1] = item
      BY <3>1, <3>2
    <3>4. \A i \in 1 .. Len(plan) + 1 : i \in 1 .. Len(plan) \/ i = Len(plan) + 1
      BY <3>3
    <3> QED BY <3>2, <3>3, <3>4 DEF Planned
  <2>5. \A q \in Planned' : pending[q] = <<>>
    BY <2>3, <2>4 DEF Streams, CaughtUp
  <2> QED BY <2>1, <2>5, StreamsKept
<1> QED BY <1>4, <1>5, <1>6, <1>7, <1>8, <1>9

(* Streams and the plan from its flight to the end of the iteration.       *)
LEMMA ReturnStreams ==
  ASSUME Control, Control', Streams,
         \/ WorkerReturns \/ Land \/ EndSettle \/ Preempt \/ RefuseForCapacity \/ Wake
         \/ SettleCancelled \/ SettleToken \/ SettleOmitted \/ SettleChunk \/ SettleError
  PROVE  Streams'
<1>1. ASSUME plan' = plan \/ plan' = <<>> PROVE Planned' \subseteq Planned
  BY <1>1 DEF Planned
<1> DEFINE r == Head(plan).req
<1>2. ASSUME plan # <<>>, plan' = Tail(plan)
      PROVE  /\ r \in Reqs /\ r \in Planned /\ r \notin resolved /\ pending[r] = <<>>
             /\ Planned' \subseteq Planned \ {r}
  <2>1. plan \in Seq(Item) /\ OncePer(plan)
    BY PinnedSets DEF Control, ControlType
  <2>2. r \in ReqsOf(plan) /\ ReqsOf(Tail(plan)) = ReqsOf(plan) \ {r}
    BY <1>2, <2>1, PlanTail
  <2>3. r \in Planned /\ Planned' \subseteq Planned \ {r}
    BY <1>2, <2>2 DEF Planned, ReqsOf
  <2>4. r \in Reqs /\ r \notin resolved
    BY <1>2, HeadActive
  <2> QED BY <2>3, <2>4 DEF Streams, CaughtUp
<1> HIDE DEF r
<1>3. CASE WorkerReturns \/ Land \/ EndSettle \/ Preempt \/ Wake
  <2>1. UNCHANGED streams /\ UNCHANGED <<gen, resolved>> /\ (plan' = plan \/ plan' = <<>>)
    BY <1>3 DEF WorkerReturns, Land, EndSettle, Preempt, Wake, BaseWake, DropPlan, request, batch
  <2>2. \A q \in Planned' : pending[q] = <<>>
    BY <1>1, <2>1 DEF Streams, CaughtUp
  <2> QED BY <2>1, <2>2, StreamsKept
<1>4. CASE SettleChunk
  <2>1. plan # <<>> /\ plan' = Tail(plan) /\ UNCHANGED streams /\ UNCHANGED <<gen, resolved>>
    BY <1>4 DEF SettleChunk, Settling, NextItem
  <2>2. \A q \in Planned' : pending[q] = <<>>
    BY <1>2, <2>1 DEF Streams, CaughtUp
  <2> QED BY <2>1, <2>2, StreamsKept
<1>5. CASE SettleCancelled \/ SettleOmitted \/ SettleError
  <2>1. plan # <<>> /\ plan' = Tail(plan) /\ gen' = gen /\ Finalize(r, <<>>)
    BY <1>5 DEF SettleCancelled, SettleOmitted, SettleError, Settling, NextItem, End, r
  <2> QED BY <1>2, <2>1, EndedStreams
<1>6. CASE SettleToken
  <2>1. /\ plan # <<>> /\ plan' = Tail(plan)
        /\ gen' = [gen EXCEPT ![r] = gen[r] + 1]
        /\ \/ Finalize(r, <<gen[r] + 1>>)
           \/ Deliver({r}, <<gen[r] + 1>>) /\ resolved' = resolved
    BY <1>6 DEF SettleToken, Settling, NextItem, End, r
  <2>2. CASE Finalize(r, <<gen[r] + 1>>)
    BY <1>2, <2>1, <2>2, CompletedStreams
  <2>3. CASE Deliver({r}, <<gen[r] + 1>>) /\ resolved' = resolved
    BY <1>2, <2>1, <2>3, TokenStreams
  <2> QED BY <2>1, <2>2, <2>3
<1>7. CASE RefuseForCapacity
  <2>1. plan' = <<>> /\ gen' = gen
    BY <1>7 DEF RefuseForCapacity, DropPlan
  <2>2. CASE \E q \in Runnable : End(q, "FAILED", <<>>)
    <3>1. PICK q \in Runnable : Finalize(q, <<>>)
      BY <2>2 DEF End
    <3>2. q \in ToSet(active) /\ q \in Reqs
      BY LenProperties, ElementOfSeq DEF Runnable, ToSet, Control, ControlType
    <3>3. q \notin resolved
      BY <3>2 DEF Control, Residence
    <3> QED BY <2>1, <3>1, <3>2, <3>3, EndedStreams
  <2>3. CASE UNCHANGED <<resolved, streams>>
    <3>1. \A q \in Planned' : pending[q] = <<>>
      BY <1>1, <2>1 DEF Streams, CaughtUp
    <3> QED BY <2>1, <2>3, <3>1, StreamsKept
  <2> QED BY <1>7, <2>2, <2>3 DEF RefuseForCapacity
<1> QED BY <1>3, <1>4, <1>5, <1>6, <1>7

(* The other tasks of the event loop, and time.                            *)
LEMMA EnvironmentStreams ==
  ASSUME Control, Control', Streams, NEW r \in Reqs, Environment(r)
  PROVE  Streams'
<1>1. CASE Consume(r)
  <2>1. BaseConsume(r) /\ plan' = plan BY <1>1 DEF Consume, batch
  <2>2. Streaming' /\ pending' = pending BY <2>1, ConsumedStreams DEF Streams, BaseConsume
  <2> QED BY <2>1, <2>2 DEF Streams, CaughtUp, Planned
<1>2. CASE Submit(r) \/ QueueTimeout(r)
  <2>1. UNCHANGED streams /\ UNCHANGED <<gen, resolved>> /\ plan' = plan
    BY <1>2 DEF Submit, BaseSubmit, QueueTimeout, BaseQueueTimeout, request, batch
  <2> QED BY <2>1, StreamsKept DEF Streams, CaughtUp, Planned
<1>3. CASE StallTimeout(r)
  <2>1. BaseStallTimeout(r) /\ plan' = plan BY <1>3 DEF StallTimeout, batch
  <2>2. Streaming' /\ pending' = pending BY <2>1, StalledStreams DEF Streams, BaseStallTimeout
  <2> QED BY <2>1, <2>2 DEF Streams, CaughtUp, Planned
<1>4. CASE Cancel(r)
  <2>1. gen' = gen /\ plan' = plan /\ r \notin resolved
    BY <1>4 DEF Cancel, BaseCancel, batch, Control, Residence
  <2>2. Planned' \subseteq Planned
    BY <2>1 DEF Planned
  <2>3. CASE r \in Inflight
    <3>1. UNCHANGED streams /\ resolved' = resolved
      BY <1>4, <2>3 DEF Cancel, BaseCancel
    <3> QED BY <2>1, <2>2, <3>1, StreamsKept DEF Streams, CaughtUp
  <2>4. CASE r \notin Inflight
    <3>1. Finalize(r, <<>>)
      BY <1>4, <2>4 DEF Cancel, BaseCancel, End
    <3> QED BY <2>1, <2>2, <3>1, EndedStreams
  <2> QED BY <2>3, <2>4
<1> QED BY <1>1, <1>2, <1>3, <1>4 DEF Environment

(* Before anything is published.                                           *)
LEMMA StreamsInit == ASSUME Init PROVE Streams
<1>1. Streaming /\ plan = <<>> BY StreamsStart DEF Init
<1> QED BY <1>1 DEF Streams, CaughtUp, Planned

(* What the streams hold is kept by every step.                            *)
LEMMA StreamsStep == ASSUME Control, Streams, [Next]_vars PROVE Streams'
<1>1. Control'
  BY ControlStep
<1>2. CASE Stop \/ Halted \/ UNCHANGED vars
  <2>1. UNCHANGED streams /\ UNCHANGED <<gen, resolved>> /\ plan' = plan
    BY <1>2 DEF Stop, BaseStop, Halted, vars, request, batch
  <2> QED BY <2>1, StreamsKept DEF Streams, CaughtUp, Planned
<1>3. CASE Loop \/ WorkerReturns
  BY <1>1, <1>3, GatherStreams, ReturnStreams DEF Loop
<1>4. CASE \E r \in Reqs : Environment(r)
  BY <1>1, <1>4, EnvironmentStreams
<1> QED BY <1>2, <1>3, <1>4 DEF Next

(* What the streams hold is an invariant, with Control.                    *)
THEOREM StreamsInvariant == Spec => [](Control /\ Streams)
<1>1. Init => Control /\ Streams
  BY ControlInit, StreamsInit
<1>2. Control /\ Streams /\ [Next]_vars => Control' /\ Streams'
  BY ControlStep, StreamsStep
<1> QED BY <1>1, <1>2, PTL DEF Spec

(* Every variable keeps its type.                                          *)
THEOREM TypeCorrect == Spec => []TypeOK
<1>1. Control /\ Streams => TypeOK
  BY DEF Control, ControlType, Streams, Streaming, StreamType, TypeOK, BaseType
<1> QED BY <1>1, StreamsInvariant, PTL

(* No consumer ever loses, repeats or reorders a token, and STOP stands    *)
(* behind the last one exactly when the request's future is resolved.      *)
THEOREM StreamIsExact == Spec => []StreamExact
<1>1. Streams => StreamExact
  BY DEF Streams, Streaming
<1> QED BY <1>1, StreamsInvariant, PTL

(* A slow consumer is owed at most one token beyond its queue, and STOP.   *)
THEOREM BacklogIsBounded == Spec => []BacklogBounded
<1>1. Streams => BacklogBounded
  BY DEF Streams, Streaming
<1> QED BY <1>1, StreamsInvariant, PTL

-----------------------------------------------------------------------------
\* The refinement of RequestLifecycle.

\* A request in the active list that has not ended is being computed.
LEMMA ActiveComputed ==
  ASSUME Control, NEW r, r \in ToSet(active)
  PROVE  r \in Reqs /\ r \notin resolved /\ (~is_terminal(r) => state[r] \in Computed)
<1>1. r \in Reqs BY LenProperties, ElementOfSeq DEF ToSet, Control, ControlType
<1> QED BY <1>1 DEF Control, ControlType, Residence, is_terminal, Terminal, States, Computed

\* So has every other one that has not ended a place in the queue.
LEMMA LiveUnresolved ==
  ASSUME Control, NEW r \in Reqs, ~is_terminal(r)
  PROVE  r \notin resolved /\ state[r] \in {"new", "WAITING"} \cup Computed
BY DEF Control, ControlType, Residence, is_terminal, Terminal, States, Computed

\* The loop's own steps.
LEMMA LoopChanges ==
  ASSUME Control, Feeding, OnlyMarked, Loop
  PROVE  Quiet \/ \E r \in Reqs : Change(r)
<1>1. CASE ReapOverdue
  <2>1. PICK r \in Overdue : End(r, "TIMED_OUT", <<>>) BY <1>1 DEF ReapOverdue, BaseReapOverdue
  <2>2. r \in ToSet(waiting) BY DEF Overdue
  <2>3. r \in Reqs BY <2>2, LenProperties, ElementOfSeq DEF ToSet, Control, ControlType
  <2>4. state[r] = "WAITING" /\ r \notin resolved
    BY <2>2, <2>3 DEF Control, Residence, is_terminal, Terminal
  <2>5. gen' = gen BY <1>1 DEF ReapOverdue, BaseReapOverdue
  <2>6. Ends(r) BY <2>1, <2>4, <2>5 DEF Ends, End, Finalize
  <2> QED BY <2>3, <2>6 DEF Change
<1>2. CASE ReapStalled
  <2>1. PICK r \in SlowConsumers : End(r, "CANCELLED", <<>>) BY <1>2 DEF ReapStalled, BaseReapStalled
  <2>2. r \in Reqs /\ r \notin resolved /\ state[r] \in Computed
    BY ActiveComputed DEF SlowConsumers
  <2>3. gen' = gen BY <1>2 DEF ReapStalled, BaseReapStalled
  <2>4. Ends(r) BY <2>1, <2>2, <2>3 DEF Ends, End, Finalize
  <2> QED BY <2>2, <2>4 DEF Change
<1>3. CASE Admit \/ AdmissionRefused
  <2>0. PICK r : r = Head(waiting) OBVIOUS
  <2>1. waiting # <<>> /\ gen' = gen BY <1>3 DEF Admit, AdmissionRefused, MayAdmit
  <2>2. r \in Reqs /\ state[r] = "WAITING" /\ r \notin resolved
    BY <2>0, <2>1, HeadWaits DEF Control, Residence, is_terminal, Terminal
  <2>3. \/ state' = [state EXCEPT ![r] = "PREFILL"] /\ resolved' = resolved
        \/ End(r, "FAILED", <<>>)
    BY <1>3, <2>0 DEF Admit, AdmissionRefused
  <2>4. Shifts(r) \/ Ends(r)
    BY <2>1, <2>2, <2>3 DEF Shifts, Moves, States, Ends, End, Finalize
  <2> QED BY <2>2, <2>4 DEF Change
<1>4. CASE SettleCancelled \/ SettleToken \/ SettleOmitted \/ SettleChunk \/ SettleError
  <2>0. PICK head, r : head = Head(plan) /\ r = Head(plan).req OBVIOUS
  <2>1. plan # <<>>
    BY <1>4 DEF SettleCancelled, SettleToken, SettleOmitted, SettleChunk, SettleError, Settling
  <2>2. /\ r \in Reqs /\ r \notin resolved /\ head \in Items
        /\ ~is_terminal(r) => state[r] \in Computed
    BY <2>0, <2>1, HeadActive, ActiveComputed, RestOfPlan
  <2>3. CASE SettleCancelled
    <3>1. is_terminal(r) /\ Finalize(r, <<>>) /\ UNCHANGED <<state, gen>>
      BY <2>0, <2>3 DEF SettleCancelled
    <3>2. ClosesMarked(r) BY <2>2, <3>1 DEF OnlyMarked, ClosesMarked, Finalize
    <3> QED BY <2>2, <3>2 DEF Change
  <2>4. CASE SettleToken
    <3>1. /\ ~is_terminal(r) /\ gen' = [gen EXCEPT ![r] = gen[r] + 1]
          /\ \/ End(r, "COMPLETED", <<gen[r] + 1>>)
             \/ state' = [state EXCEPT ![r] = "DECODING"] /\ UNCHANGED resolved
      BY <2>0, <2>4 DEF SettleToken
    <3>2. Completes(r) \/ Emits(r) BY <2>2, <3>1 DEF Completes, Emits, End, Finalize
    <3> QED BY <2>2, <3>2 DEF Change
  <2>5. CASE SettleOmitted \/ SettleError
    <3>1. ~is_terminal(r) /\ End(r, "FAILED", <<>>) /\ gen' = gen
      BY <2>0, <2>5 DEF SettleOmitted, SettleError
    <3>2. Ends(r) BY <2>2, <3>1 DEF Ends, End, Finalize
    <3> QED BY <2>2, <3>2 DEF Change
  <2>6. CASE SettleChunk
    <3>1. /\ ~is_terminal(r) /\ ~head.sample /\ UNCHANGED <<gen, resolved>>
          /\ state' = [state EXCEPT ![r] = "PREFILL"]
      BY <2>0, <2>6 DEF SettleChunk
    <3>2. state[r] = "PREFILL"
      BY <2>0, <2>2, <3>1 DEF Feeding, ItemSound, Computed
    <3>3. state' = state BY <3>1, <3>2 DEF Control, ControlType
    <3> QED BY <3>1, <3>3 DEF Quiet
  <2> QED BY <1>4, <2>3, <2>4, <2>5, <2>6
<1>5. CASE Preempt
  <2>1. PICK v \in Runnable : state' = [state EXCEPT ![v] = "WAITING"] /\ UNCHANGED <<gen, resolved>>
    BY <1>5 DEF Preempt
  <2>2. v \in Reqs /\ state[v] \in Computed BY ActiveComputed DEF Runnable
  <2>3. Shifts(v) BY <2>1, <2>2 DEF Shifts, Moves, States
  <2> QED BY <2>2, <2>3 DEF Change
<1>6. CASE RefuseForCapacity
  <2>1. gen' = gen /\ ((\E r \in Runnable : End(r, "FAILED", <<>>)) \/ UNCHANGED <<state, resolved>>)
    BY <1>6 DEF RefuseForCapacity
  <2>2. ASSUME NEW r \in Runnable, End(r, "FAILED", <<>>) PROVE r \in Reqs /\ Ends(r)
    <3>1. r \in Reqs /\ r \notin resolved /\ state[r] \in Computed BY ActiveComputed DEF Runnable
    <3> QED BY <2>1, <2>2, <3>1 DEF Ends, End, Finalize
  <2> QED BY <2>1, <2>2 DEF Change, Quiet
<1>7. CASE DrainActiveStreams \/ EndAdmission \/ PlanItem \/ EndPlan \/ Land \/ EndSettle \/ Wake
  BY <1>7 DEF DrainActiveStreams, EndAdmission, PlanItem, EndPlan, Land, EndSettle, Wake, BaseWake,
              request, Quiet
<1> QED BY <1>1, <1>2, <1>3, <1>4, <1>5, <1>6, <1>7 DEF Loop

\* The other tasks' steps.
LEMMA StepChanges ==
  ASSUME Control, Feeding, OnlyMarked, [Next]_vars
  PROVE  Quiet \/ \E r \in Reqs : Change(r)
<1>1. CASE \E r \in Reqs : Environment(r)
  <2>1. PICK r \in Reqs : Environment(r) BY <1>1
  <2>2. CASE Submit(r)
    <3>1. /\ state[r] = "new" /\ state' = [state EXCEPT ![r] = "WAITING"] /\ UNCHANGED <<gen, resolved>>
      BY <2>2 DEF Submit, BaseSubmit
    <3>2. Shifts(r) BY <3>1 DEF Shifts, Moves, States
    <3> QED BY <3>2 DEF Change
  <2>3. CASE Cancel(r)
    <3>1. /\ state[r] # "new" /\ ~is_terminal(r) /\ gen' = gen
          /\ \/ /\ r \in Inflight /\ resolved' = resolved
                /\ state' = [state EXCEPT ![r] = "CANCELLED"]
             \/ End(r, "CANCELLED", <<>>)
      BY <2>3 DEF Cancel, BaseCancel
    <3>2. r \notin resolved /\ state[r] \in {"WAITING"} \cup Computed BY <3>1, LiveUnresolved
    <3>3. r \in Inflight => state[r] \in Computed
      BY <3>1, ActiveComputed DEF Inflight, Control, InFlightPinned
    <3>4. Shifts(r) \/ Ends(r)
      BY <3>1, <3>2, <3>3 DEF Shifts, Moves, States, Terminal, Ends, End, Finalize
    <3> QED BY <3>4 DEF Change
  <2>4. CASE Consume(r) \/ QueueTimeout(r) \/ StallTimeout(r)
    BY <2>4 DEF Consume, BaseConsume, QueueTimeout, BaseQueueTimeout, StallTimeout, BaseStallTimeout,
                request, Quiet
  <2> QED BY <2>1, <2>2, <2>3, <2>4 DEF Environment
<1>2. CASE WorkerReturns \/ Stop \/ Halted \/ UNCHANGED vars
  BY <1>2 DEF WorkerReturns, Stop, BaseStop, Halted, vars, request, Quiet
<1> QED BY <1>1, <1>2, LoopChanges DEF Next

(* The packed loop keeps the promise about every request, for any number   *)
(* of requests and any configuration: whatever it does with batches,       *)
(* queues and preemption, a client sees the states and the stream of       *)
(* RequestLifecycle (scheduler.py:1-14).                                   *)
THEOREM LoopImplementsLifecycle == Spec => LifecycleSpec
<1> DEFINE Inv == Control /\ Feeding /\ Streams /\ OnlyMarked
<1>1. Init => Inv /\ Lifecycle!Init
  BY ControlInit, FeedingInit, StreamsInit, LifecycleStarts DEF Init
<1>2. Inv /\ [Next]_vars => Inv' /\ [Lifecycle!Next]_(Lifecycle!vars)
  <2> SUFFICES ASSUME Inv, [Next]_vars PROVE Inv' /\ [Lifecycle!Next]_(Lifecycle!vars) OBVIOUS
  <2>1. Control' /\ Feeding' /\ Streams' BY ControlStep, FeedingStep, StreamsStep
  <2>2. gen \in [Reqs -> Nat] /\ state \in [Reqs -> States] /\ Streaming /\ Streaming'
    BY <2>1 DEF Control, ControlType, Streams
  <2>3. Quiet \/ \E r \in Reqs : Change(r) BY StepChanges
  <2>4. OnlyMarked' BY <2>2, <2>3, MarkedKept
  <2>5. [Lifecycle!Next]_(Lifecycle!vars) BY <2>2, <2>3, ChangeIsStep, QuietIsStutter
  <2> QED BY <2>1, <2>4, <2>5
<1> QED BY <1>1, <1>2, PTL DEF Spec, LifecycleSpec, Lifecycle!Spec
=============================================================================
