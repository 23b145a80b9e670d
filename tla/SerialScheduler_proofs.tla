------------------------ MODULE SerialScheduler_proofs ------------------------
(***************************************************************************)
(* Proofs about the serial scheduler loop, for every set of requests, every*)
(* prompt and output length, every limit of the configuration and every    *)
(* runner.                                                                 *)
(***************************************************************************)
EXTENDS SerialScheduler, Scheduler_proofs

(* Types, and when a request is in the worker thread: one, while the task  *)
(* awaits it.                                                              *)
FlightPlace ==
  /\ pc \in {"reap", "round", "admit", "flight", "sleep", "stopped"}
  /\ outcome \in {"none", "pending", "ok", "error"}
  /\ fed \in [Reqs -> Nat] /\ gen \in [Reqs -> Nat]
  /\ round \in Seq(Reqs)
  /\ current = {} \/ \E r \in Reqs : current = {r}
  /\ pc # "flight" => current = {} /\ outcome = "none"

(* What is left of the copy has been admitted: the queue never gets a      *)
(* request back.                                                           *)
RoundAdmitted == \A r \in ToSet(round) : state[r] \notin {"new", "WAITING"}

(* What a request has been fed against what it has generated, whatever was *)
(* raised or cancelled on the way: the two are equal but for the request   *)
(* whose step is over, and for those that have failed.                     *)
FedGenerated ==
  \A r \in Reqs :
    /\ r \in current /\ outcome = "pending" => fed[r] = gen[r]
    /\ r \in current /\ outcome = "ok" => fed[r] = gen[r] + 1
    /\ r \notin current /\ ~is_terminal(r) => fed[r] = gen[r]

(* A request in a terminal state is resolved, or will be when its step is  *)
(* back.                                                                   *)
EndsResolved == \A r \in Reqs : is_terminal(r) => r \in resolved \cup current

SerialInv ==
  Places /\ FlightPlace /\ InFlightPinned /\ RoundAdmitted /\ FedGenerated /\ EndsResolved

-----------------------------------------------------------------------------
\* Helpers.

\* What is behind the head of a sequence is in the sequence.
LEMMA TailSubset ==
  ASSUME NEW S, NEW s \in Seq(S), s # <<>>
  PROVE  /\ Head(s) \in S /\ Head(s) \in ToSet(s)
         /\ Tail(s) \in Seq(S) /\ ToSet(Tail(s)) \subseteq ToSet(s)
<1> DEFINE t == Tail(s)
<1>1. /\ Head(s) \in S /\ t \in Seq(S) /\ Len(t) = Len(s) - 1
      /\ \A i \in 1 .. Len(t) : t[i] = s[i + 1]
  BY HeadTailProperties
<1>2. DOMAIN s = 1 .. Len(s) /\ DOMAIN t = 1 .. Len(t) /\ Len(s) \in Nat
  BY <1>1, LenProperties
<1> HIDE DEF t
<1>3. \A i \in 1 .. Len(t) : i + 1 \in 1 .. Len(s) BY <1>1, <1>2
<1>4. ToSet(t) \subseteq ToSet(s) BY <1>1, <1>2, <1>3 DEF ToSet
<1> QED BY <1>1, <1>4, TailMembers DEF t

\* The members of a list of requests are requests.
LEMMA ActiveReqs == ASSUME Places PROVE ToSet(active) \subseteq Reqs /\ ToSet(waiting) \subseteq Reqs
BY LenProperties, ElementOfSeq DEF Places, PlacesType, ToSet

(* A request outside the flight that ends: it leaves both lists and is     *)
(* resolved, and nothing else of the invariant is about it.                *)
LEMMA EndKeeps ==
  ASSUME SerialInv, NEW r \in Reqs, NEW terminal \in Terminal, NEW events,
         End(r, terminal, events), r \notin current',
         UNCHANGED <<fed, gen>>, FlightPlace',
         current' \subseteq current, current \subseteq current' \cup {r},
         current' # {} => UNCHANGED outcome,
         round' = round
  PROVE  SerialInv'
<1>1. Places' /\ ToSet(active') = ToSet(active) \ {r}
  BY EndKeepsPlaces DEF SerialInv
<1>2. /\ state'[r] = terminal /\ \A q \in Reqs \ {r} : state'[q] = state[q]
      /\ resolved' = resolved \cup {r}
  BY DEF SerialInv, Places, PlacesType, End, Finalize
<1>3. InFlightPinned' BY <1>1 DEF SerialInv, InFlightPinned
<1>4. RoundAdmitted'
  <2>1. ToSet(round) \subseteq Reqs
    BY LenProperties, ElementOfSeq DEF SerialInv, FlightPlace, ToSet
  <2> QED BY <1>2, <2>1 DEF SerialInv, RoundAdmitted, Terminal
<1>5. FedGenerated'
  <2> SUFFICES ASSUME NEW q \in Reqs
               PROVE  /\ q \in current' /\ outcome' = "pending" => fed[q] = gen[q]
                      /\ q \in current' /\ outcome' = "ok" => fed[q] = gen[q] + 1
                      /\ q \notin current' /\ ~(state'[q] \in Terminal) => fed[q] = gen[q]
    BY DEF FedGenerated, is_terminal
  <2>1. CASE q = r BY <1>2, <2>1
  <2>2. CASE q # r BY <1>2, <2>2 DEF SerialInv, FedGenerated, is_terminal
  <2> QED BY <2>1, <2>2
<1>6. EndsResolved' BY <1>2 DEF SerialInv, EndsResolved, is_terminal
<1> QED BY <1>1, <1>3, <1>4, <1>5, <1>6 DEF SerialInv

(* The state of the requests is left alone, and no flight begins or ends.  *)
LEMMA OthersKeep ==
  ASSUME SerialInv, UNCHANGED <<waiting, active, state, fed, gen, resolved, current, outcome>>,
         FlightPlace', ToSet(round') \subseteq ToSet(round)
  PROVE  SerialInv'
BY DEF SerialInv, Places, PlacesType, Residence, InFlightPinned, RoundAdmitted, FedGenerated,
       EndsResolved, is_terminal

-----------------------------------------------------------------------------
\* The actions.

(* The reaper: nothing is in flight here (scheduler.py:562-579).           *)
LEMMA ReapKeeps == ASSUME SerialInv, ReapOverdue \/ ReapStalled PROVE SerialInv'
<1>1. /\ pc = "reap" /\ UNCHANGED <<pc, fed, gen, outcome, round, current>>
      /\ \E r \in ToSet(waiting) \cup ToSet(active), terminal \in Terminal : End(r, terminal, <<>>)
  BY DEF ReapOverdue, BaseReapOverdue, ReapStalled, BaseReapStalled, own, Overdue, SlowConsumers, Terminal
<1>2. PICK r \in Reqs, terminal \in Terminal : End(r, terminal, <<>>)
  BY <1>1, ActiveReqs DEF SerialInv
<1>3. FlightPlace' /\ current = {} BY <1>1 DEF SerialInv, FlightPlace
<1> QED BY <1>1, <1>2, <1>3, EndKeeps

(* The pass, but for the steps it takes (scheduler.py:300-310).            *)
LEMMA RoundKeeps ==
  ASSUME SerialInv, BeginRound \/ PassOver \/ DrainBacklog \/ EndRound \/ EndAdmission \/ Wake
  PROVE  SerialInv'
<1>1. CASE BeginRound
  <2>1. /\ round' = active /\ pc' = "round" /\ pc = "reap"
        /\ UNCHANGED <<waiting, active, state, fed, gen, resolved, current, outcome>>
    BY <1>1 DEF BeginRound, request
  <2>2. FlightPlace' BY <2>1 DEF SerialInv, FlightPlace, Places, PlacesType
  <2>3. RoundAdmitted'
    BY <2>1, ActiveReqs DEF SerialInv, RoundAdmitted, Places, Residence
  <2> QED BY <2>1, <2>2, <2>3 DEF SerialInv, Places, PlacesType, Residence, InFlightPinned,
             FedGenerated, EndsResolved, is_terminal
<1>2. CASE PassOver \/ DrainBacklog
  <2>1. /\ round # <<>> /\ round' = Tail(round) /\ pc' = pc
        /\ UNCHANGED <<waiting, active, state, fed, gen, resolved, current, outcome>>
    BY <1>2 DEF PassOver, DrainBacklog, Passing, request
  <2>2. round' \in Seq(Reqs) /\ ToSet(round') \subseteq ToSet(round)
    BY <2>1, TailSubset DEF SerialInv, FlightPlace
  <2>3. FlightPlace' BY <2>1, <2>2 DEF SerialInv, FlightPlace
  <2> QED BY <2>1, <2>2, <2>3, OthersKeep
<1>3. CASE EndRound
  <2>1. /\ round' = <<>> /\ pc' = "admit" /\ pc = "round"
        /\ UNCHANGED <<waiting, active, state, fed, gen, resolved, current, outcome>>
    BY <1>3 DEF EndRound, request
  <2>2. FlightPlace' BY <2>1 DEF SerialInv, FlightPlace
  <2>3. ToSet(round') = {} BY <2>1 DEF ToSet
  <2> QED BY <2>1, <2>2, <2>3, OthersKeep
<1>4. CASE EndAdmission \/ Wake
  <2>1. /\ pc # "flight" /\ pc' \in {"reap", "sleep", "stopped"}
        /\ UNCHANGED <<waiting, active, state, fed, gen, resolved, current, outcome, round>>
    BY <1>4 DEF EndAdmission, Wake, BaseWake, own, request
  <2>2. FlightPlace' BY <2>1 DEF SerialInv, FlightPlace
  <2> QED BY <2>1, <2>2, OthersKeep
<1> QED BY <1>1, <1>2, <1>3, <1>4

(* A step goes to the worker thread: its request is in the active list,    *)
(* and has been fed what it has generated (scheduler.py:311-312).          *)
LEMMA StepKeeps == ASSUME SerialInv, Step PROVE SerialInv'
<1> DEFINE r == Head(round)
<1>1. /\ pc = "round" /\ round # <<>> /\ round' = Tail(round) /\ ~is_terminal(r)
      /\ pc' = "flight" /\ outcome' = "pending" /\ current' = {r}
      /\ UNCHANGED <<waiting, active, state, fed, gen, resolved>>
  BY DEF Step, Passing, Fly, request
<1>2. /\ r \in Reqs /\ r \in ToSet(round)
      /\ round' \in Seq(Reqs) /\ ToSet(round') \subseteq ToSet(round)
  BY <1>1, TailSubset DEF SerialInv, FlightPlace
<1>3. current = {} BY <1>1 DEF SerialInv, FlightPlace
<1> HIDE DEF r
<1>4. r \in ToSet(active)
  BY <1>1, <1>2 DEF SerialInv, RoundAdmitted, Places, PlacesType, Residence, is_terminal, States
<1>5. FlightPlace' BY <1>1, <1>2 DEF SerialInv, FlightPlace
<1>6. InFlightPinned' BY <1>1, <1>4 DEF InFlightPinned
<1>7. RoundAdmitted' BY <1>1, <1>2 DEF SerialInv, RoundAdmitted
<1>8. FedGenerated'
  <2>1. \A q \in Reqs : ~is_terminal(q) => fed[q] = gen[q]
    BY <1>3 DEF SerialInv, FedGenerated
  <2> QED BY <1>1, <2>1 DEF FedGenerated, is_terminal
<1>9. EndsResolved' BY <1>1, <1>3 DEF SerialInv, EndsResolved, is_terminal
<1> QED BY <1>1, <1>5, <1>6, <1>7, <1>8, <1>9 DEF SerialInv, Places, PlacesType, Residence, is_terminal

(* An admission, with the step that computes its prompt, or its refusal    *)
(* (scheduler.py:327-348).                                                 *)
LEMMA AdmitKeeps == ASSUME SerialInv, Admit \/ AdmissionRefused PROVE SerialInv'
<1> DEFINE r == Head(waiting)
<1>1. /\ pc = "admit" /\ waiting # <<>>
      /\ UNCHANGED <<fed, gen, round>>
  BY DEF Admit, AdmissionRefused, MayAdmit, own
<1>2. r \in Reqs /\ state[r] = "WAITING" /\ r \notin ToSet(active)
  BY <1>1, HeadOfQueue DEF SerialInv
<1>3. current = {} /\ outcome = "none" BY <1>1 DEF SerialInv, FlightPlace
<1>4. CASE Admit
  <2>1. /\ waiting' = Tail(waiting) /\ active' = Append(active, r)
        /\ state' = [state EXCEPT ![r] = "PREFILL"] /\ UNCHANGED resolved
        /\ pc' = "flight" /\ outcome' = "pending" /\ current' = {r}
    BY <1>4 DEF Admit, Fly
  <2>2. Places' /\ ToSet(active') = ToSet(active) \cup {r}
    BY <1>1, <2>1, AdmitKeepsPlaces DEF SerialInv
  <2>3. /\ state'[r] = "PREFILL" /\ \A q \in Reqs \ {r} : state'[q] = state[q]
    BY <1>2, <2>1 DEF SerialInv, Places, PlacesType
  <2> HIDE DEF r
  <2>4. FlightPlace' BY <1>1, <1>2, <2>1 DEF SerialInv, FlightPlace
  <2>5. InFlightPinned' BY <2>1, <2>2 DEF InFlightPinned
  <2>6. RoundAdmitted'
    <3>1. ToSet(round) \subseteq Reqs
      BY LenProperties, ElementOfSeq DEF SerialInv, FlightPlace, ToSet
    <3> QED BY <1>1, <2>3, <3>1 DEF SerialInv, RoundAdmitted
  <2>7. FedGenerated'
    <3>1. \A q \in Reqs : q \in current' => fed'[q] = gen'[q]
      BY <1>1, <1>2, <1>3, <2>1 DEF SerialInv, FedGenerated, is_terminal, Terminal
    <3>2. \A q \in Reqs : q \notin current' /\ ~is_terminal(q)' => fed'[q] = gen'[q]
      BY <1>1, <1>3, <2>1, <2>3 DEF SerialInv, FedGenerated, is_terminal
    <3> QED BY <2>1, <3>1, <3>2 DEF FedGenerated
  <2>8. EndsResolved' BY <1>3, <2>1, <2>3 DEF SerialInv, EndsResolved, is_terminal, Terminal
  <2> QED BY <2>2, <2>4, <2>5, <2>6, <2>7, <2>8 DEF SerialInv
<1>5. CASE AdmissionRefused
  <2>1. /\ End(r, "FAILED", <<>>) /\ UNCHANGED <<pc, outcome, current>>
    BY <1>5 DEF AdmissionRefused, own
  <2>2. FlightPlace' BY <1>1, <2>1 DEF SerialInv, FlightPlace
  <2> QED BY <1>1, <1>2, <1>3, <2>1, <2>2, EndKeeps DEF Terminal
<1> QED BY <1>4, <1>5

(* The worker thread is done: tokens_fed has moved, or the step raised     *)
(* before or after that.                                                   *)
LEMMA WorkerKeeps == ASSUME SerialInv, WorkerReturns PROVE SerialInv'
<1>1. /\ pc = "flight" /\ outcome = "pending" /\ outcome' \in {"ok", "error"}
      /\ UNCHANGED <<pc, waiting, active, state, gen, resolved, round, current>>
  BY DEF WorkerReturns, own
<1>2. \/ outcome' = "error" /\ UNCHANGED fed
      \/ \E r \in current : fed' = [fed EXCEPT ![r] = @ + 1]
  BY DEF WorkerReturns
<1>3. fed \in [Reqs -> Nat] /\ (current = {} \/ \E r \in Reqs : current = {r})
  BY DEF SerialInv, FlightPlace
<1>4. fed' \in [Reqs -> Nat] BY <1>2, <1>3
<1>5. FlightPlace' BY <1>1, <1>3, <1>4 DEF SerialInv, FlightPlace
<1>6. FedGenerated'
  <2>1. \A q \in Reqs : q \notin current => fed'[q] = fed[q] BY <1>2, <1>3
  <2>2. outcome' = "ok" => \A q \in Reqs : q \in current => fed'[q] = fed[q] + 1 BY <1>2, <1>3
  <2> QED BY <1>1, <2>1, <2>2 DEF SerialInv, FedGenerated, is_terminal
<1> QED BY <1>1, <1>5, <1>6 DEF SerialInv, Places, PlacesType, Residence, InFlightPinned,
           RoundAdmitted, EndsResolved, is_terminal

(* The task is back: the request of the step is finalized, if it was       *)
(* cancelled, or its step raised (scheduler.py:313-322).                   *)
LEMMA SettleEndKeeps == ASSUME SerialInv, SettleCancelled \/ SettleError PROVE SerialInv'
<1>1. PICK r \in current :
        /\ Landed(r, "ok") \/ Landed(r, "error")
        /\ \/ is_terminal(r) /\ Finalize(r, <<>>) /\ UNCHANGED <<state, gen>>
           \/ End(r, "FAILED", <<>>) /\ UNCHANGED gen
  BY DEF SettleCancelled, SettleError
<1>2. /\ r \in Reqs /\ current = {r} BY DEF SerialInv, FlightPlace
<1>3. /\ pc' \in {"admit", "round"} /\ outcome' = "none" /\ current' = {} /\ UNCHANGED <<fed, round>>
  BY <1>1 DEF Landed
<1>4. FlightPlace' BY <1>1, <1>2, <1>3 DEF SerialInv, FlightPlace
<1>5. CASE End(r, "FAILED", <<>>) /\ UNCHANGED gen
  BY <1>2, <1>3, <1>4, <1>5, EndKeeps DEF Terminal
<1>6. CASE is_terminal(r) /\ Finalize(r, <<>>) /\ UNCHANGED <<state, gen>>
  <2>1. state' \in [Reqs -> States] /\ state'[r] \in Terminal
    BY <1>6 DEF SerialInv, Places, PlacesType, is_terminal
  <2>2. Places' BY <1>2, <1>6, <2>1, FinalizeKeepsPlaces DEF SerialInv
  <2>3. resolved' = resolved \cup {r} BY <1>6 DEF Finalize
  <2>4. FedGenerated' BY <1>2, <1>3, <1>6 DEF SerialInv, FedGenerated, is_terminal
  <2>5. EndsResolved' BY <1>2, <1>3, <1>6, <2>3 DEF SerialInv, EndsResolved, is_terminal
  <2>6. InFlightPinned' BY <1>3 DEF InFlightPinned
  <2>7. RoundAdmitted' BY <1>3, <1>6 DEF SerialInv, RoundAdmitted
  <2> QED BY <1>4, <2>2, <2>4, <2>5, <2>6, <2>7 DEF SerialInv
<1> QED BY <1>1, <1>5, <1>6

(* The token of a step counts what the step has fed                        *)
(* (scheduler.py:322-325, 581-607).                                        *)
LEMMA SettleTokenKeeps == ASSUME SerialInv, SettleToken PROVE SerialInv'
<1>1. PICK r \in current :
        /\ Landed(r, "ok") /\ ~is_terminal(r)
        /\ gen' = [gen EXCEPT ![r] = @ + 1]
        /\ \/ End(r, "COMPLETED", <<gen[r] + 1>>)
           \/ state' = [state EXCEPT ![r] = "DECODING"] /\ UNCHANGED <<waiting, active, resolved>>
  BY DEF SettleToken
<1>2. r \in Reqs /\ current = {r} BY DEF SerialInv, FlightPlace
<1>3. /\ pc' \in {"admit", "round"} /\ outcome = "ok" /\ outcome' = "none" /\ current' = {}
      /\ UNCHANGED <<fed, round>>
  BY <1>1 DEF Landed
<1>4. /\ gen' \in [Reqs -> Nat] /\ gen'[r] = gen[r] + 1 /\ \A q \in Reqs \ {r} : gen'[q] = gen[q]
  BY <1>1, <1>2 DEF SerialInv, FlightPlace
<1>5. FlightPlace' BY <1>3, <1>4, <1>2 DEF SerialInv, FlightPlace
<1>6. r \in ToSet(active) /\ r \notin resolved
  BY <1>2 DEF SerialInv, InFlightPinned, Places, Residence
<1>7. /\ Places' /\ state'[r] \notin {"new", "WAITING"} /\ \A q \in Reqs \ {r} : state'[q] = state[q]
      /\ is_terminal(r)' => r \in resolved'
      /\ resolved \subseteq resolved'
  <2>1. CASE End(r, "COMPLETED", <<gen[r] + 1>>)
    <3>1. Places' BY <1>2, <2>1, EndKeepsPlaces DEF SerialInv, Terminal
    <3> QED BY <1>2, <2>1, <3>1 DEF End, Finalize, SerialInv, Places, PlacesType
  <2>2. CASE state' = [state EXCEPT ![r] = "DECODING"] /\ UNCHANGED <<waiting, active, resolved>>
    <3>1. Places' BY <1>2, <1>6, <2>2, MarkKeepsPlaces DEF SerialInv, States
    <3> QED BY <1>2, <2>2, <3>1 DEF SerialInv, Places, PlacesType, is_terminal, Terminal
  <2> QED BY <1>1, <2>1, <2>2
<1>8. FedGenerated'
  <2>1. fed[r] = gen[r] + 1 BY <1>2, <1>3 DEF SerialInv, FedGenerated
  <2>2. \A q \in Reqs : q # r /\ ~is_terminal(q)' => fed'[q] = gen'[q]
    BY <1>2, <1>3, <1>4, <1>7 DEF SerialInv, FedGenerated, is_terminal
  <2> QED BY <1>3, <1>4, <2>1, <2>2 DEF FedGenerated
<1>9. EndsResolved' BY <1>2, <1>3, <1>7 DEF SerialInv, EndsResolved, is_terminal
<1>10. RoundAdmitted'
  <2>1. ToSet(round) \subseteq Reqs
    BY LenProperties, ElementOfSeq DEF SerialInv, FlightPlace, ToSet
  <2> QED BY <1>3, <1>7, <2>1 DEF SerialInv, RoundAdmitted
<1>11. InFlightPinned' BY <1>3 DEF InFlightPinned
<1> QED BY <1>5, <1>7, <1>8, <1>9, <1>10, <1>11 DEF SerialInv

(* The other tasks: a cancellation of the request in the worker thread     *)
(* only marks it (scheduler.py:275-282).                                   *)
LEMMA EnvironmentKeeps == ASSUME SerialInv, NEW r \in Reqs, Environment(r) PROVE SerialInv'
<1>1. CASE Submit(r)
  <2>1. /\ state[r] = "new" /\ state' = [state EXCEPT ![r] = "WAITING"]
        /\ waiting' = Append(waiting, r)
        /\ UNCHANGED <<pc, active, resolved, fed, gen, outcome, round, current>>
    BY <1>1 DEF Submit, BaseSubmit, own
  <2>2. Places' BY <2>1, SubmitKeepsPlaces DEF SerialInv
  <2>3. state'[r] = "WAITING" /\ \A q \in Reqs \ {r} : state'[q] = state[q]
    BY <2>1 DEF SerialInv, Places, PlacesType
  <2>4. r \notin ToSet(active) /\ ~is_terminal(r)
    BY <2>1 DEF SerialInv, Places, Residence, is_terminal, Terminal
  <2>5. r \notin current BY <2>4 DEF SerialInv, InFlightPinned
  <2>6. FlightPlace' /\ InFlightPinned' BY <2>1 DEF SerialInv, FlightPlace, InFlightPinned
  <2>7. RoundAdmitted'
    <3>1. ToSet(round) \subseteq Reqs
      BY LenProperties, ElementOfSeq DEF SerialInv, FlightPlace, ToSet
    <3> QED BY <2>1, <2>3, <3>1 DEF SerialInv, RoundAdmitted
  <2>8. FedGenerated'
    BY <2>1, <2>3, <2>4, <2>5 DEF SerialInv, FedGenerated, is_terminal
  <2>9. EndsResolved' BY <2>1, <2>3 DEF SerialInv, EndsResolved, is_terminal, Terminal
  <2> QED BY <2>2, <2>6, <2>7, <2>8, <2>9 DEF SerialInv
<1>2. CASE Cancel(r)
  <2>1. /\ state[r] # "new" /\ ~is_terminal(r)
        /\ UNCHANGED <<pc, fed, gen, outcome, round, current>>
    BY <1>2 DEF Cancel, BaseCancel, own
  <2>2. FlightPlace' BY <2>1 DEF SerialInv, FlightPlace
  <2>3. CASE r \notin current
    <3>1. End(r, "CANCELLED", <<>>) BY <1>2, <2>3 DEF Cancel, BaseCancel, Inflight
    <3> QED BY <2>1, <2>2, <2>3, <3>1, EndKeeps DEF Terminal
  <2>4. CASE r \in current
    <3>1. state' = [state EXCEPT ![r] = "CANCELLED"] /\ UNCHANGED <<waiting, active, resolved>>
      BY <1>2, <2>4 DEF Cancel, BaseCancel, Inflight
    <3>2. r \in ToSet(active) /\ r \notin resolved
      BY <2>4 DEF SerialInv, InFlightPinned, Places, Residence
    <3>3. Places' BY <3>1, <3>2, MarkKeepsPlaces DEF SerialInv, States, Terminal
    <3>4. state'[r] = "CANCELLED" /\ \A q \in Reqs \ {r} : state'[q] = state[q]
      BY <3>1 DEF SerialInv, Places, PlacesType
    <3>5. InFlightPinned' BY <2>1, <3>1 DEF SerialInv, InFlightPinned
    <3>6. RoundAdmitted'
      <4>1. ToSet(round) \subseteq Reqs
        BY LenProperties, ElementOfSeq DEF SerialInv, FlightPlace, ToSet
      <4> QED BY <2>1, <3>4, <4>1 DEF SerialInv, RoundAdmitted
    <3>7. FedGenerated'
      BY <2>1, <2>4, <3>4 DEF SerialInv, FedGenerated, is_terminal
    <3>8. EndsResolved' BY <2>1, <2>4, <3>1, <3>4 DEF SerialInv, EndsResolved, is_terminal
    <3> QED BY <2>2, <3>3, <3>5, <3>6, <3>7, <3>8 DEF SerialInv
  <2> QED BY <2>3, <2>4
<1>3. CASE Consume(r) \/ QueueTimeout(r) \/ StallTimeout(r)
  <2>1. UNCHANGED <<pc, waiting, active, state, fed, gen, resolved, outcome, round, current>>
    BY <1>3 DEF Consume, BaseConsume, QueueTimeout, BaseQueueTimeout, StallTimeout, BaseStallTimeout,
                request, own
  <2>2. FlightPlace' BY <2>1 DEF SerialInv, FlightPlace
  <2> QED BY <2>1, <2>2, OthersKeep
<1> QED BY <1>1, <1>2, <1>3 DEF Environment

LEMMA SerialStarts == ASSUME Init PROVE SerialInv
<1>1. /\ pc = "sleep" /\ waiting = <<>> /\ active = <<>> /\ round = <<>> /\ current = {}
      /\ state = [r \in Reqs |-> "new"] /\ fed = [r \in Reqs |-> 0] /\ gen = [r \in Reqs |-> 0]
      /\ resolved = {} /\ outcome = "none"
  BY DEF Init, BaseInit
<1>2. ToSet(waiting) = {} /\ ToSet(active) = {} /\ ToSet(round) = {}
      /\ Distinct(waiting) /\ Distinct(active)
  BY <1>1 DEF ToSet, Distinct
<1>3. Places BY <1>1, <1>2 DEF Places, PlacesType, Residence, States
<1>4. FlightPlace BY <1>1 DEF FlightPlace
<1> QED BY <1>1, <1>2, <1>3, <1>4 DEF SerialInv, InFlightPinned, RoundAdmitted, FedGenerated,
           EndsResolved, is_terminal, Terminal

LEMMA SerialStep == ASSUME SerialInv, [Next]_vars PROVE SerialInv'
<1>1. CASE Stop \/ Halted \/ UNCHANGED vars
  <2>1. UNCHANGED <<pc, waiting, active, state, fed, gen, resolved, outcome, round, current>>
    BY <1>1 DEF Stop, BaseStop, Halted, vars, request, own
  <2>2. FlightPlace' BY <2>1 DEF SerialInv, FlightPlace
  <2> QED BY <2>1, <2>2, OthersKeep
<1> QED BY <1>1, ReapKeeps, RoundKeeps, StepKeeps, AdmitKeeps, WorkerKeeps, SettleEndKeeps,
           SettleTokenKeeps, EnvironmentKeeps DEF Next, Loop

(* Where the requests are, what is in flight, and what it has been fed, is *)
(* an invariant.                                                           *)
THEOREM SerialInvariant == Spec => []SerialInv
<1> QED BY SerialStarts, SerialStep, PTL DEF Spec

(* A request is never lost or in two places, whatever leaves the lists     *)
(* during a pass over the copy of one of them (scheduler.py:300-348).      *)
THEOREM SerialResidence == Spec => []Residence
<1>1. SerialInv => Residence BY DEF SerialInv, Places
<1> QED BY <1>1, SerialInvariant, PTL

(* The request in the worker thread is in the active list until the task   *)
(* is back: the copy of the pass never brings back one that has left       *)
(* (scheduler.py:282, 300).                                                *)
THEOREM SerialPinned == Spec => []InFlightPinned
<1>1. SerialInv => InFlightPinned BY DEF SerialInv
<1> QED BY <1>1, SerialInvariant, PTL

(* A step feeds the token generated last, whatever the runner has raised   *)
(* before (engine.py:168-190).                                             *)
THEOREM SerialFeedsNext == Spec => []FeedsNext
<1>1. SerialInv => FeedsNext
  <2>1. InFlightPinned /\ Places => current \subseteq Reqs BY ActiveReqs DEF InFlightPinned
  <2> QED BY <2>1 DEF SerialInv, FeedsNext, FedGenerated
<1> QED BY <1>1, SerialInvariant, PTL

(* Between two iterations every request in a terminal state is resolved    *)
(* (scheduler.py:10-12).                                                   *)
THEOREM SerialResolves == Spec => []TerminalResolved
<1>1. SerialInv => TerminalResolved BY DEF SerialInv, FlightPlace, EndsResolved, TerminalResolved
<1> QED BY <1>1, SerialInvariant, PTL

-----------------------------------------------------------------------------
(* Streams. A request in the worker thread has nothing pending, so that    *)
(* its token goes out behind an empty backlog; one that has not been       *)
(* admitted has had nothing published.                                     *)
Unpublished == current \cup {r \in Reqs : state[r] \in {"new", "WAITING"}}

CaughtUp == \A r \in Unpublished : pending[r] = <<>>

Streams == Streaming /\ CaughtUp

LEMMA UnpublishedReqs == ASSUME SerialInv PROVE Unpublished \subseteq Reqs
BY DEF SerialInv, FlightPlace, Unpublished

(* A step that leaves the streams alone; a request that takes off has      *)
(* nothing pending.                                                        *)
LEMMA StreamsKept ==
  ASSUME Streams, UNCHANGED streams, UNCHANGED <<gen, resolved>>,
         \A r \in Unpublished' : pending[r] = <<>>
  PROVE  Streams'
<1>1. Streaming' BY Untouched DEF Streams
<1> QED BY <1>1 DEF Streams, CaughtUp, streams

(* A request finalized without events: it is not in the worker thread any  *)
(* more, nor in the queue.                                                 *)
LEMMA EndedStreams ==
  ASSUME SerialInv, Streams, NEW r \in Reqs, r \notin resolved, Finalize(r, <<>>), gen' = gen,
         current' \subseteq current \ {r}, is_terminal(r)',
         \A q \in Reqs \ {r} : state'[q] = state[q]
  PROVE  Streams'
<1> DEFINE Q == Unpublished'
<1>1. \A q \in Q : q \in Reqs /\ q # r /\ pending[q] = <<>>
  <2>1. Unpublished' \subseteq Unpublished \ {r} BY DEF Unpublished, is_terminal, Terminal
  <2> QED BY <2>1, UnpublishedReqs DEF Streams, CaughtUp
<1> HIDE DEF Q
<1>2. Streaming /\ gen \in [Reqs -> Nat] BY DEF Streams, SerialInv, FlightPlace
<1>3. Streaming' /\ \A q \in Q : pending'[q] = <<>> BY <1>1, <1>2, FinalizedEmpty
<1> QED BY <1>3 DEF Streams, CaughtUp, Q

\* The same for End.
LEMMA EndStreams ==
  ASSUME SerialInv, Streams, NEW r \in Reqs, r \notin resolved, NEW t \in Terminal, End(r, t, <<>>),
         gen' = gen, current' \subseteq current \ {r}
  PROVE  Streams'
<1>1. state \in [Reqs -> States] BY DEF SerialInv, Places, PlacesType
<1>2. /\ Finalize(r, <<>>) /\ is_terminal(r)' /\ \A q \in Reqs \ {r} : state'[q] = state[q]
  BY <1>1 DEF End, is_terminal
<1> QED BY <1>2, EndedStreams

(* A request that has not ended is not resolved, nor is one in the list;   *)
(* one in the list that has not ended is being computed.                   *)
LEMMA LiveUnresolved ==
  ASSUME SerialInv, NEW r \in Reqs
  PROVE  /\ ~is_terminal(r) => r \notin resolved /\ state[r] \in {"new", "WAITING"} \cup Computed
         /\ r \in ToSet(active) => r \notin resolved /\ (~is_terminal(r) => state[r] \in Computed)
         /\ r \in ToSet(waiting) => r \notin resolved /\ state[r] = "WAITING"
BY DEF SerialInv, Places, PlacesType, Residence, is_terminal, Terminal, States, Computed

\* The request in the worker thread.
LEMMA InFlight ==
  ASSUME SerialInv, NEW r \in current
  PROVE  r \in Reqs /\ current = {r} /\ r \in ToSet(active) /\ r \notin resolved
<1>1. r \in Reqs /\ current = {r} BY DEF SerialInv, FlightPlace
<1> QED BY <1>1, LiveUnresolved DEF SerialInv, InFlightPinned

(* The loop's steps that publish nothing but STOP.                         *)
LEMMA LoopStreams ==
  ASSUME SerialInv, Streams, ReapOverdue \/ ReapStalled \/ AdmissionRefused \/ DrainBacklog
  PROVE  Streams'
<1>1. CASE ReapOverdue \/ ReapStalled
  <2>1. /\ pc = "reap" /\ UNCHANGED <<gen, current>>
        /\ \E r \in ToSet(waiting) \cup ToSet(active), t \in Terminal : End(r, t, <<>>)
    BY <1>1 DEF ReapOverdue, BaseReapOverdue, ReapStalled, BaseReapStalled, own, Overdue,
                SlowConsumers, Terminal
  <2>2. PICK r \in ToSet(waiting) \cup ToSet(active), t \in Terminal : End(r, t, <<>>) BY <2>1
  <2>3. current = {} BY <2>1 DEF SerialInv, FlightPlace
  <2>4. r \in Reqs /\ r \notin resolved BY ActiveReqs, LiveUnresolved DEF SerialInv
  <2> QED BY <2>1, <2>2, <2>3, <2>4, EndStreams
<1>2. CASE AdmissionRefused
  <2>1. /\ pc = "admit" /\ waiting # <<>> /\ UNCHANGED <<gen, current>>
        /\ End(Head(waiting), "FAILED", <<>>)
    BY <1>2 DEF AdmissionRefused, MayAdmit, own
  <2>2. current = {} BY <2>1 DEF SerialInv, FlightPlace
  <2>3. Head(waiting) \in Reqs /\ Head(waiting) \notin resolved
    BY <2>1, HeadOfQueue, LiveUnresolved DEF SerialInv, is_terminal, Terminal
  <2> QED BY <2>1, <2>2, <2>3, EndStreams DEF Terminal
<1>3. CASE DrainBacklog
  <2> DEFINE S == {Head(round)}
             Q == Unpublished'
  <2>1. Deliver(S, <<>>) /\ UNCHANGED <<gen, resolved, state, current>>
    BY <1>3 DEF DrainBacklog, request
  <2>2. Unpublished' = Unpublished BY <2>1 DEF Unpublished
  <2>3. \A q \in Q : q \in Reqs /\ pending[q] = <<>>
    BY <2>2, UnpublishedReqs DEF Streams, CaughtUp
  <2> HIDE DEF S, Q
  <2>4. Streaming /\ gen \in [Reqs -> Nat] BY DEF Streams, SerialInv, FlightPlace
  <2>5. Streaming' /\ \A q \in Q : pending'[q] = <<>> BY <2>1, <2>3, <2>4, DrainedStreams
  <2> QED BY <2>5 DEF Streams, CaughtUp, Q
<1> QED BY <1>1, <1>2, <1>3

(* The steps at which a request takes off, and those without a part in the *)
(* streams.                                                                *)
LEMMA QuietStreams ==
  ASSUME SerialInv, Streams,
         \/ BeginRound \/ PassOver \/ Step \/ EndRound \/ Admit \/ EndAdmission \/ Wake
         \/ WorkerReturns
  PROVE  Streams'
<1>1. CASE Step
  <2>1. /\ UNCHANGED streams /\ UNCHANGED <<gen, resolved, state>>
        /\ pending[Head(round)] = <<>> /\ current' = {Head(round)}
    BY <1>1 DEF Step, Fly, request
  <2>2. \A r \in Unpublished' : pending[r] = <<>>
    BY <2>1 DEF Streams, CaughtUp, Unpublished
  <2> QED BY <2>1, <2>2, StreamsKept
<1>2. CASE Admit
  <2>1. /\ UNCHANGED streams /\ UNCHANGED <<gen, resolved>> /\ waiting # <<>>
        /\ state' = [state EXCEPT ![Head(waiting)] = "PREFILL"] /\ current' = {Head(waiting)}
    BY <1>2 DEF Admit, Fly, MayAdmit
  <2>2. Head(waiting) \in Unpublished /\ state \in [Reqs -> States]
    BY <2>1, HeadOfQueue DEF Unpublished, SerialInv, Places, PlacesType
  <2>3. Unpublished' \subseteq Unpublished BY <2>1, <2>2 DEF Unpublished
  <2> QED BY <2>1, <2>3, StreamsKept DEF Streams, CaughtUp
<1>3. CASE BeginRound \/ PassOver \/ EndRound \/ EndAdmission \/ Wake \/ WorkerReturns
  <2>1. UNCHANGED streams /\ UNCHANGED <<gen, resolved, state, current>>
    BY <1>3 DEF BeginRound, PassOver, EndRound, EndAdmission, Wake, BaseWake, WorkerReturns,
                request, own
  <2>2. Unpublished' = Unpublished BY <2>1 DEF Unpublished
  <2> QED BY <2>1, <2>2, StreamsKept DEF Streams, CaughtUp
<1> QED BY <1>1, <1>2, <1>3

(* The step is back.                                                       *)
LEMMA SettleStreams ==
  ASSUME SerialInv, Streams, SettleCancelled \/ SettleError \/ SettleToken
  PROVE  Streams'
<1>0. state \in [Reqs -> States] /\ gen \in [Reqs -> Nat]
  BY DEF SerialInv, Places, PlacesType, FlightPlace
<1>1. CASE SettleCancelled
  <2>1. PICK r \in current : /\ is_terminal(r) /\ Finalize(r, <<>>) /\ UNCHANGED <<state, gen>>
                             /\ current' = {}
    BY <1>1 DEF SettleCancelled, Landed
  <2>2. is_terminal(r)' BY <2>1 DEF is_terminal
  <2> QED BY <2>1, <2>2, InFlight, EndedStreams
<1>2. CASE SettleError
  <2>1. PICK r \in current : End(r, "FAILED", <<>>) /\ gen' = gen /\ current' = {}
    BY <1>2 DEF SettleError, Landed
  <2> QED BY <2>1, InFlight, EndStreams DEF Terminal
<1>3. CASE SettleToken
  <2>1. PICK r \in current :
          /\ current' = {} /\ gen' = [gen EXCEPT ![r] = gen[r] + 1]
          /\ \/ End(r, "COMPLETED", <<gen[r] + 1>>)
             \/ /\ Deliver({r}, <<gen[r] + 1>>) /\ resolved' = resolved
                /\ state' = [state EXCEPT ![r] = "DECODING"]
    BY <1>3 DEF SettleToken, Landed
  <2>2. r \in Reqs /\ r \notin resolved /\ pending[r] = <<>> /\ r \in Unpublished
    BY InFlight DEF Streams, CaughtUp, Unpublished
  <2> DEFINE Q == Unpublished'
  <2>3. \A q \in Q : q \in Reqs /\ q # r /\ pending[q] = <<>>
    <3>1. state'[r] \notin {"new", "WAITING"} /\ \A q \in Reqs \ {r} : state'[q] = state[q]
      BY <1>0, <2>1, <2>2 DEF End
    <3>2. Unpublished' \subseteq Unpublished \ {r} BY <2>1, <3>1 DEF Unpublished
    <3> QED BY <3>2, UnpublishedReqs DEF Streams, CaughtUp
  <2> HIDE DEF Q
  <2>4. Streaming' /\ \A q \in Q : pending'[q] = <<>>
    <3>1. Streaming BY DEF Streams
    <3>2. CASE End(r, "COMPLETED", <<gen[r] + 1>>)
      <4>1. Finalize(r, <<gen[r] + 1>>) BY <3>2 DEF End
      <4> QED BY <1>0, <2>1, <2>2, <2>3, <3>1, <4>1, FinalizedToken
    <3>3. CASE Deliver({r}, <<gen[r] + 1>>) /\ resolved' = resolved
      BY <1>0, <2>1, <2>2, <2>3, <3>1, <3>3, EmittedStreams
    <3> QED BY <2>1, <3>2, <3>3
  <2> QED BY <2>4 DEF Streams, CaughtUp, Q
<1> QED BY <1>1, <1>2, <1>3

(* The other tasks of the event loop, and time.                            *)
LEMMA EnvironmentStreams ==
  ASSUME SerialInv, Streams, NEW r \in Reqs, Environment(r)
  PROVE  Streams'
<1>0. state \in [Reqs -> States] BY DEF SerialInv, Places, PlacesType
<1>1. CASE Consume(r)
  <2>1. BaseConsume(r) /\ UNCHANGED <<state, current, pending>>
    BY <1>1 DEF Consume, BaseConsume, request, own
  <2>2. Streaming' BY <2>1, ConsumedStreams DEF Streams
  <2> QED BY <2>1, <2>2 DEF Streams, CaughtUp, Unpublished
<1>2. CASE StallTimeout(r)
  <2>1. BaseStallTimeout(r) /\ UNCHANGED <<state, current, pending>>
    BY <1>2 DEF StallTimeout, BaseStallTimeout, request, own
  <2>2. Streaming' BY <2>1, StalledStreams DEF Streams
  <2> QED BY <2>1, <2>2 DEF Streams, CaughtUp, Unpublished
<1>3. CASE Submit(r) \/ QueueTimeout(r)
  <2>1. /\ UNCHANGED streams /\ UNCHANGED <<gen, resolved, current>>
        /\ state' = state \/ (state[r] = "new" /\ state' = [state EXCEPT ![r] = "WAITING"])
    BY <1>3 DEF Submit, BaseSubmit, QueueTimeout, BaseQueueTimeout, request, own
  <2>2. Unpublished' = Unpublished BY <1>0, <2>1 DEF Unpublished
  <2> QED BY <2>1, <2>2, StreamsKept DEF Streams, CaughtUp
<1>4. CASE Cancel(r)
  <2>1. /\ gen' = gen /\ current' = current /\ ~is_terminal(r)
    BY <1>4 DEF Cancel, BaseCancel, own
  <2>2. r \notin resolved BY <2>1, LiveUnresolved
  <2>3. CASE r \in current
    <3>1. UNCHANGED streams /\ resolved' = resolved /\ state' = [state EXCEPT ![r] = "CANCELLED"]
      BY <1>4, <2>3 DEF Cancel, BaseCancel, Inflight
    <3>2. Unpublished' \subseteq Unpublished BY <1>0, <2>1, <3>1 DEF Unpublished
    <3> QED BY <2>1, <3>1, <3>2, StreamsKept DEF Streams, CaughtUp
  <2>4. CASE r \notin current
    <3>1. End(r, "CANCELLED", <<>>) BY <1>4, <2>4 DEF Cancel, BaseCancel, Inflight
    <3> QED BY <2>1, <2>2, <2>4, <3>1, EndStreams DEF Terminal
  <2> QED BY <2>3, <2>4
<1> QED BY <1>1, <1>2, <1>3, <1>4 DEF Environment

LEMMA StreamsInit == ASSUME Init PROVE Streams
<1>1. Streaming BY StreamsStart DEF Init
<1>2. CaughtUp BY DEF Init, BaseInit, CaughtUp, Unpublished
<1> QED BY <1>1, <1>2 DEF Streams

\* What the streams hold is kept by every step.
LEMMA StreamsStep == ASSUME SerialInv, Streams, [Next]_vars PROVE Streams'
<1>1. CASE Stop \/ Halted \/ UNCHANGED vars
  <2>1. UNCHANGED streams /\ UNCHANGED <<gen, resolved, state, current>>
    BY <1>1 DEF Stop, BaseStop, Halted, vars, request, own
  <2>2. Unpublished' = Unpublished BY <2>1 DEF Unpublished
  <2> QED BY <2>1, <2>2, StreamsKept DEF Streams, CaughtUp
<1> QED BY <1>1, LoopStreams, QuietStreams, SettleStreams, EnvironmentStreams DEF Next, Loop

(* What the streams hold is an invariant of the serial loop, too: no       *)
(* consumer loses, repeats or misses the order of a token, STOP stands     *)
(* behind the last one exactly when the future is resolved, and at most a  *)
(* token and STOP wait behind a full queue (scheduler.py:300-325, 610).    *)
THEOREM SerialStreams == Spec => [](StreamExact /\ BacklogBounded)
<1>1. Init => SerialInv /\ Streams BY SerialStarts, StreamsInit
<1>2. SerialInv /\ Streams /\ [Next]_vars => SerialInv' /\ Streams' BY SerialStep, StreamsStep
<1>3. Streams => StreamExact /\ BacklogBounded BY DEF Streams, Streaming
<1> QED BY <1>1, <1>2, <1>3, PTL DEF Spec

-----------------------------------------------------------------------------
(* Types, and the budget: what a step costs when its token is back is      *)
(* still in the budget, since nothing else is charged in between.          *)
Budgeted ==
  /\ budget \in Nat
  /\ current # {} => budget > 0
  /\ \A r \in Reqs : state[r] = "PREFILL" => r \in current /\ PromptLen[r] <= budget

OtherTypes ==
  /\ preempted \subseteq Reqs /\ rejected \subseteq Reqs /\ late \subseteq Reqs
  /\ running \in BOOLEAN

\* A step that charges nothing, brings nothing back and starts no prompt.
LEMMA BudgetKept ==
  ASSUME SerialInv, Budgeted, UNCHANGED <<budget, current>>,
         \A r \in Reqs : state'[r] = "PREFILL" => state[r] = "PREFILL"
  PROVE  Budgeted'
BY DEF Budgeted

\* A request that ends starts no prompt.
LEMMA EndsNoPrompt ==
  ASSUME SerialInv, NEW r \in Reqs, NEW t \in Terminal, state' = [state EXCEPT ![r] = t]
  PROVE  \A q \in Reqs : state'[q] = "PREFILL" => q # r /\ state[q] = "PREFILL"
BY DEF SerialInv, Places, PlacesType, Terminal

LEMMA BudgetStep == ASSUME SerialInv, Budgeted, [Next]_vars PROVE Budgeted'
<1>0. state \in [Reqs -> States] BY DEF SerialInv, Places, PlacesType
<1>1. CASE ReapOverdue \/ ReapStalled \/ AdmissionRefused
  <2>1. /\ UNCHANGED <<budget, current>>
        /\ \E r \in Reqs, t \in Terminal : state' = [state EXCEPT ![r] = t]
    BY <1>1, ActiveReqs, HeadOfQueue
       DEF ReapOverdue, BaseReapOverdue, ReapStalled, BaseReapStalled, own, Overdue, SlowConsumers,
           AdmissionRefused, MayAdmit, Terminal, End, SerialInv
  <2> QED BY <2>1, EndsNoPrompt, BudgetKept
<1>2. CASE BeginRound
  <2>1. pc = "reap" /\ budget' = MaxBatchedTokens /\ UNCHANGED <<state, current>>
    BY <1>2 DEF BeginRound, request
  <2>2. current = {} BY <2>1 DEF SerialInv, FlightPlace
  <2> QED BY <2>1, <2>2, ConfigAssumption DEF Budgeted
<1>3. CASE \/ PassOver \/ DrainBacklog \/ EndRound \/ EndAdmission \/ Wake \/ WorkerReturns \/ Stop
           \/ Halted \/ UNCHANGED vars
  <2>1. UNCHANGED <<budget, state, current>>
    BY <1>3 DEF PassOver, DrainBacklog, EndRound, EndAdmission, Wake, BaseWake, WorkerReturns,
                Stop, BaseStop, Halted, vars, request, own
  <2> QED BY <2>1, BudgetKept
<1>4. CASE Step
  <2>1. pc = "round" /\ budget > 0 /\ UNCHANGED <<budget, state>>
    BY <1>4 DEF Step, Passing, request
  <2>2. current = {} BY <2>1 DEF SerialInv, FlightPlace
  <2> QED BY <2>1, <2>2 DEF Budgeted
<1>5. CASE Admit
  <2>0. PICK r : r = Head(waiting) OBVIOUS
  <2>1. /\ pc = "admit" /\ budget > 0 /\ PromptLen[r] <= budget /\ budget' = budget
        /\ state' = [state EXCEPT ![r] = "PREFILL"] /\ current' = {r}
    BY <1>5, <2>0 DEF Admit, MayAdmit, Fly
  <2>2. current = {} BY <2>1 DEF SerialInv, FlightPlace
  <2> QED BY <1>0, <2>1, <2>2 DEF Budgeted
<1>6. CASE SettleCancelled \/ SettleError
  <2>1. PICK r \in current :
          /\ current' = {} /\ budget' = budget
          /\ \/ is_terminal(r) /\ state' = state
             \/ state' = [state EXCEPT ![r] = "FAILED"]
    BY <1>6 DEF SettleCancelled, SettleError, Landed, End
  <2>2. r \in Reqs /\ current = {r} BY InFlight
  <2>3. \A q \in Reqs : state'[q] # "PREFILL"
    BY <1>0, <2>1, <2>2 DEF Budgeted, is_terminal, Terminal
  <2> QED BY <2>1, <2>3 DEF Budgeted
<1>7. CASE SettleToken
  <2>1. PICK r \in current :
          /\ current' = {}
          /\ budget' = budget - IF state[r] = "PREFILL" THEN PromptLen[r] ELSE 1
          /\ \/ state' = [state EXCEPT ![r] = "COMPLETED"]
             \/ state' = [state EXCEPT ![r] = "DECODING"]
    BY <1>7 DEF SettleToken, Landed, End
  <2>2. r \in Reqs /\ current = {r} BY InFlight
  <2>3. \A q \in Reqs : state'[q] # "PREFILL" BY <1>0, <2>1, <2>2 DEF Budgeted
  <2>4. budget' \in Nat BY <2>1, <2>2, RequestAssumption DEF Budgeted
  <2> QED BY <2>1, <2>3, <2>4 DEF Budgeted
<1>8. CASE \E r \in Reqs : Environment(r)
  <2>1. PICK r \in Reqs : Environment(r) BY <1>8
  <2>2. /\ UNCHANGED <<budget, current>>
        /\ \/ state' = state \/ state' = [state EXCEPT ![r] = "WAITING"]
           \/ state' = [state EXCEPT ![r] = "CANCELLED"]
    BY <2>1 DEF Environment, Submit, BaseSubmit, Cancel, BaseCancel, Consume, BaseConsume,
                QueueTimeout, BaseQueueTimeout, StallTimeout, BaseStallTimeout, End, request, own
  <2>3. \A q \in Reqs : state'[q] = "PREFILL" => state[q] = "PREFILL" BY <1>0, <2>2
  <2> QED BY <2>2, <2>3, BudgetKept
<1> QED BY <1>1, <1>2, <1>3, <1>4, <1>5, <1>6, <1>7, <1>8 DEF Next, Loop

LEMMA OtherTypesStep == ASSUME SerialInv, OtherTypes, [Next]_vars PROVE OtherTypes'
<1>1. preempted' = preempted
  BY DEF Next, Loop, ReapOverdue, BaseReapOverdue, ReapStalled, BaseReapStalled, BeginRound, PassOver,
         DrainBacklog, Step, EndRound, Admit, AdmissionRefused, EndAdmission, SettleCancelled, SettleError,
         SettleToken, Landed, Wake, BaseWake, WorkerReturns, Environment, Submit, BaseSubmit, Cancel,
         BaseCancel, Consume, BaseConsume, QueueTimeout, BaseQueueTimeout, StallTimeout,
         BaseStallTimeout, Stop, BaseStop, Halted, vars, request
<1>2. rejected' \subseteq Reqs
  <2>1. CASE AdmissionRefused
    BY <2>1, HeadOfQueue DEF AdmissionRefused, MayAdmit, OtherTypes, SerialInv
  <2>2. CASE ~AdmissionRefused
    <3>1. rejected' = rejected
      BY <2>2 DEF Next, Loop, ReapOverdue, BaseReapOverdue, ReapStalled, BaseReapStalled, BeginRound,
         PassOver, DrainBacklog, Step, EndRound, Admit, EndAdmission, SettleCancelled, SettleError,
         SettleToken, Landed, Wake, BaseWake, WorkerReturns, Environment, Submit, BaseSubmit, Cancel,
         BaseCancel, Consume, BaseConsume, QueueTimeout, BaseQueueTimeout, StallTimeout,
         BaseStallTimeout, Stop, BaseStop, Halted, vars, request
    <3> QED BY <3>1 DEF OtherTypes
  <2> QED BY <2>1, <2>2
<1>3. late' \subseteq Reqs /\ running' \in BOOLEAN
  <2>1. /\ late' = late \/ \E r \in Reqs : late' = late \cup {r}
        /\ running' = running \/ running' = FALSE
    BY DEF Next, Loop, ReapOverdue, BaseReapOverdue, ReapStalled, BaseReapStalled, BeginRound,
         PassOver, DrainBacklog, Step, EndRound, Admit, AdmissionRefused, EndAdmission, SettleCancelled,
         SettleError, SettleToken, Landed, Wake, BaseWake, WorkerReturns, Environment, Submit,
         BaseSubmit, Cancel, BaseCancel, Consume, BaseConsume, QueueTimeout, BaseQueueTimeout,
         StallTimeout, BaseStallTimeout, Stop, BaseStop, Halted, vars, request
  <2> QED BY <2>1 DEF OtherTypes
<1> QED BY <1>1, <1>2, <1>3 DEF OtherTypes

(* Every variable of the serial loop keeps its type; above all, the token  *)
(* budget of an iteration is never overdrawn: a prompt is admitted only    *)
(* when it fits, and is charged only when it is computed                   *)
(* (scheduler.py:297, 322, 326-330, 358).                                  *)
THEOREM SerialTypes == Spec => []TypeOK
<1>1. Init => SerialInv /\ Streams /\ Budgeted /\ OtherTypes
  <2>1. Init => Budgeted /\ OtherTypes BY DEF Init, BaseInit, Budgeted, OtherTypes
  <2> QED BY <2>1, SerialStarts, StreamsInit
<1>2. SerialInv /\ Streams /\ Budgeted /\ OtherTypes /\ [Next]_vars
        => SerialInv' /\ Streams' /\ Budgeted' /\ OtherTypes'
  BY SerialStep, StreamsStep, BudgetStep, OtherTypesStep
<1>3. SerialInv /\ Streams /\ Budgeted /\ OtherTypes => TypeOK
  BY DEF SerialInv, Places, PlacesType, FlightPlace, Streams, Streaming, StreamType, Budgeted, OtherTypes,
         TypeOK, BaseType
<1> QED BY <1>1, <1>2, <1>3, PTL DEF Spec

-----------------------------------------------------------------------------
\* The refinement of RequestLifecycle.

\* The loop's own steps.
LEMMA LoopChanges ==
  ASSUME SerialInv, OnlyMarked, Loop
  PROVE  Quiet \/ \E r \in Reqs : Change(r)
<1>1. CASE ReapOverdue
  <2>1. PICK r \in Overdue : End(r, "TIMED_OUT", <<>>) BY <1>1 DEF ReapOverdue, BaseReapOverdue
  <2>2. r \in Reqs /\ r \notin resolved /\ state[r] = "WAITING"
    BY ActiveReqs, LiveUnresolved DEF Overdue, SerialInv
  <2>3. gen' = gen BY <1>1 DEF ReapOverdue, BaseReapOverdue
  <2> QED BY <2>1, <2>2, <2>3, EndsIt
<1>2. CASE ReapStalled
  <2>1. PICK r \in SlowConsumers : End(r, "CANCELLED", <<>>) BY <1>2 DEF ReapStalled, BaseReapStalled
  <2>2. r \in Reqs /\ r \notin resolved /\ state[r] \in Computed
    BY ActiveReqs, LiveUnresolved DEF SlowConsumers, SerialInv
  <2>3. gen' = gen BY <1>2 DEF ReapStalled, BaseReapStalled
  <2> QED BY <2>1, <2>2, <2>3, EndsIt
<1>3. CASE Admit \/ AdmissionRefused
  <2>0. PICK r : r = Head(waiting) OBVIOUS
  <2>1. waiting # <<>> /\ gen' = gen BY <1>3 DEF Admit, AdmissionRefused, MayAdmit
  <2>2. r \in Reqs /\ state[r] = "WAITING" /\ r \notin resolved
    BY <2>0, <2>1, HeadOfQueue, LiveUnresolved DEF SerialInv, is_terminal, Terminal
  <2>3. CASE Admit
    <3>1. state' = [state EXCEPT ![r] = "PREFILL"] /\ resolved' = resolved
      BY <2>0, <2>3 DEF Admit
    <3>2. Shifts(r) BY <2>1, <2>2, <3>1 DEF Shifts, Moves, States
    <3> QED BY <2>2, <3>2 DEF Change
  <2>4. CASE AdmissionRefused
    <3>1. End(r, "FAILED", <<>>) BY <2>0, <2>4 DEF AdmissionRefused
    <3> QED BY <2>1, <2>2, <3>1, EndsIt
  <2> QED BY <1>3, <2>3, <2>4
<1>4. CASE SettleCancelled
  <2>1. PICK r \in current : is_terminal(r) /\ Finalize(r, <<>>) /\ UNCHANGED <<state, gen>>
    BY <1>4 DEF SettleCancelled
  <2>2. r \in Reqs /\ r \notin resolved BY InFlight
  <2>3. ClosesMarked(r) BY <2>1, <2>2 DEF OnlyMarked, ClosesMarked, Finalize
  <2> QED BY <2>2, <2>3 DEF Change
<1>5. CASE SettleError
  <2>1. PICK r \in current : ~is_terminal(r) /\ End(r, "FAILED", <<>>) /\ gen' = gen
    BY <1>5 DEF SettleError
  <2>2. r \in Reqs /\ r \notin resolved /\ state[r] \in Computed BY <2>1, InFlight, LiveUnresolved
  <2> QED BY <2>1, <2>2, EndsIt
<1>6. CASE SettleToken
  <2>1. PICK r \in current :
          /\ ~is_terminal(r) /\ gen' = [gen EXCEPT ![r] = gen[r] + 1]
          /\ \/ End(r, "COMPLETED", <<gen[r] + 1>>)
             \/ state' = [state EXCEPT ![r] = "DECODING"] /\ resolved' = resolved
    BY <1>6 DEF SettleToken
  <2>2. r \in Reqs /\ r \notin resolved /\ state[r] \in Computed BY <2>1, InFlight, LiveUnresolved
  <2>3. Completes(r) \/ Emits(r) BY <2>1, <2>2 DEF Completes, Emits, End, Finalize
  <2> QED BY <2>2, <2>3 DEF Change
<1>7. CASE BeginRound \/ PassOver \/ DrainBacklog \/ Step \/ EndRound \/ EndAdmission \/ Wake
  BY <1>7 DEF BeginRound, PassOver, DrainBacklog, Step, EndRound, EndAdmission, Wake, BaseWake,
              request, Quiet
<1> QED BY <1>1, <1>2, <1>3, <1>4, <1>5, <1>6, <1>7 DEF Loop

\* The other tasks' steps.
LEMMA StepChanges ==
  ASSUME SerialInv, OnlyMarked, [Next]_vars
  PROVE  Quiet \/ \E r \in Reqs : Change(r)
<1>1. CASE \E r \in Reqs : Environment(r)
  <2>1. PICK r \in Reqs : Environment(r) BY <1>1
  <2>2. CASE Submit(r)
    <3>1. /\ state[r] = "new" /\ state' = [state EXCEPT ![r] = "WAITING"] /\ UNCHANGED <<gen, resolved>>
      BY <2>2 DEF Submit, BaseSubmit
    <3>2. Shifts(r) BY <3>1 DEF Shifts, Moves, States
    <3> QED BY <3>2 DEF Change
  <2>3. CASE Cancel(r)
    <3>1. state[r] # "new" /\ ~is_terminal(r) /\ gen' = gen BY <2>3 DEF Cancel, BaseCancel
    <3>2. r \notin resolved /\ state[r] \in {"WAITING"} \cup Computed BY <3>1, LiveUnresolved
    <3>3. CASE r \in current
      <4>1. state[r] \in Computed BY <3>1, <3>3, InFlight, LiveUnresolved
      <4>2. resolved' = resolved /\ state' = [state EXCEPT ![r] = "CANCELLED"]
        BY <2>3, <3>3 DEF Cancel, BaseCancel, Inflight
      <4>3. Shifts(r) BY <3>1, <4>1, <4>2 DEF Shifts, Moves, States, Terminal
      <4> QED BY <4>3 DEF Change
    <3>4. CASE r \notin current
      <4>1. End(r, "CANCELLED", <<>>) BY <2>3, <3>4 DEF Cancel, BaseCancel, Inflight
      <4> QED BY <3>1, <3>2, <4>1, EndsIt
    <3> QED BY <3>3, <3>4
  <2>4. CASE Consume(r) \/ QueueTimeout(r) \/ StallTimeout(r)
    BY <2>4 DEF Consume, BaseConsume, QueueTimeout, BaseQueueTimeout, StallTimeout, BaseStallTimeout,
                request, Quiet
  <2> QED BY <2>1, <2>2, <2>3, <2>4 DEF Environment
<1>2. CASE WorkerReturns \/ Stop \/ Halted \/ UNCHANGED vars
  BY <1>2 DEF WorkerReturns, Stop, BaseStop, Halted, vars, request, Quiet
<1> QED BY <1>1, <1>2, LoopChanges DEF Next

(* The serial loop keeps the promise about every request as well, for any  *)
(* number of requests and any configuration: whatever leaves the list      *)
(* during a pass over its copy, and whatever is cancelled in flight, a     *)
(* client sees the states and the stream of RequestLifecycle               *)
(* (scheduler.py:1-14, 296-348).                                           *)
THEOREM SerialImplementsLifecycle == Spec => LifecycleSpec
<1> DEFINE Inv == SerialInv /\ Streams /\ OnlyMarked
<1>1. Init => Inv /\ Lifecycle!Init
  BY SerialStarts, StreamsInit, LifecycleStarts DEF Init
<1>2. Inv /\ [Next]_vars => Inv' /\ [Lifecycle!Next]_(Lifecycle!vars)
  <2> SUFFICES ASSUME Inv, [Next]_vars PROVE Inv' /\ [Lifecycle!Next]_(Lifecycle!vars) OBVIOUS
  <2>1. SerialInv' /\ Streams' BY SerialStep, StreamsStep
  <2>2. gen \in [Reqs -> Nat] /\ state \in [Reqs -> States] /\ Streaming /\ Streaming'
    BY <2>1 DEF SerialInv, Places, PlacesType, FlightPlace, Streams
  <2>3. Quiet \/ \E r \in Reqs : Change(r) BY StepChanges
  <2>4. OnlyMarked' BY <2>2, <2>3, MarkedKept
  <2>5. [Lifecycle!Next]_(Lifecycle!vars) BY <2>2, <2>3, ChangeIsStep, QuietIsStutter
  <2> QED BY <2>1, <2>4, <2>5
<1> QED BY <1>1, <1>2, PTL DEF Spec, LifecycleSpec, Lifecycle!Spec
===============================================================================
