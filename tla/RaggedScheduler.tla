--------------------------- MODULE RaggedScheduler ---------------------------
(***************************************************************************)
(* The packed scheduler loop (scheduler.py, class Scheduler, _run_packed)  *)
(* with everything that runs on the same event loop (see Scheduler), and   *)
(* the worker thread that executes a plan.                                 *)
(*                                                                         *)
(* The runner is any runner: an admission may find a cached prefix or be   *)
(* refused, and an execution may succeed, raise CacheCapacityFull or raise *)
(* anything else. The preemption policy is any policy (it is a parameter   *)
(* of the class).                                                          *)
(***************************************************************************)
EXTENDS Scheduler

CONSTANT PrefillChunk  \* prefill_chunk_size

ASSUME ChunkAssumption == PrefillChunk \in Nat \ {0}

VARIABLE plan  \* the items of the current BatchPlan still to be dealt with

batch   == <<plan, budget, outcome>>
vars == <<pc, waiting, active, request, streams, late, batch, running>>

Known(r) == PromptLen[r] + gen[r]
Remaining(r) == Known(r) - fed[r]

Planned == {plan[i].req : i \in DOMAIN plan}

\* Mutant: the requests in flight are not recorded.
NoneInflight == {}

\* _inflight_ids
Inflight == IF pc = "flight" THEN Planned ELSE {}

Init == BaseInit /\ plan = <<>>

-----------------------------------------------------------------------------
\* The scheduler task: reap, drain, admit.

ReapOverdue == BaseReapOverdue /\ UNCHANGED plan
ReapStalled == BaseReapStalled /\ UNCHANGED plan

\* _drain_active_streams, after _reap has nothing left to do.
DrainActiveStreams ==
  /\ pc = "reap" /\ Overdue = {} /\ SlowConsumers = {}
  /\ Deliver({r \in ToSet(active) : pending[r] # <<>>}, <<>>)
  /\ pc' = "admit"
  /\ UNCHANGED <<waiting, active, request, late, batch, running>>

\* A preempted request waits until nothing is active.
MayAdmit ==
  /\ waiting # <<>> /\ Len(active) < ActiveLimit
  /\ Head(waiting) \in preempted => active = <<>>

\* Mutant: a cached prefix may cover the whole prompt.
AdmitWhole ==
  /\ pc = "admit" /\ MayAdmit
  /\ LET r == Head(waiting) IN
       /\ \E hit \in 0 .. PromptLen[r] : fed' = [fed EXCEPT ![r] = hit]
       /\ state' = [state EXCEPT ![r] = "PREFILL"]
       /\ active' = Append(active, r)
  /\ waiting' = Tail(waiting)
  /\ UNCHANGED <<pc, gen, preempted, rejected, resolved, streams, late, batch, running>>

(* _admit_waiting: the runner restores `hit` tokens of a cached prefix,    *)
(* never the whole prompt ...                                              *)
Admit ==
  /\ pc = "admit" /\ MayAdmit
  /\ LET r == Head(waiting) IN
       /\ \E hit \in 0 .. PromptLen[r] - 1 : fed' = [fed EXCEPT ![r] = hit]
       /\ state' = [state EXCEPT ![r] = "PREFILL"]
       /\ active' = Append(active, r)
  /\ waiting' = Tail(waiting)
  /\ UNCHANGED <<pc, gen, preempted, rejected, resolved, streams, late, batch, running>>

\* ... or raises; a capacity error counts as a rejection.
AdmissionRefused ==
  /\ pc = "admit" /\ MayAdmit
  /\ End(Head(waiting), "FAILED", <<>>)
  /\ rejected' \in {rejected, rejected \cup {Head(waiting)}}
  /\ UNCHANGED <<pc, fed, gen, preempted, late, batch, running>>

EndAdmission ==
  /\ pc = "admit" /\ ~MayAdmit
  /\ pc' = "plan" /\ budget' = MaxBatchedTokens /\ plan' = <<>>
  /\ UNCHANGED <<waiting, active, request, streams, late, outcome, running>>

-----------------------------------------------------------------------------
\* The scheduler task: the batch plan, its flight, and what comes back.

Eligible == {r \in ToSet(active) :
  ~is_terminal(r) /\ pending[r] = <<>> /\ stalled[r] = "no" /\ Remaining(r) > 0}

Decodes == {r \in Eligible : state[r] = "DECODING" /\ Remaining(r) = 1}

\* decode_first_priority, a stable sort: decodes first, each class in order.
Candidates ==
  IF Decodes \ Planned # {} THEN Decodes \ Planned ELSE Eligible \ Planned

\* Mutant: a chunk is not cut to the budget left.
PlanItemUncut ==
  /\ pc = "plan" /\ budget > 0
  /\ \E r \in Candidates :
       /\ FirstIn(active, Candidates, r)
       /\ LET limit == IF r \in Decodes THEN 1 ELSE PrefillChunk
              n == Lesser(Remaining(r), limit)
          IN  /\ plan' = Append(plan, [req |-> r, start |-> fed[r], end |-> fed[r] + n,
                                       sample |-> fed[r] + n = Known(r)])
              /\ budget' = budget - n
  /\ UNCHANGED <<pc, waiting, active, request, streams, late, outcome, running>>

\* One item of _build_batch_plan.
PlanItem ==
  /\ pc = "plan" /\ budget > 0
  /\ \E r \in Candidates :
       /\ FirstIn(active, Candidates, r)
       /\ LET limit == IF r \in Decodes THEN 1 ELSE PrefillChunk
              n == Lesser(Lesser(Remaining(r), limit), budget)
          IN  /\ plan' = Append(plan, [req |-> r, start |-> fed[r], end |-> fed[r] + n,
                                       sample |-> fed[r] + n = Known(r)])
              /\ budget' = budget - n
  /\ UNCHANGED <<pc, waiting, active, request, streams, late, outcome, running>>

\* An empty plan ends the iteration; another goes to the worker thread.
EndPlan ==
  /\ pc = "plan" /\ (budget = 0 \/ Candidates = {})
  /\ IF plan = <<>> THEN pc' = "sleep" /\ UNCHANGED outcome
                    ELSE pc' = "flight" /\ outcome' = "pending"
  /\ UNCHANGED <<waiting, active, request, streams, late, plan, budget, running>>

(* execute_batch in the worker thread. It moves tokens_fed last but one:   *)
(* only the choice of the tokens can still raise after that.               *)
WorkerReturns ==
  /\ pc = "flight" /\ outcome = "pending"
  /\ outcome' \in {"ok", "capacity", "error"}
  /\ \/ outcome' # "ok" /\ UNCHANGED fed
     \/ /\ outcome' # "capacity"
        /\ fed' = [r \in Reqs |->
             IF r \in Planned THEN plan[CHOOSE i \in DOMAIN plan : plan[i].req = r].end ELSE fed[r]]
  /\ UNCHANGED <<pc, waiting, active, state, gen, preempted, rejected, resolved,
                 streams, late, plan, budget, running>>

\* The scheduler task resumes after the await, and clears _inflight_ids.
Land ==
  /\ pc = "flight" /\ outcome # "pending"
  /\ pc' = "settle"
  /\ UNCHANGED <<waiting, active, request, streams, late, batch, running>>

Settling(o) == pc = "settle" /\ outcome = o /\ plan # <<>>

NextItem == plan' = Tail(plan) /\ UNCHANGED <<budget, outcome>>

\* An item whose request was cancelled in flight is finalized now ...
SettleCancelled ==
  /\ Settling("ok") \/ Settling("error")
  /\ is_terminal(Head(plan).req)
  /\ Finalize(Head(plan).req, <<>>)
  /\ NextItem
  /\ UNCHANGED <<pc, state, fed, gen, preempted, rejected, late, running>>

(* ... one that completes the known tokens yields the next token           *)
(* (_after_token), which may be EOS or the last one allowed ...            *)
SettleToken ==
  /\ Settling("ok") /\ Head(plan).sample
  /\ LET r == Head(plan).req
         token == gen[r] + 1
     IN  /\ ~is_terminal(r)
         /\ gen' = [gen EXCEPT ![r] = token]
         /\ \/ End(r, "COMPLETED", <<token>>)
            \/ /\ token < MaxOutput[r]
               /\ Deliver({r}, <<token>>)
               /\ state' = [state EXCEPT ![r] = "DECODING"]
               /\ UNCHANGED <<waiting, active, resolved>>
  /\ NextItem
  /\ UNCHANGED <<pc, fed, preempted, rejected, late, running>>

\* ... unless the runner left it out of its answer ...
SettleOmitted ==
  /\ Settling("ok") /\ Head(plan).sample
  /\ ~is_terminal(Head(plan).req)
  /\ End(Head(plan).req, "FAILED", <<>>)
  /\ NextItem
  /\ UNCHANGED <<pc, fed, gen, preempted, rejected, late, running>>

\* ... and a chunk of a longer prefill yields none.
SettleChunk ==
  /\ Settling("ok") /\ ~Head(plan).sample
  /\ ~is_terminal(Head(plan).req)
  /\ state' = [state EXCEPT ![Head(plan).req] = "PREFILL"]
  /\ NextItem
  /\ UNCHANGED <<pc, waiting, active, fed, gen, preempted, rejected, resolved,
                 streams, late, running>>

\* The forward raised: every request of the plan fails.
SettleError ==
  /\ Settling("error")
  /\ ~is_terminal(Head(plan).req)
  /\ End(Head(plan).req, "FAILED", <<>>)
  /\ NextItem
  /\ UNCHANGED <<pc, fed, gen, preempted, rejected, late, running>>

EndSettle ==
  /\ pc = "settle" /\ outcome \in {"ok", "error"} /\ plan = <<>>
  /\ pc' = "sleep" /\ outcome' = "none"
  /\ UNCHANGED <<waiting, active, request, streams, late, plan, budget, running>>

Runnable == {r \in ToSet(active) : ~is_terminal(r)}

\* The iteration ends with the plan given up.
DropPlan == pc' = "sleep" /\ plan' = <<>> /\ outcome' = "none" /\ UNCHANGED budget

\* Mutant: the victim starts over, its generated tokens forgotten.
PreemptRestart ==
  /\ pc = "settle" /\ outcome = "capacity"
  /\ \E a, b \in Runnable : a # b
  /\ \E v \in Runnable :
       /\ active' = Without(active, v)
       /\ waiting' = Append(waiting, v)
       /\ fed' = [fed EXCEPT ![v] = 0]
       /\ gen' = [gen EXCEPT ![v] = 0]
       /\ preempted' = preempted \cup {v}
       /\ state' = [state EXCEPT ![v] = "WAITING"]
  /\ DropPlan
  /\ UNCHANGED <<rejected, resolved, streams, late, running>>

(* _preempt_for_capacity: a victim among two or more goes back to the end  *)
(* of the queue, to be computed again from the start.  Unlike in _finalize *)
(* (646-649), a raise of the runner's release is not caught (546): it ends *)
(* the task.  Here release does not raise: nothing is in flight, and every *)
(* block it gives back is the victim's (BlocksExact of PagedKVCache).      *)
Preempt ==
  /\ pc = "settle" /\ outcome = "capacity"
  /\ \E a, b \in Runnable : a # b
  /\ \E v \in Runnable :
       /\ active' = Without(active, v)
       /\ waiting' = Append(waiting, v)
       /\ fed' = [fed EXCEPT ![v] = 0]
       /\ preempted' = preempted \cup {v}
       /\ state' = [state EXCEPT ![v] = "WAITING"]
  /\ DropPlan
  /\ UNCHANGED <<gen, rejected, resolved, streams, late, running>>

(* With one runnable request or none there is no victim: that request, if  *)
(* it is in the plan, fails as one the pool cannot hold. A request of the  *)
(* plan that was cancelled in flight is passed over.                       *)
RefuseForCapacity ==
  /\ pc = "settle" /\ outcome = "capacity"
  /\ ~\E a, b \in Runnable : a # b
  /\ \/ \E r \in Runnable \cap Planned :
          End(r, "FAILED", <<>>) /\ rejected' = rejected \cup {r}
     \/ /\ Runnable \cap Planned = {}
        /\ UNCHANGED <<waiting, active, state, rejected, resolved, streams>>
  /\ DropPlan
  /\ UNCHANGED <<fed, gen, preempted, late, running>>

Wake == BaseWake /\ UNCHANGED plan

-----------------------------------------------------------------------------
\* The other tasks of the event loop, and time.

Submit(r) == BaseSubmit(r) /\ UNCHANGED plan
Cancel(r) == BaseCancel(r, Inflight) /\ UNCHANGED plan
Consume(r) == BaseConsume(r) /\ UNCHANGED plan
QueueTimeout(r) == BaseQueueTimeout(r) /\ UNCHANGED plan
StallTimeout(r) == BaseStallTimeout(r) /\ UNCHANGED plan
Stop == BaseStop /\ UNCHANGED plan

\* The task has ended: nothing but the remaining events moves.
Halted == pc = "stopped" /\ UNCHANGED vars

Loop ==
  \/ ReapOverdue \/ ReapStalled \/ DrainActiveStreams
  \/ Admit \/ AdmissionRefused \/ EndAdmission
  \/ PlanItem \/ EndPlan \/ Land
  \/ SettleCancelled \/ SettleToken \/ SettleOmitted \/ SettleChunk \/ SettleError \/ EndSettle
  \/ Preempt \/ RefuseForCapacity \/ Wake

Environment(r) ==
  Submit(r) \/ Cancel(r) \/ Consume(r) \/ QueueTimeout(r) \/ StallTimeout(r)

Next == Loop \/ WorkerReturns \/ (\E r \in Reqs : Environment(r)) \/ Stop \/ Halted

Spec == Init /\ [][Next]_vars

(* Fairness. The task is scheduled again after every await and a forward   *)
(* ends one way or another. Time passes whatever the task does, but its    *)
(* passing is a step of an await here, hence strong fairness. Nothing      *)
(* makes a client submit, cancel or read.                                  *)
FairSpec ==
  /\ Spec
  /\ WF_vars(Loop) /\ WF_vars(WorkerReturns)
  /\ \A r \in Reqs : SF_vars(QueueTimeout(r)) /\ SF_vars(StallTimeout(r))

(* Every consumer goes on reading until it has read STOP: the event loop   *)
(* runs every ready task at each await of the scheduler, so a consumer     *)
(* with an event to take gets its turn.                                    *)
ReadingSpec ==
  /\ Spec
  /\ WF_vars(Loop) /\ WF_vars(WorkerReturns)
  /\ \A r \in Reqs : SF_vars(Consume(r))

-----------------------------------------------------------------------------
Item == [req : Reqs, start : Nat, end : Nat, sample : BOOLEAN]

TypeOK ==
  /\ BaseType
  /\ pc \in {"reap", "admit", "plan", "flight", "settle", "sleep", "stopped"}
  /\ plan \in Seq(Item)
  /\ outcome \in {"none", "pending", "ok", "capacity", "error"}

(* The worker thread's requests keep their place, and so their KV blocks,  *)
(* until the task is back: no cancellation, timeout or watchdog takes one  *)
(* out of the active list in flight, and no plan holds a request twice     *)
(* (scheduler.py:282, 521).                                                *)
InFlightPinned ==
  /\ Planned \subseteq ToSet(active)
  /\ \A i, j \in DOMAIN plan : plan[i].req = plan[j].req => i = j

\* The tokens the items of a plan feed.
Fed(p) ==
  LET sum[n \in 0 .. Len(p)] == IF n = 0 THEN 0 ELSE sum[n - 1] + (p[n].end - p[n].start)
  IN  sum[Len(p)]

(* What is handed to the worker keeps to the token budget and feeds each   *)
(* request its next tokens and no others (scheduler.py:495-517).           *)
PlanSound ==
  pc = "flight" /\ outcome = "pending" =>
    /\ Fed(plan) <= MaxBatchedTokens
    /\ \A i \in DOMAIN plan : LET r == plan[i].req IN
         /\ plan[i].start = fed[r] /\ fed[r] < plan[i].end /\ plan[i].end <= Known(r)
         /\ plan[i].sample <=> plan[i].end = Known(r)

(* A runnable request always has a token to feed; without one it would be  *)
(* passed over by every plan for ever (scheduler.py:473-475).              *)
AlwaysWork ==
  pc \in {"sleep", "reap", "admit"} => \A r \in Runnable : Remaining(r) > 0

(* Terminal transitions are irreversible (scheduler.py:10), and neither a  *)
(* late answer of the worker nor a preemption revives a request.           *)
TerminalFinal ==
  [][\A r \in Reqs : is_terminal(r) => state'[r] = state[r] /\ gen'[r] = gen[r]]_vars

(* Every submitted request is resolved in the end, by completion, failure  *)
(* or one of the two timeouts, whatever the consumers do; a request that   *)
(* was cancelled is excepted (see TerminalResolved), and so is an engine   *)
(* that is being closed.                                                   *)
EventuallyResolved ==
  \A r \in Reqs :
    state[r] \in {"WAITING", "PREFILL", "DECODING"} ~>
      (r \in resolved \/ state[r] = "CANCELLED" \/ ~running)

(* scheduler.py:650-651: "STOP is appended after any undelivered token     *)
(* events so the stream ends only once every generated token has been      *)
(* handed over": a reading consumer is handed every token, and STOP.       *)
StreamEnds ==
  \A r \in Reqs : r \in resolved ~> (got[r] # <<>> /\ Last(got[r]) = STOP)

=============================================================================
