--------------------------- MODULE SerialScheduler ---------------------------
(***************************************************************************)
(* The serial scheduler loop (scheduler.py, class Scheduler, _run_serial   *)
(* and _step), which runs the five modes before the ragged one: an         *)
(* iteration advances the active requests by a token each, then admits     *)
(* waiting ones and computes their prompts, one request at a time in the   *)
(* worker thread.                                                          *)
(*                                                                         *)
(* The pass goes over a copy of the active list, while cancellations at    *)
(* its awaits take requests out of the list itself. The runner is any      *)
(* runner: an admission and a step may raise.                              *)
(***************************************************************************)
EXTENDS Scheduler

VARIABLES round,   \* what is left of list(self.active), the copy of the pass
          current  \* the request of the step in the worker thread, if any

own == <<round, current>>
vars == <<pc, waiting, active, request, streams, late, budget, outcome, running, own>>

\* _inflight
Inflight == current

Init == BaseInit /\ round = <<>> /\ current = {}

-----------------------------------------------------------------------------
\* The scheduler task: reap, then one token for each active request.

ReapOverdue == BaseReapOverdue /\ UNCHANGED own
ReapStalled == BaseReapStalled /\ UNCHANGED own

BeginRound ==
  /\ pc = "reap" /\ Overdue = {} /\ SlowConsumers = {}
  /\ pc' = "round" /\ round' = active /\ budget' = MaxBatchedTokens
  /\ UNCHANGED <<waiting, active, request, streams, late, outcome, running, current>>

Passing == pc = "round" /\ round # <<>> /\ round' = Tail(round)

(* A request that came to its end during the pass is still in the copy,    *)
(* and is passed over.                                                     *)
PassOver ==
  /\ Passing /\ is_terminal(Head(round))
  /\ UNCHANGED <<pc, waiting, active, request, streams, late, budget, outcome, running, current>>

(* A request whose consumer is behind has its backlog delivered, and gets  *)
(* no token in this iteration.                                             *)
DrainBacklog ==
  /\ Passing /\ budget > 0 /\ ~is_terminal(Head(round))
  /\ pending[Head(round)] # <<>> /\ Deliver({Head(round)}, <<>>)
  /\ UNCHANGED <<pc, waiting, active, request, late, budget, outcome, running, current>>

\* A request goes to the worker thread.
Fly(r) == pc' = "flight" /\ outcome' = "pending" /\ current' = {r}

\* Mutant: a request that left the list during the pass is stepped all the same.
StepStale ==
  /\ Passing /\ budget > 0
  /\ pending[Head(round)] = <<>> /\ stalled[Head(round)] = "no"
  /\ Fly(Head(round))
  /\ UNCHANGED <<waiting, active, request, streams, late, budget, running>>

(* The others are stepped. None is stalled with nothing pending, so that   *)
(* the second test of the loop (scheduler.py:309) skips no request.        *)
Step ==
  /\ Passing /\ budget > 0 /\ ~is_terminal(Head(round))
  /\ pending[Head(round)] = <<>> /\ stalled[Head(round)] = "no"
  /\ Fly(Head(round))
  /\ UNCHANGED <<waiting, active, request, streams, late, budget, running>>

\* The pass is over, or the budget spent.
EndRound ==
  /\ pc = "round"
  /\ round = <<>> \/ (budget = 0 /\ ~is_terminal(Head(round)))
  /\ pc' = "admit" /\ round' = <<>>
  /\ UNCHANGED <<waiting, active, request, streams, late, budget, outcome, running, current>>

-----------------------------------------------------------------------------
\* The scheduler task: admissions, each with the step that computes the prompt.

\* A prompt that does not fit waits for a fresh iteration, and so do those behind it.
MayAdmit ==
  /\ waiting # <<>> /\ Len(active) < ActiveLimit /\ budget > 0
  /\ PromptLen[Head(waiting)] <= budget

Admit ==
  /\ pc = "admit" /\ MayAdmit
  /\ waiting' = Tail(waiting)
  /\ active' = Append(active, Head(waiting))
  /\ state' = [state EXCEPT ![Head(waiting)] = "PREFILL"]
  /\ Fly(Head(waiting))
  /\ UNCHANGED <<fed, gen, preempted, rejected, resolved, streams, late, budget, running, round>>

\* runner.admit raises; a capacity error counts as a rejection.
AdmissionRefused ==
  /\ pc = "admit" /\ MayAdmit
  /\ End(Head(waiting), "FAILED", <<>>)
  /\ rejected' \in {rejected, rejected \cup {Head(waiting)}}
  /\ UNCHANGED <<pc, fed, gen, preempted, late, budget, outcome, running, own>>

EndAdmission ==
  /\ pc = "admit" /\ ~MayAdmit
  /\ pc' = "sleep"
  /\ UNCHANGED <<waiting, active, request, streams, late, budget, outcome, running, own>>

Wake == BaseWake /\ UNCHANGED own

-----------------------------------------------------------------------------
\* The step in the worker thread, and what becomes of it.

\* Mutant: a prefill does not count as a token fed.
WorkerReturnsUncounted ==
  /\ pc = "flight" /\ outcome = "pending"
  /\ outcome' \in {"ok", "error"}
  /\ \E r \in current : fed' = [fed EXCEPT ![r] = IF @ = 0 THEN 0 ELSE @ + 1]
  /\ UNCHANGED <<pc, waiting, active, state, gen, preempted, rejected, resolved, streams,
                 late, budget, running, own>>

(* runner.step moves tokens_fed last but one: only the choice of the token *)
(* can still raise after that.                                             *)
WorkerReturns ==
  /\ pc = "flight" /\ outcome = "pending"
  /\ outcome' \in {"ok", "error"}
  /\ \/ outcome' = "error" /\ UNCHANGED fed
     \/ \E r \in current : fed' = [fed EXCEPT ![r] = @ + 1]
  /\ UNCHANGED <<pc, waiting, active, state, gen, preempted, rejected, resolved, streams,
                 late, budget, running, own>>

(* The task resumes, clears _inflight, and goes on with the pass, or with  *)
(* the admissions, for which no pass is left.                              *)
Landed(r, o) ==
  /\ pc = "flight" /\ outcome = o /\ r \in current
  /\ pc' = IF round = <<>> THEN "admit" ELSE "round"
  /\ outcome' = "none" /\ current' = {}
  /\ UNCHANGED <<fed, preempted, rejected, late, running, round>>

\* Mutant: an error of the step hides a cancellation during it.
SettleCancelledOk ==
  \E r \in current :
    /\ Landed(r, "ok") \/ Landed(r, "error")
    /\ is_terminal(r)
    /\ IF outcome = "ok" THEN Finalize(r, <<>>)
                         ELSE UNCHANGED <<waiting, active, streams, resolved>>
    /\ UNCHANGED <<state, gen, budget>>

\* A request that was cancelled in flight is finalized now ...
SettleCancelled ==
  \E r \in current :
    /\ Landed(r, "ok") \/ Landed(r, "error")
    /\ is_terminal(r) /\ Finalize(r, <<>>)
    /\ UNCHANGED <<state, gen, budget>>

\* ... one whose step raised fails ...
SettleError ==
  \E r \in current :
    /\ Landed(r, "error")
    /\ ~is_terminal(r) /\ End(r, "FAILED", <<>>)
    /\ UNCHANGED <<gen, budget>>

\* Mutant: a token that comes back for a cancelled request is published.
SettleTokenRevive ==
  \E r \in current :
    /\ Landed(r, "ok")
    /\ budget' = budget - 1
    /\ gen' = [gen EXCEPT ![r] = @ + 1]
    /\ Deliver({r}, <<gen[r] + 1>>)
    /\ state' = [state EXCEPT ![r] = "DECODING"]
    /\ UNCHANGED <<waiting, active, resolved>>

(* ... and the others have their next token, which may be EOS or the last  *)
(* one allowed. A prompt, computed in one step, costs its length.          *)
SettleToken ==
  \E r \in current :
    /\ Landed(r, "ok") /\ ~is_terminal(r)
    /\ budget' = budget - IF state[r] = "PREFILL" THEN PromptLen[r] ELSE 1
    /\ gen' = [gen EXCEPT ![r] = @ + 1]
    /\ \/ End(r, "COMPLETED", <<gen[r] + 1>>)
       \/ /\ gen[r] + 1 < MaxOutput[r]
          /\ Deliver({r}, <<gen[r] + 1>>)
          /\ state' = [state EXCEPT ![r] = "DECODING"]
          /\ UNCHANGED <<waiting, active, resolved>>

-----------------------------------------------------------------------------
\* The other tasks of the event loop, and time.

Submit(r) == BaseSubmit(r) /\ UNCHANGED own
Cancel(r) == BaseCancel(r, Inflight) /\ UNCHANGED own
Consume(r) == BaseConsume(r) /\ UNCHANGED own
QueueTimeout(r) == BaseQueueTimeout(r) /\ UNCHANGED own
StallTimeout(r) == BaseStallTimeout(r) /\ UNCHANGED own
Stop == BaseStop /\ UNCHANGED own

\* The task has ended: nothing but the remaining events moves.
Halted == pc = "stopped" /\ UNCHANGED vars

Loop ==
  \/ ReapOverdue \/ ReapStalled
  \/ BeginRound \/ PassOver \/ DrainBacklog \/ Step \/ EndRound
  \/ Admit \/ AdmissionRefused \/ EndAdmission
  \/ SettleCancelled \/ SettleError \/ SettleToken
  \/ Wake

Environment(r) ==
  Submit(r) \/ Cancel(r) \/ Consume(r) \/ QueueTimeout(r) \/ StallTimeout(r)

Next == Loop \/ WorkerReturns \/ (\E r \in Reqs : Environment(r)) \/ Stop \/ Halted

Spec == Init /\ [][Next]_vars

\* Fairness, as in RaggedScheduler.
FairSpec ==
  /\ Spec
  /\ WF_vars(Loop) /\ WF_vars(WorkerReturns)
  /\ \A r \in Reqs : SF_vars(QueueTimeout(r)) /\ SF_vars(StallTimeout(r))

-----------------------------------------------------------------------------
TypeOK ==
  /\ BaseType
  /\ pc \in {"reap", "round", "admit", "flight", "sleep", "stopped"}
  /\ outcome \in {"none", "pending", "ok", "error"}
  /\ round \in Seq(Reqs) /\ current \subseteq Reqs

(* The request in the worker thread keeps its place, and so its KV cache,  *)
(* until the task is back, and is not one that has left during the pass    *)
(* (scheduler.py:282, 301).                                                *)
InFlightPinned == current \subseteq ToSet(active)

(* A step feeds the token generated last, or the prompt: the runner takes  *)
(* generated_token_ids[tokens_fed - 1], and the K/V position from          *)
(* tokens_fed (engine.py:168-190).                                         *)
FeedsNext == outcome = "pending" => \A r \in current : fed[r] = gen[r]

(* Every submitted request is resolved in the end, a cancelled one         *)
(* included, whatever the consumers do, unless the engine is being closed. *)
EventuallyResolved ==
  \A r \in Reqs : state[r] # "new" ~> (r \in resolved \/ ~running)

=============================================================================
