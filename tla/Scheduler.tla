------------------------------ MODULE Scheduler ------------------------------
(***************************************************************************)
(* What the two loops of class Scheduler (scheduler.py) have in common:    *)
(* the fields of the requests and of the scheduler, the streams, the       *)
(* terminal funnel, the reaper, and the other tasks of the event loop:     *)
(* submissions, cancellations, the consumers of the token streams.         *)
(* RaggedScheduler and SerialScheduler add a loop each. An action here is  *)
(* named Base..., and says nothing of what a loop keeps for itself.        *)
(*                                                                         *)
(* The event loop is cooperative: between two awaits the scheduler task    *)
(* runs alone. pc is the place of the task; an iteration of one of its for *)
(* or while loops is one step, and the other tasks take their steps only   *)
(* while it is at an await (AtAwait): the sleep at the end of an           *)
(* iteration, or a flight in the worker thread.                            *)
(*                                                                         *)
(* Time: only whether a timeout has passed matters. `late` holds the       *)
(* requests whose arrival is more than queue_timeout_seconds ago, and      *)
(* stalled[r] is "expired" once slow_consumer_timeout_seconds have passed  *)
(* since stalled_since_ns.                                                 *)
(*                                                                         *)
(* The k-th token of a request is the number k (the EOS event included,    *)
(* which carries no token id), so that a stream shows losses, repetitions  *)
(* and reorderings; STOP is 0.                                             *)
(***************************************************************************)
EXTENDS Integers, Sequences, FiniteSets, SequencesExt

CONSTANTS Reqs,
          PromptLen,         \* tokens of each request's prompt
          MaxOutput,         \* max_output_tokens of each request
          MaxQueueSize,      \* max_queue_size
          ActiveLimit,       \* effective_active_limit(config)
          StreamCapacity,    \* stream_queue_capacity
          MaxBatchedTokens,  \* max_batched_tokens
          MayExpire          \* the requests that may outlive the queue timeout

ASSUME ConfigAssumption ==
  /\ MaxQueueSize \in Nat /\ ActiveLimit \in Nat
  /\ StreamCapacity \in Nat \ {0} /\ MaxBatchedTokens \in Nat \ {0}
  /\ MayExpire \subseteq Reqs
ASSUME RequestAssumption ==
  /\ PromptLen \in [Reqs -> Nat \ {0}]
  /\ MaxOutput \in [Reqs -> Nat \ {0}]

VARIABLES
  pc,         \* where the scheduler task is
  waiting,    \* the deque of requests to admit
  active,     \* the admitted requests, in order of admission
  state,      \* Request.state; "new" before submission
  fed,        \* tokens_fed
  gen,        \* len(generated_token_ids)
  preempted,  \* the requests with preemption_count > 0
  rejected,   \* the requests with rejected set
  resolved,   \* the requests whose terminal_future is set
  outq,       \* output_queue, bounded by StreamCapacity
  pending,    \* pending_events, what did not fit in output_queue
  got,        \* what the consumer has taken off output_queue
  stalled,    \* stalled_since_ns: none, set, or older than the timeout
  late,       \* the requests that arrived longer ago than the timeout
  budget,     \* tokens left in this iteration
  outcome,    \* what the worker thread made of its work
  running     \* _running

request == <<state, fed, gen, preempted, rejected, resolved>>
streams == <<outq, pending, got, stalled>>

STOP == 0

Terminal == {"COMPLETED", "CANCELLED", "TIMED_OUT", "FAILED"}
States == {"new", "WAITING", "PREFILL", "DECODING"} \cup Terminal

is_terminal(r) == state[r] \in Terminal

Lesser(m, n) == IF m <= n THEN m ELSE n

AtAwait == pc \in {"sleep", "flight", "stopped"}

\* r is the first member of S in the sequence s.
FirstIn(s, S, r) ==
  \E i \in 1 .. Len(s) : s[i] = r /\ r \in S /\ \A j \in 1 .. i - 1 : s[j] \notin S

\* s.remove(r), when r is in s.
Without(s, r) ==
  IF \E i \in 1 .. Len(s) : s[i] = r
  THEN LET i == CHOOSE i \in 1 .. Len(s) : s[i] = r
       IN  SubSeq(s, 1, i - 1) \o SubSeq(s, i + 1, Len(s))
  ELSE s

BaseInit ==
  /\ pc = "sleep"
  /\ waiting = <<>> /\ active = <<>>
  /\ state = [r \in Reqs |-> "new"]
  /\ fed = [r \in Reqs |-> 0] /\ gen = [r \in Reqs |-> 0]
  /\ preempted = {} /\ rejected = {} /\ resolved = {}
  /\ outq = [r \in Reqs |-> <<>>] /\ pending = [r \in Reqs |-> <<>>]
  /\ got = [r \in Reqs |-> <<>>] /\ stalled = [r \in Reqs |-> "no"]
  /\ late = {}
  /\ budget = 0 /\ outcome = "none"
  /\ running = TRUE

-----------------------------------------------------------------------------
\* Streams: _publish and _drain_pending.

\* How many of the events p fit behind q.
Fits(q, p) == Lesser(StreamCapacity - Len(q), Len(p))

QueueAfter(q, p) == q \o SubSeq(p, 1, Fits(q, p))

\* Mutant: what does not fit is dropped.
OverflowLost(q, p) == <<>>

PendingAfter(q, p) == SubSeq(p, Fits(q, p) + 1, Len(p))

StallAfter(s, q, p) ==
  IF PendingAfter(q, p) = <<>> THEN "no" ELSE IF s = "no" THEN "yes" ELSE s

(* Each request of S gets the given events behind its pending ones, and as *)
(* much of them as fits moves into its output queue.                       *)
Deliver(S, events) ==
  LET p(r) == pending[r] \o events
  IN  /\ outq' = [r \in Reqs |-> IF r \in S THEN QueueAfter(outq[r], p(r)) ELSE outq[r]]
      /\ pending' = [r \in Reqs |-> IF r \in S THEN PendingAfter(outq[r], p(r)) ELSE pending[r]]
      /\ stalled' = [r \in Reqs |->
           IF r \in S THEN StallAfter(stalled[r], outq[r], p(r)) ELSE stalled[r]]
      /\ UNCHANGED got

\* Mutant: a request that still waits stays in the queue.
FinalizeActive(r, events) ==
  /\ active' = Without(active, r) /\ UNCHANGED waiting
  /\ Deliver({r}, Append(events, STOP))
  /\ resolved' = resolved \cup {r}

(* _finalize, with the events published just before it: the request leaves *)
(* both lists, STOP goes behind its events, and its future is resolved.    *)
(* The runner's release has no part in this module's state.                *)
Finalize(r, events) ==
  /\ active' = Without(active, r)
  /\ waiting' = Without(waiting, r)
  /\ Deliver({r}, Append(events, STOP))
  /\ resolved' = resolved \cup {r}

\* The request enters a terminal state and is finalized.
End(r, terminal, events) ==
  /\ state' = [state EXCEPT ![r] = terminal]
  /\ Finalize(r, events)

-----------------------------------------------------------------------------
\* The reaper, and the end of an iteration.

Overdue == {r \in ToSet(waiting) : r \in late /\ ~is_terminal(r)}

\* Mutant: no watchdog.
NoWatchdog == {}

SlowConsumers == {r \in ToSet(active) : stalled[r] = "expired" /\ ~is_terminal(r)}

\* _reap, its first loop.
BaseReapOverdue ==
  /\ pc = "reap"
  /\ \E r \in Overdue : FirstIn(waiting, Overdue, r) /\ End(r, "TIMED_OUT", <<>>)
  /\ UNCHANGED <<pc, fed, gen, preempted, rejected, late, budget, outcome, running>>

\* _reap, its second loop: the slow-client watchdog. Nothing is in flight here.
BaseReapStalled ==
  /\ pc = "reap" /\ Overdue = {}
  /\ \E r \in SlowConsumers : FirstIn(active, SlowConsumers, r) /\ End(r, "CANCELLED", <<>>)
  /\ UNCHANGED <<pc, fed, gen, preempted, rejected, late, budget, outcome, running>>

\* The sleep at the end of the iteration is over.
BaseWake ==
  /\ pc = "sleep"
  /\ pc' = IF running THEN "reap" ELSE "stopped"
  /\ UNCHANGED <<waiting, active, request, streams, late, budget, outcome, running>>

-----------------------------------------------------------------------------
\* The other tasks of the event loop, and time.

\* submit, of a request whose length has been accepted.
BaseSubmit(r) ==
  /\ AtAwait /\ pc # "stopped"
  /\ state[r] = "new" /\ Len(waiting) < MaxQueueSize
  /\ state' = [state EXCEPT ![r] = "WAITING"]
  /\ waiting' = Append(waiting, r)
  /\ UNCHANGED <<pc, active, fed, gen, preempted, rejected, resolved, streams,
                 late, budget, outcome, running>>

(* cancel: by the client, by a disconnect, or by close(). A request in     *)
(* flight is only marked.                                                  *)
BaseCancel(r, inflight) ==
  /\ AtAwait
  /\ state[r] # "new" /\ ~is_terminal(r)
  /\ IF r \in inflight
     THEN /\ state' = [state EXCEPT ![r] = "CANCELLED"]
          /\ UNCHANGED <<waiting, active, resolved, streams>>
     ELSE End(r, "CANCELLED", <<>>)
  /\ UNCHANGED <<pc, fed, gen, preempted, rejected, late, budget, outcome, running>>

\* RequestHandle.stream takes the next event; it ends with STOP.
BaseConsume(r) ==
  /\ AtAwait
  /\ outq[r] # <<>>
  /\ got' = [got EXCEPT ![r] = Append(@, Head(outq[r]))]
  /\ outq' = [outq EXCEPT ![r] = Tail(@)]
  /\ UNCHANGED <<pc, waiting, active, request, pending, stalled, late, budget, outcome, running>>

\* The queue timeout passes for a request, counted from its arrival.
BaseQueueTimeout(r) ==
  /\ AtAwait
  /\ r \in MayExpire \ late /\ state[r] # "new" /\ ~is_terminal(r)
  /\ late' = late \cup {r}
  /\ UNCHANGED <<pc, waiting, active, request, streams, budget, outcome, running>>

\* The slow-consumer timeout passes for a stalled request.
BaseStallTimeout(r) ==
  /\ AtAwait
  /\ stalled[r] = "yes" /\ ~is_terminal(r)
  /\ stalled' = [stalled EXCEPT ![r] = "expired"]
  /\ UNCHANGED <<pc, waiting, active, request, outq, pending, got, late, budget, outcome, running>>

(* InferenceEngine.close: it cancels every request and clears _running in  *)
(* one step of the event loop; the cancellations are Cancel steps here.    *)
BaseStop ==
  /\ AtAwait /\ running
  /\ \A r \in Reqs : state[r] # "new" => is_terminal(r)
  /\ running' = FALSE
  /\ UNCHANGED <<pc, waiting, active, request, streams, late, budget, outcome>>

-----------------------------------------------------------------------------
BaseType ==
  /\ waiting \in Seq(Reqs) /\ active \in Seq(Reqs)
  /\ state \in [Reqs -> States]
  /\ fed \in [Reqs -> Nat] /\ gen \in [Reqs -> Nat]
  /\ preempted \subseteq Reqs /\ rejected \subseteq Reqs /\ resolved \subseteq Reqs
  /\ outq \in [Reqs -> Seq(Nat)] /\ pending \in [Reqs -> Seq(Nat)] /\ got \in [Reqs -> Seq(Nat)]
  /\ stalled \in [Reqs -> {"no", "yes", "expired"}]
  /\ late \subseteq Reqs
  /\ budget \in Nat
  /\ running \in BOOLEAN

Distinct(s) == \A i, j \in 1 .. Len(s) : s[i] = s[j] => i = j

(* A request is never lost and never in two places: it is in the queue     *)
(* exactly while it waits, in the active list while it is being computed,  *)
(* and in neither once its future is resolved, through every admission,    *)
(* preemption, cancellation and failure (scheduler.py:326-346, 438-457,    *)
(* 527-553, 640-645).                                                      *)
Residence ==
  /\ Distinct(waiting) /\ Distinct(active)
  /\ \A r \in Reqs :
       /\ r \in ToSet(waiting) <=> state[r] = "WAITING"
       /\ state[r] \in {"PREFILL", "DECODING"} => r \in ToSet(active)
       /\ r \in ToSet(active) => state[r] # "new" /\ r \notin ToSet(waiting) \cup resolved
       /\ r \in resolved => is_terminal(r)

Counted(n) == [k \in 1 .. n |-> k]

(* The stream is lossless and in order: what the consumer has, what is     *)
(* queued and what is pending are together the tokens generated so far,    *)
(* each once, and STOP behind them exactly when the future is resolved     *)
(* (docs/03-continuous-batching.md:17, README.md:212 "token drift").       *)
StreamExact ==
  \A r \in Reqs :
    got[r] \o outq[r] \o pending[r] =
      IF r \in resolved THEN Append(Counted(gen[r]), STOP) ELSE Counted(gen[r])

(* A slow consumer stops only its own request, and at once: never more     *)
(* than one token waits behind a full queue (scheduler.py:305, 466, 610).  *)
BacklogBounded ==
  \A r \in Reqs : Len(pending[r]) <= IF r \in resolved THEN 2 ELSE 1

(* scheduler.py:10-12: "Every terminal path resolves the caller's future,  *)
(* closes the stream, records metrics, and releases cache": no request is  *)
(* left terminal and unresolved when an iteration has ended.               *)
TerminalResolved ==
  pc = "sleep" => \A r \in Reqs : is_terminal(r) => r \in resolved

(* Either loop keeps the promise of RequestLifecycle about each request,   *)
(* with all that was ever published to its consumer as the stream.         *)
Lifecycle == INSTANCE RequestLifecycle WITH
  stream <- [r \in Reqs |-> got[r] \o outq[r] \o pending[r]]

LifecycleSpec == Lifecycle!Spec
=============================================================================
