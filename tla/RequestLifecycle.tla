-------------------------- MODULE RequestLifecycle --------------------------
(***************************************************************************)
(* What the scheduler promises about one request, whatever it does with    *)
(* batches, queues and preemption (scheduler.py:1-14, _publish 609-614,    *)
(* _finalize 640-655): the state machine of a request, and the stream its  *)
(* consumer sees as one unbounded channel. The channel carries the tokens  *)
(* 1, 2, 3, ... in order, each once, and STOP (0) last, put there in the   *)
(* same step that resolves the request's future.                           *)
(***************************************************************************)
EXTENDS Integers, Sequences

CONSTANT Reqs

VARIABLES state,     \* Request.state, "new" before submission
          stream,    \* all that was ever published to the consumer
          resolved   \* the requests whose future is resolved

vars == <<state, stream, resolved>>

STOP == 0

Admitted == {"PREFILL", "DECODING"}
Live     == {"WAITING"} \cup Admitted

Goto(r, s) == state' = [state EXCEPT ![r] = s]

Init ==
  /\ state = [r \in Reqs |-> "new"]
  /\ stream = [r \in Reqs |-> <<>>]
  /\ resolved = {}

\* The events go out, STOP behind them, and the future is resolved.
Close(r, events) ==
  /\ r \notin resolved
  /\ stream' = [stream EXCEPT ![r] = Append(@ \o events, STOP)]
  /\ resolved' = resolved \cup {r}

Submit(r) == state[r] = "new" /\ Goto(r, "WAITING") /\ UNCHANGED <<stream, resolved>>

Admit(r) == state[r] = "WAITING" /\ Goto(r, "PREFILL") /\ UNCHANGED <<stream, resolved>>

\* A victim of capacity pressure waits again; its stream stays as it is.
Preempt(r) == state[r] \in Admitted /\ Goto(r, "WAITING") /\ UNCHANGED <<stream, resolved>>

NextToken(r) == Len(stream[r]) + 1

Emit(r) ==
  /\ state[r] \in Admitted
  /\ Goto(r, "DECODING")
  /\ stream' = [stream EXCEPT ![r] = Append(@, NextToken(r))]
  /\ UNCHANGED resolved

Complete(r) ==
  /\ state[r] \in Admitted
  /\ Goto(r, "COMPLETED")
  /\ Close(r, <<NextToken(r)>>)

TimeOut(r) == state[r] = "WAITING" /\ Goto(r, "TIMED_OUT") /\ Close(r, <<>>)

Fail(r) == state[r] \in Live /\ Goto(r, "FAILED") /\ Close(r, <<>>)

Cancel(r) == state[r] \in Live /\ Goto(r, "CANCELLED") /\ Close(r, <<>>)

\* A cancellation in flight is marked first and closed later.
Mark(r) == state[r] \in Admitted /\ Goto(r, "CANCELLED") /\ UNCHANGED <<stream, resolved>>

CloseMarked(r) == state[r] = "CANCELLED" /\ Close(r, <<>>) /\ UNCHANGED state

Next == \E r \in Reqs :
  \/ Submit(r) \/ Admit(r) \/ Preempt(r) \/ Emit(r) \/ Complete(r)
  \/ TimeOut(r) \/ Fail(r) \/ Cancel(r) \/ Mark(r) \/ CloseMarked(r)

Spec == Init /\ [][Next]_vars
=============================================================================
