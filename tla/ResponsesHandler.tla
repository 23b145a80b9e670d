-------------------------- MODULE ResponsesHandler --------------------------
(***************************************************************************)
(* POST /v1/responses from the moment its body is validated (api.py,       *)
(* responses, 799-908), apart from the gate: where the handler of each     *)
(* connection is, and whether the engine still works for it. TenantGate    *)
(* and RedisTenantGate add their gates to it.                              *)
(*                                                                         *)
(* A connection sends one request after another; Conns are the connections *)
(* of one tenant. The engine is reduced to what the handler sees of it: a  *)
(* submission is accepted or refused, and an accepted request ends by      *)
(* itself or by the handler's cancellation (one in flight is marked, and   *)
(* terminal from then on).                                                 *)
(*                                                                         *)
(* The framework around the handler is external: it may cancel a handler   *)
(* at an await, and it may drop a StreamingResponse before or after it has *)
(* started the generator.                                                  *)
(***************************************************************************)
EXTENDS Integers, Sequences, FiniteSets

CONSTANTS Conns,
          Streamed  \* the connections whose requests have stream=true

ASSUME ConnsAssumption == IsFiniteSet(Conns) /\ Streamed \subseteq Conns

VARIABLES phase,  \* where the handler of the connection's request is
          live    \* the connections whose engine request is not terminal

handler == <<phase, live>>

InitHandler == phase = [c \in Conns |-> "idle"] /\ live = {}

Goto(c, p) == phase' = [phase EXCEPT ![c] = p]

(* An accepted submission is waited for, or streamed by a generator that   *)
(* the framework has yet to start.                                         *)
Begin(c) ==
  /\ Goto(c, IF c \in Streamed THEN "responding" ELSE "waiting")
  /\ live' = live \cup {c}

\* The scheduler ends the request.
JobEnds(c) == c \in live /\ live' = live \ {c} /\ UNCHANGED phase

StreamStarts(c) == phase[c] = "responding" /\ Goto(c, "streaming") /\ UNCHANGED live

(* The client has gone before that: the generator is thrown away, and as   *)
(* it never ran, its finally clause does not run either.                   *)
StreamDropped(c) == phase[c] = "responding" /\ Goto(c, "dropped") /\ UNCHANGED live

\* An early exit cancels the engine's request (RequestHandle.stream, event_stream).
CancelJob(c) == live' = live \ {c}
=============================================================================
