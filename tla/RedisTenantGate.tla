--------------------------- MODULE RedisTenantGate ---------------------------
(***************************************************************************)
(* The distributed tenant gate (api.py, class RedisTenantGate) under the   *)
(* HTTP handler, for one tenant whose requests arrive at several           *)
(* containers. Each connection sends one request, which is also its lease. *)
(*                                                                         *)
(* The scripts run one at a time in Redis, but the handler that calls one  *)
(* is suspended, and the network is between them: a command may be served  *)
(* late or never, its answer may be lost, the Redis client may send it     *)
(* again on a new connection while an earlier copy is still on its way,    *)
(* and the call may raise, or its handler be cancelled, at any moment.     *)
(*                                                                         *)
(* Each container stamps its requests with its own clock, which is ahead   *)
(* of the time of the slowest one by Ahead.                                *)
(***************************************************************************)
EXTENDS ResponsesHandler, FiniteSetsExt, Functions

CONSTANTS Tokens,           \* prompt plus max_output_tokens of a request
          Ahead,            \* how far the clock of its container is ahead
          MaxConcurrent,    \* policy.max_concurrent
          TokensPerMinute,  \* policy.tokens_per_minute
          Window,           \* the 60 seconds of the rolling budget
          Lease,            \* lease_seconds
          MaxSends,         \* bound of the commands sent for one request
          MaxTime           \* bound of the clock

ASSUME RedisAssumption ==
  /\ Tokens \in [Conns -> Nat \ {0}] /\ Ahead \in [Conns -> Nat]
  /\ MaxConcurrent \in Nat \ {0} /\ TokensPerMinute \in Nat \ {0}
  /\ Window \in Nat \ {0} /\ Lease \in Nat \ {0}
  /\ MaxSends \in Nat \ {0} /\ MaxTime \in Nat

VARIABLES now,
          active,   \* the sorted set of leases, with their expiries
          tokens,   \* the sorted set of reservations, with their stamps
          counts,   \* the hash of reservations, with their sizes
          stored,   \* when a script last set the expiries of the three keys
          mail,     \* the commands that Redis has yet to serve
          sent,     \* how many commands a handler has sent
          answer,   \* what Redis answered to the last of them
          asked,    \* the stamp of a request
          granted,  \* the requests granted and not rolled back
          hitches   \* the requests with a call that was repeated, raised or cancelled

keys == <<active, tokens, counts, stored, granted>>
net == <<mail, sent, answer, hitches>>
vars == <<handler, now, keys, net, asked>>

Empty == [x \in {} |-> 0]

Clock(c) == now + Ahead[c]

Calling == {"acquiring", "rolling", "releasing"}
Commands == [kind : {"acquire", "release", "rollback"}, conn : Conns, copy : 1 .. MaxSends]

Init ==
  /\ InitHandler
  /\ now = 0 /\ stored = 0
  /\ active = Empty /\ tokens = Empty /\ counts = Empty
  /\ mail = {} /\ sent = [c \in Conns |-> 0] /\ answer = [c \in Conns |-> "none"]
  /\ asked = [c \in Conns |-> 0]
  /\ granted = {} /\ hitches = {}

-----------------------------------------------------------------------------
(* The scripts. *)

\* A field of a key is set: ZADD and HSET.
Put(key, c, value) == [d \in DOMAIN key \cup {c} |-> IF d = c THEN value ELSE key[d]]

\* What a script adds up in its loop.
Total(sizes, S) == MapThenSumSet(LAMBDA c : sizes[c], S)

Unexpired(t) == {c \in DOMAIN active : active[c] > t}
Recent(t) == {c \in DOMAIN tokens : tokens[c] > t - Window}

\* The reservations of the hash that a purge at time t leaves.
CountsAfter(t) == Restrict(counts, DOMAIN counts \ (DOMAIN tokens \ Recent(t)))

\* The first lines of both scripts: what is too old at time t goes.
Purge(t) ==
  /\ active' = Restrict(active, Unexpired(t))
  /\ tokens' = Restrict(tokens, Recent(t))
  /\ counts' = CountsAfter(t)

\* Mutant: one too many.
FullLate(t) == Cardinality(Unexpired(t)) > MaxConcurrent

Full(t) == Cardinality(Unexpired(t)) >= MaxConcurrent

Reserved(t) == Total(CountsAfter(t), DOMAIN CountsAfter(t))

\* Mutant: the request's own tokens are left out.
OverEmpty(c, t) == Reserved(t) > TokensPerMinute

Over(c, t) == Reserved(t) + Tokens[c] > TokensPerMinute

\* What a script returns reaches its handler if it still waits for this very command.
Reply(m, a) ==
  answer' = IF phase[m.conn] \in Calling /\ sent[m.conn] = m.copy
            THEN [answer EXCEPT ![m.conn] = a] ELSE answer

Acquire(m) ==
  LET c == m.conn
      t == asked[c]
  IN  /\ m.kind = "acquire"
      /\ \/ /\ Full(t) \/ Over(c, t)
            /\ Purge(t) /\ Reply(m, "refused") /\ UNCHANGED <<stored, granted>>
         \/ /\ ~Full(t) /\ ~Over(c, t)
            /\ active' = Put(Restrict(active, Unexpired(t)), c, t + Lease)
            /\ tokens' = Put(Restrict(tokens, Recent(t)), c, t)
            /\ counts' = Put(CountsAfter(t), c, Tokens[c])
            /\ stored' = now
            /\ granted' = granted \cup {c}
            /\ Reply(m, "granted")

Release(m) ==
  LET c == m.conn
  IN  /\ m.kind # "acquire"
      /\ active' = Restrict(active, DOMAIN active \ {c})
      /\ IF m.kind = "rollback"
         THEN /\ tokens' = Restrict(tokens, DOMAIN tokens \ {c})
              /\ counts' = Restrict(counts, DOMAIN counts \ {c})
              /\ granted' = granted \ {c}
         ELSE UNCHANGED <<tokens, counts, granted>>
      /\ Reply(m, "done") /\ UNCHANGED stored

Serve(m) ==
  /\ mail' = mail \ {m}
  /\ Acquire(m) \/ Release(m)
  /\ UNCHANGED <<handler, now, sent, asked, hitches>>

\* The scrape of /metrics purges as well, at the time of its container: a late one purges less.
Snapshot(c) ==
  /\ Purge(Clock(c))
  /\ UNCHANGED <<handler, now, stored, granted, net, asked>>

(* Time passes, and Redis drops a key that has not been renewed: the       *)
(* leases a minute after the last of them, the reservations after two.     *)
Tick ==
  /\ now < MaxTime
  /\ now' = now + 1
  /\ active' = IF now' < stored + Lease + Window THEN active ELSE Empty
  /\ IF now' < stored + 2 * Window THEN UNCHANGED <<tokens, counts>>
     ELSE tokens' = Empty /\ counts' = Empty
  /\ UNCHANGED <<handler, stored, granted, net, asked>>

-----------------------------------------------------------------------------
(* The handler. *)

Consume(c) == answer' = [answer EXCEPT ![c] = "none"] /\ UNCHANGED <<mail, sent, hitches>>

Send(c, kind) ==
  /\ sent[c] < MaxSends
  /\ sent' = [sent EXCEPT ![c] = @ + 1]
  /\ mail' = mail \cup {[kind |-> kind, conn |-> c, copy |-> sent[c] + 1]}
  /\ answer' = [answer EXCEPT ![c] = "none"]

Ask(c) ==
  /\ phase[c] = "idle"
  /\ Send(c, "acquire") /\ Goto(c, "acquiring")
  /\ asked' = [asked EXCEPT ![c] = Clock(c)]
  /\ UNCHANGED <<live, now, keys, hitches>>

\* 429.
Refused(c) ==
  /\ phase[c] = "acquiring" /\ answer[c] = "refused"
  /\ Goto(c, "over")
  /\ Consume(c) /\ UNCHANGED <<live, now, keys, asked>>

\* The engine accepts the submission.
Submit(c) ==
  /\ phase[c] = "acquiring" /\ answer[c] = "granted"
  /\ Begin(c)
  /\ Consume(c) /\ UNCHANGED <<now, keys, asked>>

\* Mutant: a refused submission keeps its lease.
SubmitRefusedKept(c) ==
  /\ phase[c] = "acquiring" /\ answer[c] = "granted"
  /\ Goto(c, "over")
  /\ Consume(c) /\ UNCHANGED <<live, now, keys, asked>>

\* The engine refuses the submission.
SubmitRefused(c) ==
  /\ phase[c] = "acquiring" /\ answer[c] = "granted"
  /\ Send(c, "rollback") /\ Goto(c, "rolling")
  /\ UNCHANGED <<live, now, keys, hitches, asked>>

\* handle.wait() is over: the request completed, or is answered with 500.
WaitEnds(c) ==
  /\ phase[c] = "waiting" /\ c \notin live
  /\ Send(c, "release") /\ Goto(c, "releasing")
  /\ UNCHANGED <<live, now, keys, hitches, asked>>

\* The handler is cancelled in handle.wait(): only the finally clauses run.
WaitCancelled(c) ==
  /\ phase[c] = "waiting"
  /\ CancelJob(c) /\ Send(c, "release") /\ Goto(c, "releasing")
  /\ UNCHANGED <<now, keys, hitches, asked>>

\* The stream is over or the client has gone: the finally clause of event_stream.
StreamEnds(c) ==
  /\ phase[c] = "streaming"
  /\ CancelJob(c) /\ Send(c, "release") /\ Goto(c, "releasing")
  /\ UNCHANGED <<now, keys, hitches, asked>>

\* A release has come through: the audit or the answer that is left changes nothing.
Released(c) ==
  /\ phase[c] \in {"rolling", "releasing"} /\ answer[c] = "done"
  /\ Goto(c, "over")
  /\ Consume(c) /\ UNCHANGED <<live, now, keys, asked>>

(* The connection breaks, and the Redis client sends the same command      *)
(* again; what was sent before may yet be served.                          *)
Repeat(c) ==
  /\ phase[c] \in Calling
  /\ Send(c, CASE phase[c] = "acquiring" -> "acquire"
               [] phase[c] = "rolling"   -> "rollback"
               [] OTHER                  -> "release")
  /\ hitches' = hitches \cup {c}
  /\ UNCHANGED <<handler, now, keys, asked>>

\* The call raises, which is answered with 503, or its handler is cancelled.
CallFails(c) ==
  /\ phase[c] \in Calling
  /\ Goto(c, "over")
  /\ answer' = [answer EXCEPT ![c] = "none"]
  /\ hitches' = hitches \cup {c}
  /\ UNCHANGED <<live, now, keys, mail, sent, asked>>

Next ==
  \/ \E c \in Conns :
       \/ Ask(c) \/ Refused(c) \/ Submit(c) \/ SubmitRefused(c)
       \/ WaitEnds(c) \/ WaitCancelled(c) \/ StreamEnds(c) \/ Released(c)
       \/ Repeat(c) \/ CallFails(c) \/ Snapshot(c)
       \/ (JobEnds(c) \/ StreamStarts(c) \/ StreamDropped(c))
          /\ UNCHANGED <<now, keys, net, asked>>
  \/ \E m \in mail : Serve(m)
  \/ Tick

Spec == Init /\ [][Next]_vars

-----------------------------------------------------------------------------
TypeOK ==
  /\ phase \in [Conns -> Calling \cup {"idle", "waiting", "responding", "streaming", "dropped", "over"}]
  /\ live \subseteq Conns
  /\ {now, stored} \subseteq Nat
  /\ \A f \in {active, tokens, counts} : DOMAIN f \subseteq Conns /\ f \in [DOMAIN f -> Nat]
  /\ mail \subseteq Commands
  /\ sent \in [Conns -> 0 .. MaxSends]
  /\ answer \in [Conns -> {"none", "granted", "refused", "done"}]
  /\ asked \in [Conns -> Nat]
  /\ granted \subseteq Conns /\ hitches \subseteq Conns

Fastest == now + Max({Ahead[c] : c \in Conns})
Holders == {c \in Conns : phase[c] \in {"waiting", "responding", "streaming", "dropped"}}

\* The holders whose leases no container believes to have expired.
SafeHolders == {c \in Holders : asked[c] + Lease > Fastest}

(* Across containers, no more requests than the policy allows hold a lease *)
(* that has not run out (api.py:227; README.md:601 "the atomic Redis gate  *)
(* enforces the same quotas across replicas").                             *)
LimitHeld == Cardinality(SafeHolders) <= MaxConcurrent

(* The requests granted within the last window of the fastest clock never  *)
(* add up to more than the budget, in whatever order their commands were   *)
(* served (api.py:229-230).                                                *)
WindowBudget ==
  Total(Tokens, {c \in granted : asked[c] > Fastest - Window}) <= TokensPerMinute

\* The handler serves the request, is about to, or still waits for the release.
Attended(c) ==
  \/ phase[c] \in {"waiting", "responding", "streaming"}
  \/ phase[c] = "acquiring" /\ answer[c] = "granted"
  \/ phase[c] \in {"rolling", "releasing"} /\ answer[c] # "done"

(* A slot is taken with no handler to give it back for two reasons only:   *)
(* one of its calls was repeated, raised or was cancelled, or its stream   *)
(* was dropped before the generator had started, every call answered       *)
(* (api.py:804-810, 832-833, 867, 887-890).                                *)
NoLeak ==
  \A c \in DOMAIN active : Attended(c) \/ c \in hitches \/ phase[c] = "dropped"

=============================================================================
