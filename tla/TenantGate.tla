----------------------------- MODULE TenantGate -----------------------------
(***************************************************************************)
(* The process-local tenant gate (api.py, classes TenantGate and           *)
(* TenantLease) under the HTTP handler, for one tenant: tenants share the  *)
(* gate's lock and nothing else.                                           *)
(*                                                                         *)
(* Nothing is awaited while the lock is held, so it is never contended,    *)
(* and scheduler.submit awaits nothing either: from the acquire to the     *)
(* wait, or to the return of the StreamingResponse, the handler is one     *)
(* step of the event loop, with four outcomes. A release is part of the    *)
(* step that makes it.                                                     *)
(*                                                                         *)
(* The clock counts ticks, Second of them to a second, so that the integer *)
(* seconds of Retry-After are coarser than the stamps they are made from.  *)
(***************************************************************************)
EXTENDS ResponsesHandler, SequencesExt

CONSTANTS Tokens,           \* prompt plus max_output_tokens of a connection's requests
          MaxConcurrent,    \* policy.max_concurrent
          TokensPerMinute,  \* policy.tokens_per_minute
          Window,           \* the 60 seconds of the rolling budget
          Second,           \* ticks of the clock per second
          MaxTime           \* bound of the clock

ASSUME PolicyAssumption ==
  /\ Tokens \in [Conns -> Nat \ {0}]
  /\ MaxConcurrent \in Nat \ {0} /\ TokensPerMinute \in Nat \ {0}
  /\ Window \in Nat \ {0} /\ Second \in Nat \ {0} /\ MaxTime \in Nat

VARIABLES now,
          active,   \* _active of the tenant
          history,  \* _tokens of the tenant, oldest first
          granted   \* what was reserved in the window and not rolled back

gate == <<active, history, granted>>
vars == <<handler, now, gate>>

Holders == {c \in Conns : phase[c] # "idle"}

Total(h) ==
  LET sum[n \in 0 .. Len(h)] == IF n = 0 THEN 0 ELSE sum[n - 1] + h[n].tokens
  IN  sum[Len(h)]

\* What of h, which is in the order of its stamps, is younger than t.
Since(h, t) == SubSeq(h, Cardinality({i \in DOMAIN h : h[i].stamp <= t}) + 1, Len(h))

Init ==
  /\ InitHandler
  /\ now = 0 /\ active = 0
  /\ history = <<>> /\ granted = <<>>

-----------------------------------------------------------------------------
\* The head of the history is dropped while it is older than the window.
Kept ==
  LET fresh == {i \in DOMAIN history : history[i].stamp > now - Window * Second}
  IN  IF fresh = {} THEN <<>>
      ELSE SubSeq(history, CHOOSE i \in fresh : \A j \in fresh : i <= j, Len(history))

\* Mutant: one too many.
BusyLate == active > MaxConcurrent

Busy == active >= MaxConcurrent

\* Mutant: the request's own tokens are left out.
OverEmpty(c) == Total(Kept) > TokensPerMinute

Over(c) == Total(Kept) + Tokens[c] > TokensPerMinute

\* Mutant: seconds rounded down from the exact wait.
RetryRounded == (Window * Second - (now - Kept[1].stamp)) \div Second

\* int(61 - (now - history[0][0])), the Retry-After of an exceeded budget.
RetryAfter ==
  LET wait == ((Window + 1) * Second - (now - Kept[1].stamp)) \div Second
  IN  IF wait > 1 THEN wait ELSE 1

Entry(c) == [stamp |-> now, tokens |-> Tokens[c]]

\* deque.remove: the first entry equal to e.
Removed(h, e) ==
  LET i == CHOOSE i \in DOMAIN h : h[i] = e /\ \A j \in 1 .. i - 1 : h[j] # e
  IN  IF Contains(h, e) THEN SubSeq(h, 1, i - 1) \o SubSeq(h, i + 1, Len(h)) ELSE h

\* 429, for concurrency or for tokens; what was too old is gone all the same.
Refuse(c) ==
  /\ phase[c] = "idle" /\ (Busy \/ Over(c))
  /\ history' = Kept
  /\ UNCHANGED <<handler, now, active, granted>>

\* Mutant: the tokens of a refused submission stay reserved.
SubmitRefusedKept(c) ==
  /\ phase[c] = "idle" /\ ~Busy /\ ~Over(c)
  /\ history' = Append(Kept, Entry(c))
  /\ UNCHANGED <<handler, now, active, granted>>

(* The gate grants a lease, the engine refuses the submission, and the     *)
(* lease is released with its tokens.                                      *)
SubmitRefused(c) ==
  /\ phase[c] = "idle" /\ ~Busy /\ ~Over(c)
  /\ history' = Removed(Append(Kept, Entry(c)), Entry(c))
  /\ UNCHANGED <<handler, now, active, granted>>

\* The gate grants a lease and the engine accepts the submission.
Submit(c) ==
  /\ phase[c] = "idle" /\ ~Busy /\ ~Over(c)
  /\ Begin(c)
  /\ active' = active + 1
  /\ history' = Append(Kept, Entry(c))
  /\ granted' = Append(granted, Entry(c))
  /\ UNCHANGED now

\* Mutant: an end that leaves the lease taken.
DoneKept(c) == Goto(c, "idle") /\ UNCHANGED <<now, gate>>

\* The lease is released; its tokens stay reserved.
Done(c) ==
  /\ Goto(c, "idle")
  /\ active' = active - 1
  /\ UNCHANGED <<now, history, granted>>

\* handle.wait() is over: the request completed, or is answered with 500.
WaitEnds(c) == phase[c] = "waiting" /\ c \notin live /\ Done(c) /\ UNCHANGED live

\* The handler is cancelled in handle.wait(): the finally clauses run.
WaitCancelled(c) == phase[c] = "waiting" /\ Done(c) /\ CancelJob(c)

(* The stream is over, or the client has gone, or wait() raised at its     *)
(* end: the finally clause of event_stream.                                *)
StreamEnds(c) == phase[c] = "streaming" /\ Done(c) /\ CancelJob(c)

Tick ==
  /\ now < MaxTime
  /\ now' = now + 1
  /\ granted' = Since(granted, now' - Window * Second)
  /\ UNCHANGED <<handler, active, history>>

Next ==
  \/ \E c \in Conns :
       \/ Refuse(c) \/ SubmitRefused(c) \/ Submit(c)
       \/ WaitEnds(c) \/ WaitCancelled(c) \/ StreamEnds(c)
       \/ (JobEnds(c) \/ StreamStarts(c) \/ StreamDropped(c)) /\ UNCHANGED <<now, gate>>
  \/ Tick

Spec == Init /\ [][Next]_vars

-----------------------------------------------------------------------------
Reservation == [stamp : Nat, tokens : Nat]

TypeOK ==
  /\ phase \in [Conns -> {"idle", "waiting", "responding", "streaming", "dropped"}]
  /\ live \subseteq Conns
  /\ now \in Nat /\ active \in Nat
  /\ history \in Seq(Reservation) /\ granted \in Seq(Reservation)

(* The counter is the number of requests that hold a lease, whichever way  *)
(* each of the others came to its end, and never above the policy          *)
(* (api.py:164, 179-185; README.md:591 "Concurrent leases remain held      *)
(* through blocking completion or the full SSE lifecycle").                *)
LeasesExact == active = Cardinality(Holders) /\ active <= MaxConcurrent

(* No window of the rolling budget holds more than the policy allows,      *)
(* whatever has been dropped from the history (api.py:161, 171, 180).      *)
WindowBudget == Total(granted) <= TokensPerMinute

(* The history forgets nothing that is still in the window and keeps       *)
(* nothing that was rolled back, though it is cut from the front and       *)
(* searched by value (api.py:161, 188); equal entries may change places.   *)
HistoryExact ==
  \A e \in ToSet(history) \cup ToSet(granted) :
    LET copies(h) == Cardinality({i \in DOMAIN h : h[i] = e})
    IN  e.stamp > now - Window * Second => copies(history) = copies(granted)

(* A client that waits as long as Retry-After tells it to finds the oldest *)
(* reservation gone (api.py:172).                                          *)
RetrySuffices ==
  Kept # <<>> => Kept[1].stamp <= now + RetryAfter * Second - Window * Second

(* What the gate promises, with a lease for each connection that holds one. *)
Leases == INSTANCE LeasePool WITH Clients <- Conns, Capacity <- MaxConcurrent, held <- Holders

LeasesSpec == Leases!Spec
=============================================================================
