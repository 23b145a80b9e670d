------------------------ MODULE RedisTenantGate_proofs ------------------------
(***************************************************************************)
(* The distributed tenant gate keeps its promises for any number of        *)
(* containers and connections, any policy and any clocks, whatever the     *)
(* network loses, delays or repeats.                                       *)
(***************************************************************************)
EXTENDS RedisTenantGate, FiniteSetTheorems, WellFoundedInduction, TLAPS

-----------------------------------------------------------------------------
(* Total, which the library defines by recursion over a finite set: each   *)
(* fact holds of a set if it holds of the set without any one element.     *)

\* g gives the total of every subset: that of its first element and that of the rest.
First(s) == CHOOSE x \in s : TRUE
Body(f, g, s) == IF s = {} THEN 0 ELSE f[First(s)] + g[s \ {First(s)}]
IsTotal(f, S, g) == g = [s \in SUBSET S |-> Body(f, g, s)]

\* The library chooses such a function.
LEMMA TotalOf == ASSUME NEW f, NEW S PROVE Total(f, S) = (CHOOSE g : IsTotal(f, S, g))[S]
BY DEF Total, MapThenSumSet, MapThenFoldSet, IsTotal, Body, First

\* The first of a set is in it.
LEMMA FirstIn == ASSUME NEW s, s # {} PROVE First(s) \in s
BY DEF First

\* Of the sets in T some set has no part in T with one element less.
LEMMA LeastSet ==
  ASSUME NEW S, IsFiniteSet(S), NEW T, T \subseteq SUBSET S, T # {}
  PROVE  \E s \in T : \A x \in s : s \ {x} \notin T
<1>1. T \subseteq FiniteSubsetsOf(S)
  BY FS_Subset DEF FiniteSubsetsOf
<1>2. PICK s \in T : \A u \in T : ~ (<<u, s>> \in StrictSubsetOrdering(S))
  BY <1>1, FS_StrictSubsetOrderingWellFounded, WFMin
<1>3. ASSUME NEW x \in s PROVE s \ {x} \notin T
  BY <1>2 DEF StrictSubsetOrdering
<1> QED BY <1>2, <1>3

\* Two such functions agree.
LEMMA TotalUnique ==
  ASSUME NEW f, NEW S1, NEW S2, NEW g1, NEW g2, IsFiniteSet(S1),
         IsTotal(f, S1, g1), IsTotal(f, S2, g2), NEW s0 \in SUBSET S1, s0 \in SUBSET S2
  PROVE  g1[s0] = g2[s0]
<1> DEFINE T == {s \in SUBSET S1 : s \in SUBSET S2 /\ g1[s] # g2[s]}
<1> SUFFICES ASSUME T # {} PROVE FALSE OBVIOUS
<1>1. PICK s \in T : \A x \in s : s \ {x} \notin T
  <2>1. T \subseteq SUBSET S1 OBVIOUS
  <2> QED BY <2>1, LeastSet
<1>2. g1[s] = Body(f, g1, s) /\ g2[s] = Body(f, g2, s)
  BY DEF IsTotal
<1>3. s # {} BY <1>2 DEF Body
<1>4. g1[s \ {First(s)}] = g2[s \ {First(s)}]
  BY <1>1, <1>3, FirstIn
<1> QED BY <1>2, <1>3, <1>4 DEF Body

\* There is one: of a least set without one, the parts with one element less have theirs.
LEMMA TotalExists ==
  ASSUME NEW f, NEW S, IsFiniteSet(S)
  PROVE  \E g : IsTotal(f, S, g)
<1> DEFINE T == {s \in SUBSET S : ~\E g : IsTotal(f, s, g)}
<1> SUFFICES ASSUME T # {} PROVE FALSE OBVIOUS
<1>1. PICK s \in T : \A x \in s : s \ {x} \notin T
  <2>1. T \subseteq SUBSET S OBVIOUS
  <2> HIDE DEF T
  <2> QED BY <2>1, LeastSet
<1>2. IsFiniteSet(s) BY FS_Subset
<1> DEFINE G(x) == CHOOSE g : IsTotal(f, s \ {x}, g)
           H == [u \in SUBSET s |->
                   IF u = s THEN Body(f, G(First(s)), s) ELSE G(CHOOSE x \in s : x \notin u)[u]]
<1>3. ASSUME NEW x \in s PROVE IsTotal(f, s \ {x}, G(x))
  BY <1>1
<1> HIDE DEF G
<1>4. ASSUME NEW u \in SUBSET s, NEW x \in s, x \notin u PROVE H[u] = G(x)[u]
  <2> DEFINE y == CHOOSE x1 \in s : x1 \notin u
  <2>1. y \in s /\ y \notin u BY <1>4
  <2> HIDE DEF y
  <2>2. IsTotal(f, s \ {x}, G(x)) /\ IsTotal(f, s \ {y}, G(y)) BY <1>3, <2>1
  <2>3. IsFiniteSet(s \ {x}) BY <1>2, FS_Subset
  <2>4. G(x)[u] = G(y)[u] BY <1>4, <2>1, <2>2, <2>3, TotalUnique
  <2> QED BY <1>4, <2>4 DEF y
<1>5. ASSUME NEW u \in SUBSET s PROVE H[u] = Body(f, H, u)
  <2>1. CASE u = {} /\ s = {} BY <2>1 DEF Body
  <2>2. CASE u = s /\ s # {}
    <3>1. First(s) \in s BY <2>2, FirstIn
    <3>2. H[s] = Body(f, G(First(s)), s)
      <4>1. s \in SUBSET s OBVIOUS
      <4> QED BY <4>1
    <3>3. H[s \ {First(s)}] = G(First(s))[s \ {First(s)}] BY <1>4, <3>1
    <3> HIDE DEF H
    <3> QED BY <2>2, <3>2, <3>3 DEF Body
  <2>3. CASE u # s
    <3>1. PICK x \in s : x \notin u BY <2>3
    <3>2. G(x)[u] = Body(f, G(x), u)
      <4>1. u \in SUBSET (s \ {x}) /\ IsTotal(f, s \ {x}, G(x)) BY <1>3, <3>1
      <4> HIDE DEF H
      <4> QED BY <4>1 DEF IsTotal
    <3>3. H[u] = G(x)[u] BY <1>4, <3>1
    <3>4. u # {} => H[u \ {First(u)}] = G(x)[u \ {First(u)}]
      BY <1>4, <3>1, FirstIn
    <3> HIDE DEF H
    <3> QED BY <3>2, <3>3, <3>4 DEF Body
  <2> QED BY <2>1, <2>2, <2>3
<1>6. IsTotal(f, s, H)
  BY <1>5 DEF IsTotal
<1> QED BY <1>1, <1>6

\* The first element is added to the sum of the others
LEMMA TotalFirst ==
  ASSUME NEW f, NEW S, IsFiniteSet(S)
  PROVE  Total(f, S) = IF S = {} THEN 0 ELSE f[First(S)] + Total(f, S \ {First(S)})
<1> DEFINE G(U) == CHOOSE g : IsTotal(f, U, g)
<1>1. ASSUME NEW U \in SUBSET S PROVE IsTotal(f, U, G(U))
  BY FS_Subset, TotalExists
<1> HIDE DEF G
<1>2. \A U : Total(f, U) = G(U)[U] BY TotalOf DEF G
<1>3. G(S)[S] = Body(f, G(S), S) BY <1>1 DEF IsTotal
<1>4. ASSUME S # {} PROVE G(S)[S \ {First(S)}] = G(S \ {First(S)})[S \ {First(S)}]
  BY <1>1, TotalUnique
<1> QED BY <1>2, <1>3, <1>4 DEF Body

\* The elements have sizes.
Sizes(f, S) == \A c \in S : f[c] \in Nat

\* A total of sizes is a number.
LEMMA TotalNat ==
  ASSUME NEW f, NEW S, IsFiniteSet(S), Sizes(f, S)
  PROVE  Total(f, S) \in Nat
<1> DEFINE T == {s \in SUBSET S : Total(f, s) \notin Nat}
<1> SUFFICES ASSUME T # {} PROVE FALSE OBVIOUS
<1>1. PICK s \in T : \A x \in s : s \ {x} \notin T
  <2>1. T \subseteq SUBSET S OBVIOUS
  <2> HIDE DEF T
  <2> QED BY <2>1, LeastSet
<1>2. IsFiniteSet(s) BY FS_Subset
<1>3. Total(f, s) = IF s = {} THEN 0 ELSE f[First(s)] + Total(f, s \ {First(s)})
  BY <1>2, TotalFirst
<1>4. s # {} => f[First(s)] \in Nat /\ Total(f, s \ {First(s)}) \in Nat
  BY <1>1, FirstIn DEF Sizes
<1> QED BY <1>3, <1>4

\* Any element can be counted first.
LEMMA TotalTake ==
  ASSUME NEW f, NEW S, IsFiniteSet(S), Sizes(f, S), NEW c \in S
  PROVE  Total(f, S) = f[c] + Total(f, S \ {c})
<1> DEFINE T == {s \in SUBSET S : \E x \in s : Total(f, s) # f[x] + Total(f, s \ {x})}
<1> SUFFICES ASSUME T # {} PROVE FALSE OBVIOUS
<1>1. PICK s \in T : \A x \in s : s \ {x} \notin T
  <2>1. T \subseteq SUBSET S OBVIOUS
  <2> HIDE DEF T
  <2> QED BY <2>1, LeastSet
<1>2. PICK x \in s : Total(f, s) # f[x] + Total(f, s \ {x}) OBVIOUS
<1> DEFINE y == First(s)
<1>3. y \in s BY FirstIn
<1>4. IsFiniteSet(s) /\ \A u \in SUBSET s : IsFiniteSet(u) /\ Sizes(f, u)
  BY FS_Subset DEF Sizes
<1>5. Total(f, s) = f[y] + Total(f, s \ {y}) BY <1>3, <1>4, TotalFirst
<1> HIDE DEF y
<1>6. x # y BY <1>2, <1>5
<1>7. Total(f, s \ {y}) = f[x] + Total(f, (s \ {y}) \ {x})
  BY <1>1, <1>3, <1>6
<1>8. Total(f, s \ {x}) = f[y] + Total(f, (s \ {x}) \ {y})
  BY <1>1, <1>3, <1>6
<1>9. (s \ {x}) \ {y} = (s \ {y}) \ {x} OBVIOUS
<1>10. Total(f, (s \ {y}) \ {x}) \in Nat BY <1>4, TotalNat
<1>11. f[x] \in Nat /\ f[y] \in Nat BY <1>3 DEF Sizes
<1> DEFINE rest == Total(f, (s \ {y}) \ {x})
<1>12. Total(f, s) = f[y] + (f[x] + rest) /\ Total(f, s \ {x}) = f[y] + rest /\ rest \in Nat
  BY <1>5, <1>7, <1>8, <1>9, <1>10
<1> HIDE DEF rest
<1>13. f[y] + (f[x] + rest) = f[x] + (f[y] + rest) BY <1>11, <1>12
<1> QED BY <1>2, <1>12, <1>13

\* A part has no more.
LEMMA TotalMonotone ==
  ASSUME NEW f, NEW S, IsFiniteSet(S), Sizes(f, S), NEW U \in SUBSET S
  PROVE  Total(f, U) <= Total(f, S)
<1> DEFINE T == {s \in SUBSET S : U \subseteq s /\ ~(Total(f, U) <= Total(f, s))}
<1> SUFFICES ASSUME T # {} PROVE FALSE OBVIOUS
<1>1. PICK s \in T : \A x \in s : s \ {x} \notin T
  <2>1. T \subseteq SUBSET S OBVIOUS
  <2> HIDE DEF T
  <2> QED BY <2>1, LeastSet
<1>2. \A u \in SUBSET S : IsFiniteSet(u) /\ Sizes(f, u) /\ Total(f, u) \in Nat
  BY FS_Subset, TotalNat DEF Sizes
<1>3. U # s BY <1>2
<1>4. PICK x \in s : x \notin U BY <1>3
<1>5. Total(f, s) = f[x] + Total(f, s \ {x}) BY <1>2, TotalTake
<1>6. Total(f, U) <= Total(f, s \ {x}) BY <1>1, <1>4
<1>7. f[x] \in Nat BY DEF Sizes
<1>8. Total(f, U) \in Nat /\ Total(f, s \ {x}) \in Nat BY <1>2
<1> QED BY <1>5, <1>6, <1>7, <1>8

\* The total is of the sizes of the elements only.
LEMMA TotalSame ==
  ASSUME NEW f, NEW g, NEW S, IsFiniteSet(S), \A c \in S : f[c] = g[c]
  PROVE  Total(f, S) = Total(g, S)
<1> DEFINE T == {s \in SUBSET S : Total(f, s) # Total(g, s)}
<1> SUFFICES ASSUME T # {} PROVE FALSE OBVIOUS
<1>1. PICK s \in T : \A x \in s : s \ {x} \notin T
  <2>1. T \subseteq SUBSET S OBVIOUS
  <2> HIDE DEF T
  <2> QED BY <2>1, LeastSet
<1>2. IsFiniteSet(s) BY FS_Subset
<1>3. s # {} => Total(f, s \ {First(s)}) = Total(g, s \ {First(s)}) /\ f[First(s)] = g[First(s)]
  BY <1>1, FirstIn
<1> QED BY <1>2, <1>3, TotalFirst

-----------------------------------------------------------------------------
\* The clocks.

\* How far the fastest clock is ahead.
Lead == Max({Ahead[c] : c \in Conns})

(* No clock is further ahead than the lead.                                *)
LEMMA LeadBound ==
  ASSUME NEW c \in Conns
  PROVE  Lead \in Nat /\ \A d \in Conns : Ahead[d] <= Lead
<1> DEFINE Highest(s, x) == x \in s /\ \A y \in s : Ahead[x] >= Ahead[y]
           T == {s \in SUBSET Conns : s # {} /\ ~\E x \in s : Highest(s, x)}
<1>1. \A d \in Conns : Ahead[d] \in Nat BY RedisAssumption
<1>2. ASSUME T # {} PROVE FALSE
  <2>1. PICK s \in T : \A x \in s : s \ {x} \notin T
    <3>1. T \subseteq SUBSET Conns OBVIOUS
    <3> HIDE DEF T
    <3> QED BY <1>2, <3>1, LeastSet, ConnsAssumption
  <2>2. PICK x \in s : TRUE OBVIOUS
  <2>3. CASE s \ {x} = {}
    <3>1. Highest(s, x) BY <1>1, <2>2, <2>3
    <3> QED BY <3>1
  <2>4. CASE s \ {x} # {}
    <3>1. PICK z \in s \ {x} : Highest(s \ {x}, z) BY <2>1, <2>4
    <3>2. x \in Conns /\ z \in Conns /\ \A y \in s : y \in Conns OBVIOUS
    <3>3. Highest(s, x) \/ Highest(s, z) BY <1>1, <3>1, <3>2
    <3> QED BY <3>1, <3>3
  <2> QED BY <2>3, <2>4
<1>3. PICK x \in Conns : Highest(Conns, x) BY <1>2
<1> DEFINE S == {Ahead[d] : d \in Conns}
<1>4. \E y \in S : \A z \in S : y >= z BY <1>3
<1>5. Lead \in S /\ \A y \in S : Lead >= y
  <2> HIDE DEF S
  <2> QED BY <1>4 DEF Lead, Max, S
<1> QED BY <1>1, <1>5

-----------------------------------------------------------------------------
\* The inductive invariant.

NetType ==
  /\ phase \in [Conns -> Calling \cup {"idle", "waiting", "responding", "streaming", "dropped", "over"}]
  /\ live \subseteq Conns
  /\ now \in Nat /\ stored \in Nat
  /\ DOMAIN active \subseteq Conns /\ active \in [DOMAIN active -> Nat]
  /\ DOMAIN tokens \subseteq Conns /\ tokens \in [DOMAIN tokens -> Nat]
  /\ DOMAIN counts \subseteq Conns /\ counts \in [DOMAIN counts -> Nat]
  /\ mail \subseteq Commands
  /\ sent \in [Conns -> 0 .. MaxSends]
  /\ answer \in [Conns -> {"none", "granted", "refused", "done"}]
  /\ asked \in [Conns -> Nat]
  /\ granted \subseteq Conns /\ hitches \subseteq Conns

\* The requests that hold a lease or are about to learn that they do.
Served == {c \in Conns : c \in Holders \/ (phase[c] = "acquiring" /\ answer[c] = "granted")}

(* A release is sent at the end only, and nobody who has sent a command    *)
(* has yet to ask.                                                         *)
MailOrdered ==
  /\ \A m \in mail : /\ phase[m.conn] # "idle"
                     /\ m.kind # "acquire" => phase[m.conn] \in {"rolling", "releasing", "over"}
  /\ \A c \in granted : phase[c] # "idle"

(* The keys were stored no earlier than the last grant, and no stamp is in *)
(* the future of its clock.                                                *)
Stamped ==
  /\ stored <= now
  /\ \A c \in Conns : asked[c] <= now + Ahead[c]
  /\ \A c \in Served \cup granted : asked[c] <= stored + Ahead[c]

\* Who is served has its lease in the set until every clock takes it for expired.
LeasesKept ==
  \A c \in Served : asked[c] + Lease > now + Lead => c \in DOMAIN active /\ active[c] = asked[c] + Lease

\* The leases that no clock takes for expired.
SlotsCounted == Cardinality(Unexpired(now + Lead)) <= MaxConcurrent

\* Who was granted within the window of the fastest clock.
Late == {c \in granted : asked[c] > (now + Lead) - Window}

\* Who was granted within the window is counted with all its tokens.
BudgetKept ==
  \A c \in Late : /\ c \in DOMAIN counts /\ counts[c] = Tokens[c]
                  /\ c \in DOMAIN tokens /\ tokens[c] = asked[c]

\* They have not been granted more than the budget.
BudgetHeld == Total(Tokens, Late) <= TokensPerMinute

\* The inductive invariant of the limits.
GateInv ==
  NetType /\ MailOrdered /\ Stamped /\ LeasesKept /\ SlotsCounted /\ BudgetKept /\ BudgetHeld

\* The command a handler waits for.
Call(p) == IF p = "acquiring" THEN "acquire" ELSE IF p = "rolling" THEN "rollback" ELSE "release"

(* Of a request with no hitch at most one command is on its way, the one   *)
(* its handler waits for, and its lease is in the set only between the     *)
(* grant and the release.                                                  *)
Account ==
  \A c \in Conns \ hitches :
    /\ \A m \in mail : m.conn = c =>
         /\ phase[c] \in Calling /\ answer[c] = "none"
         /\ m = [kind |-> Call(phase[c]), conn |-> c, copy |-> sent[c]]
    /\ c \in DOMAIN active => \/ c \in Holders
                              \/ phase[c] = "acquiring" /\ answer[c] = "granted"
                              \/ phase[c] \in {"rolling", "releasing"} /\ answer[c] # "done"

-----------------------------------------------------------------------------
\* The steps, by what they change.

\* The steps of a handler that leave Redis alone.
Handle(c) ==
  \/ Ask(c) \/ Refused(c) \/ Submit(c) \/ SubmitRefused(c)
  \/ WaitEnds(c) \/ WaitCancelled(c) \/ StreamEnds(c) \/ Released(c)
  \/ Repeat(c) \/ CallFails(c)
  \/ (JobEnds(c) \/ StreamStarts(c) \/ StreamDropped(c)) /\ UNCHANGED <<now, keys, net, asked>>

\* The steps, by who takes them.
LEMMA Steps ==
  ASSUME Next
  PROVE  \/ \E c \in Conns : Handle(c) \/ Snapshot(c)
         \/ \E m \in mail : Serve(m)
         \/ Tick
BY DEF Next, Handle

\* The phases of a handler and the scripts it calls.
Phases == Calling \cup {"idle", "waiting", "responding", "streaming", "dropped", "over"}
Kinds == {"acquire", "release", "rollback"}

\* Alone(c): all that changes of the handlers and of their calls is about c.
Alone(c) ==
  \A d \in Conns \ {c} : /\ phase'[d] = phase[d] /\ sent'[d] = sent[d]
                         /\ answer'[d] = answer[d] /\ asked'[d] = asked[d]

\* A command sent is one more, the only one that waits, and no other handler's.
LEMMA SendType ==
  ASSUME NetType, NEW c \in Conns, NEW kind \in Kinds, Send(c, kind)
  PROVE  /\ sent' \in [Conns -> 0 .. MaxSends] /\ mail' \subseteq Commands
         /\ answer' \in [Conns -> {"none", "granted", "refused", "done"}]
         /\ \A d \in Conns \ {c} : sent'[d] = sent[d] /\ answer'[d] = answer[d]
         /\ answer'[c] = "none" /\ sent'[c] = sent[c] + 1
         /\ mail' = mail \cup {[kind |-> kind, conn |-> c, copy |-> sent'[c]]}
<1>1. MaxSends \in Nat /\ sent[c] \in 0 .. MaxSends /\ sent \in [Conns -> 0 .. MaxSends]
  BY RedisAssumption DEF NetType
<1>2. sent' = [sent EXCEPT ![c] = sent[c] + 1] /\ sent[c] + 1 \in 1 .. MaxSends
  BY <1>1 DEF Send
<1>3. mail' = mail \cup {[kind |-> kind, conn |-> c, copy |-> sent[c] + 1]} /\ mail \subseteq Commands
  BY DEF Send, NetType
<1>4. mail' \subseteq Commands
  BY <1>2, <1>3 DEF Commands, Kinds
<1>5. answer' = [answer EXCEPT ![c] = "none"] /\ answer \in [Conns -> {"none", "granted", "refused", "done"}]
  BY DEF Send, NetType
<1> QED BY <1>1, <1>2, <1>3, <1>4, <1>5

\* A handler moves to a phase, calls or not, and Redis is left alone.
LEMMA HandleFrame ==
  ASSUME NetType, NEW c \in Conns, Handle(c)
  PROVE  /\ UNCHANGED <<active, tokens, counts, stored, granted, now>>
         /\ phase' \in [Conns -> Phases] /\ live' \subseteq Conns
         /\ asked' \in [Conns -> Nat] /\ hitches' \subseteq Conns
         /\ sent' \in [Conns -> 0 .. MaxSends] /\ mail' \subseteq Commands
         /\ answer' \in [Conns -> {"none", "granted", "refused", "done"}]
         /\ Alone(c)
         /\ asked' = asked \/ (phase[c] = "idle" /\ asked'[c] = Clock(c))
<1> USE DEF keys
<1>0. /\ phase \in [Conns -> Phases] /\ live \subseteq Conns /\ asked \in [Conns -> Nat] /\ hitches \subseteq Conns
      /\ sent \in [Conns -> 0 .. MaxSends] /\ mail \subseteq Commands
      /\ answer \in [Conns -> {"none", "granted", "refused", "done"}]
      /\ now \in Nat /\ Ahead[c] \in Nat
  BY RedisAssumption DEF NetType, Phases
<1>1. CASE Ask(c)
  <2>1. Send(c, "acquire") /\ "acquire" \in Kinds BY <1>1 DEF Ask, Kinds
  <2>2. /\ phase' = [phase EXCEPT ![c] = "acquiring"] /\ UNCHANGED <<live, hitches>>
        /\ asked' = [asked EXCEPT ![c] = Clock(c)] /\ phase[c] = "idle" /\ UNCHANGED <<keys, now>>
    BY <1>1 DEF Ask, Goto
  <2>3. Clock(c) \in Nat BY <1>0 DEF Clock
  <2>4. phase' \in [Conns -> Phases] /\ asked' \in [Conns -> Nat] /\ asked'[c] = Clock(c)
    BY <1>0, <2>2, <2>3 DEF Phases, Calling
  <2> QED BY <1>0, <2>1, <2>2, <2>4, SendType DEF Alone
<1>2. CASE Refused(c) \/ Submit(c) \/ Released(c)
  BY <1>0, <1>2 DEF Refused, Submit, Released, Begin, Consume, Goto, Phases, Alone
<1>3. CASE SubmitRefused(c) \/ WaitEnds(c) \/ WaitCancelled(c) \/ StreamEnds(c)
  <2>1. PICK p \in {"rolling", "releasing"} : phase' = [phase EXCEPT ![c] = p]
    BY <1>3 DEF SubmitRefused, WaitEnds, WaitCancelled, StreamEnds, Goto
  <2>2. PICK kind \in Kinds : Send(c, kind)
    BY <1>3 DEF SubmitRefused, WaitEnds, WaitCancelled, StreamEnds, Kinds
  <2>3. live' \subseteq live /\ UNCHANGED <<hitches, keys, now, asked>>
    BY <1>3 DEF SubmitRefused, WaitEnds, WaitCancelled, StreamEnds, CancelJob
  <2>4. phase' \in [Conns -> Phases] BY <1>0, <2>1 DEF Phases, Calling
  <2> QED BY <1>0, <2>1, <2>2, <2>3, <2>4, SendType DEF Alone
<1>4. CASE Repeat(c)
  <2>1. PICK kind \in Kinds : Send(c, kind)
    BY <1>4 DEF Repeat, Kinds
  <2>2. hitches' = hitches \cup {c} /\ UNCHANGED <<handler, keys, now, asked>>
    BY <1>4 DEF Repeat
  <2> QED BY <1>0, <2>1, <2>2, SendType DEF Alone, handler
<1>5. CASE CallFails(c)
  BY <1>0, <1>5 DEF CallFails, Goto, Phases, Alone
<1>6. CASE (JobEnds(c) \/ StreamStarts(c) \/ StreamDropped(c)) /\ UNCHANGED <<now, keys, net, asked>>
  BY <1>0, <1>6 DEF JobEnds, StreamStarts, StreamDropped, Goto, net, Phases, Alone
<1> QED BY <1>1, <1>2, <1>3, <1>4, <1>5, <1>6 DEF Handle

\* A handler keeps the types.
LEMMA HandleType ==
  ASSUME NetType, NEW c \in Conns, Handle(c)
  PROVE  NetType'
BY HandleFrame DEF NetType, Phases

\* The phases after a request.
Ending == {"rolling", "releasing", "over"}

\* The phases of one handler go in one direction, and a step of it serves nobody.
LEMMA HandleMoves ==
  ASSUME NetType, NEW c \in Conns, Handle(c)
  PROVE  /\ Served' \subseteq Served
         /\ phase[c] # "idle" => phase'[c] # "idle"
         /\ phase[c] \in Ending => phase'[c] \in Ending
         /\ \A m \in mail' \ mail : /\ m.conn = c /\ phase'[c] # "idle"
                                    /\ m.kind # "acquire" => phase'[c] \in Ending
<1>0. /\ phase \in [Conns -> Phases] /\ phase' \in [Conns -> Phases]
      /\ answer \in [Conns -> {"none", "granted", "refused", "done"}]
      /\ answer' \in [Conns -> {"none", "granted", "refused", "done"}]
  BY HandleFrame DEF NetType, Phases
<1> DEFINE At(q, a) == q \in {"waiting", "responding", "streaming", "dropped"} \/ (q = "acquiring" /\ a = "granted")
<1>1. ASSUME At(phase'[c], answer'[c]) => At(phase[c], answer[c]) PROVE Served' \subseteq Served
  BY <1>1, HandleFrame DEF Served, Holders, Alone
<1>2. CASE Ask(c)
  <2>1. Send(c, "acquire") /\ "acquire" \in Kinds BY <1>2 DEF Ask, Kinds
  <2>2. phase' = [phase EXCEPT ![c] = "acquiring"] /\ phase[c] = "idle" BY <1>2 DEF Ask, Goto
  <2>3. phase'[c] = "acquiring" BY <1>0, <2>2
  <2>4. answer'[c] = "none" /\ mail' \subseteq mail \cup {[kind |-> "acquire", conn |-> c, copy |-> sent'[c]]}
    BY <2>1, SendType
  <2> QED BY <1>1, <2>2, <2>3, <2>4 DEF Ending
<1>3. CASE Refused(c) \/ Submit(c) \/ Released(c)
  <2>1. mail' = mail /\ phase[c] \in {"acquiring", "rolling", "releasing"} /\ answer'[c] = "none"
    BY <1>0, <1>3 DEF Refused, Submit, Released, Consume
  <2>2. \/ phase'[c] = "over"
        \/ phase'[c] \in {"responding", "waiting"} /\ phase[c] = "acquiring" /\ answer[c] = "granted"
    BY <1>0, <1>3 DEF Refused, Submit, Released, Begin, Goto
  <2> QED BY <1>1, <2>1, <2>2 DEF Ending
<1>4. CASE SubmitRefused(c) \/ WaitEnds(c) \/ WaitCancelled(c) \/ StreamEnds(c)
  <2>1. phase'[c] \in {"rolling", "releasing"}
    BY <1>0, <1>4 DEF SubmitRefused, WaitEnds, WaitCancelled, StreamEnds, Goto
  <2>2. PICK kind \in Kinds : Send(c, kind)
    BY <1>4 DEF SubmitRefused, WaitEnds, WaitCancelled, StreamEnds, Kinds
  <2>3. mail' \subseteq mail \cup {[kind |-> kind, conn |-> c, copy |-> sent'[c]]} BY <2>2, SendType
  <2> QED BY <1>1, <2>1, <2>3 DEF Ending
<1>5. CASE Repeat(c)
  <2>1. PICK kind \in Kinds : Send(c, kind) /\ (kind # "acquire" => phase[c] \in {"rolling", "releasing"})
    BY <1>5 DEF Repeat, Kinds, Calling
  <2>2. phase' = phase /\ phase[c] # "idle" BY <1>5 DEF Repeat, handler, Calling
  <2>3. answer'[c] = "none" /\ mail' \subseteq mail \cup {[kind |-> kind, conn |-> c, copy |-> sent'[c]]}
    BY <2>1, SendType
  <2> QED BY <1>1, <2>1, <2>2, <2>3 DEF Ending
<1>6. CASE CallFails(c)
  BY <1>0, <1>1, <1>6 DEF CallFails, Goto, Ending, Calling
<1>7. CASE (JobEnds(c) \/ StreamStarts(c) \/ StreamDropped(c)) /\ UNCHANGED <<now, keys, net, asked>>
  <2>1. mail' = mail /\ answer' = answer BY <1>7 DEF net
  <2>2. phase' = phase \/ (phase[c] = "responding" /\ phase'[c] \in {"streaming", "dropped"})
    BY <1>0, <1>7 DEF JobEnds, StreamStarts, StreamDropped, Goto
  <2> QED BY <1>1, <2>1, <2>2 DEF Ending
<1> QED BY <1>2, <1>3, <1>4, <1>5, <1>6, <1>7 DEF Handle

\* A handler that leaves Redis alone cannot break what Redis promises.
LEMMA HandleKeeps ==
  ASSUME GateInv, NEW c \in Conns, Handle(c)
  PROVE  GateInv'
<1>1. NetType' BY HandleType DEF GateInv
<1>2. UNCHANGED <<active, tokens, counts, stored, granted, now>> BY HandleFrame DEF GateInv
<1>3. MailOrdered'
  <2>1. ASSUME NEW m \in mail'
        PROVE  phase'[m.conn] # "idle" /\ (m.kind # "acquire" => phase'[m.conn] \in Ending)
    <3>1. CASE m \in mail
      <4>1. m.conn \in Conns BY <3>1 DEF GateInv, NetType, Commands
      <4> QED BY <3>1, <4>1, HandleFrame, HandleMoves DEF GateInv, MailOrdered, Alone, Ending
    <3>2. CASE m \notin mail BY <3>2, HandleMoves DEF GateInv
    <3> QED BY <3>1, <3>2
  <2>2. ASSUME NEW d \in granted' PROVE phase'[d] # "idle"
    BY <1>2, HandleFrame, HandleMoves DEF GateInv, MailOrdered, NetType, Alone
  <2> QED BY <2>1, <2>2 DEF MailOrdered, Ending
<1>4. \A d \in Served \cup granted : asked'[d] = asked[d]
  <2>1. \A d \in Served \cup granted : d \in Conns /\ phase[d] # "idle"
    BY DEF Served, Holders, GateInv, MailOrdered, NetType
  <2> QED BY <2>1, HandleFrame DEF GateInv, Alone
<1>5. Served' \subseteq Served BY HandleMoves DEF GateInv
<1>6. Stamped'
  <2>1. \A d \in Conns : asked'[d] <= now' + Ahead[d]
    BY <1>2, HandleFrame DEF GateInv, Stamped, Alone, Clock
  <2> QED BY <1>2, <1>4, <1>5, <2>1 DEF GateInv, Stamped
<1>7. LeasesKept' BY <1>2, <1>4, <1>5 DEF GateInv, LeasesKept
<1>8. SlotsCounted' BY <1>2 DEF GateInv, SlotsCounted, Unexpired
<1>9. Late' = Late BY <1>2, <1>4 DEF Late
<1>10. BudgetKept' BY <1>2, <1>4, <1>9 DEF GateInv, BudgetKept, Late
<1>11. BudgetHeld' BY <1>9 DEF GateInv, BudgetHeld
<1> QED BY <1>1, <1>3, <1>6, <1>7, <1>8, <1>10, <1>11 DEF GateInv

\* What a script drops as too old at the time of some clock, nothing depends on.
LEMMA Purged ==
  ASSUME GateInv, NEW t \in Nat, t <= now + Lead, Lead \in Nat
  PROVE  LET A == Restrict(active, Unexpired(t))
             K == Restrict(tokens, Recent(t))
             N == CountsAfter(t)
         IN  /\ DOMAIN A \subseteq Conns /\ A \in [DOMAIN A -> Nat]
             /\ DOMAIN A = Unexpired(t) /\ \A d \in DOMAIN A : A[d] = active[d]
             /\ DOMAIN K \subseteq Conns /\ K \in [DOMAIN K -> Nat]
             /\ DOMAIN N \subseteq Conns /\ N \in [DOMAIN N -> Nat]
             /\ \A d \in Served : asked[d] + Lease > now + Lead => d \in DOMAIN A /\ A[d] = asked[d] + Lease
             /\ \A d \in Late : /\ d \in DOMAIN N /\ N[d] = Tokens[d]
                                /\ d \in DOMAIN K /\ K[d] = asked[d]
<1> DEFINE A == Restrict(active, Unexpired(t))
           K == Restrict(tokens, Recent(t))
           N == CountsAfter(t)
<1>0. /\ now \in Nat /\ Lease \in Nat /\ Window \in Nat /\ asked \in [Conns -> Nat]
      /\ DOMAIN active \subseteq Conns /\ active \in [DOMAIN active -> Nat]
      /\ DOMAIN tokens \subseteq Conns /\ tokens \in [DOMAIN tokens -> Nat]
      /\ DOMAIN counts \subseteq Conns /\ counts \in [DOMAIN counts -> Nat]
      /\ granted \subseteq Conns
  BY RedisAssumption DEF GateInv, NetType
<1>1. /\ DOMAIN A \subseteq Conns /\ A \in [DOMAIN A -> Nat]
      /\ DOMAIN A = Unexpired(t) /\ \A d \in DOMAIN A : A[d] = active[d]
  BY <1>0 DEF Restrict, Unexpired
<1>2. /\ DOMAIN K \subseteq Conns /\ K \in [DOMAIN K -> Nat]
      /\ DOMAIN K = Recent(t) /\ \A d \in DOMAIN K : K[d] = tokens[d]
  BY <1>0 DEF Restrict, Recent
<1>3. /\ DOMAIN N \subseteq Conns /\ N \in [DOMAIN N -> Nat]
      /\ DOMAIN N = DOMAIN counts \ (DOMAIN tokens \ Recent(t)) /\ \A d \in DOMAIN N : N[d] = counts[d]
  BY <1>0 DEF Restrict, CountsAfter
<1> HIDE DEF A, K, N
<1>4. ASSUME NEW d \in Served, asked[d] + Lease > now + Lead PROVE d \in DOMAIN A /\ A[d] = asked[d] + Lease
  BY <1>0, <1>1, <1>4 DEF GateInv, LeasesKept, Unexpired
<1>5. ASSUME NEW d \in Late
      PROVE  d \in DOMAIN N /\ N[d] = Tokens[d] /\ d \in DOMAIN K /\ K[d] = asked[d]
  <2>1. /\ d \in DOMAIN counts /\ counts[d] = Tokens[d] /\ d \in DOMAIN tokens /\ tokens[d] = asked[d]
        /\ asked[d] > (now + Lead) - Window /\ d \in Conns
    BY <1>0, <1>5 DEF GateInv, BudgetKept, Late
  <2>2. d \in Recent(t) BY <1>0, <2>1 DEF Recent
  <2> QED BY <1>2, <1>3, <2>1, <2>2
<1> QED BY <1>1, <1>2, <1>3, <1>4, <1>5 DEF A, K, N

\* Connections can be counted.
LEMMA CurrentFinite ==
  ASSUME NEW S, S \subseteq Conns
  PROVE  IsFiniteSet(S) /\ Cardinality(S) \in Nat /\ \A T \in SUBSET S : Cardinality(T) <= Cardinality(S)
BY FS_Subset, FS_CardinalityType, ConnsAssumption

\* What a script that only purges leaves.
LEMMA PurgeKeeps ==
  ASSUME GateInv, NEW t \in Nat, t <= now + Lead, Lead \in Nat, Purge(t),
         UNCHANGED <<phase, now, stored, granted, asked>>, NetType', MailOrdered', Served' \subseteq Served
  PROVE  GateInv'
<1>1. /\ active' = Restrict(active, Unexpired(t)) /\ tokens' = Restrict(tokens, Recent(t))
      /\ counts' = CountsAfter(t)
  BY DEF Purge
<1>2. /\ \A d \in Served : asked[d] + Lease > now + Lead => d \in DOMAIN active' /\ active'[d] = asked[d] + Lease
      /\ \A d \in Late : /\ d \in DOMAIN counts' /\ counts'[d] = Tokens[d]
                         /\ d \in DOMAIN tokens' /\ tokens'[d] = asked[d]
      /\ DOMAIN active' \subseteq DOMAIN active /\ \A d \in DOMAIN active' : active'[d] = active[d]
  BY <1>1, Purged DEF Unexpired
<1>3. Stamped' BY DEF GateInv, Stamped
<1>4. LeasesKept' BY <1>2 DEF LeasesKept
<1>5. Late' = Late BY DEF Late
<1>6. BudgetKept' BY <1>2, <1>5 DEF BudgetKept
<1>7. BudgetHeld' BY <1>5 DEF GateInv, BudgetHeld
<1>8. SlotsCounted'
  <2>1. Unexpired(now + Lead)' \subseteq Unexpired(now + Lead) BY <1>2 DEF Unexpired
  <2>2. Unexpired(now + Lead) \subseteq Conns BY DEF GateInv, NetType, Unexpired
  <2>3. Cardinality(Unexpired(now + Lead)') <= Cardinality(Unexpired(now + Lead))
    BY <2>1, <2>2, CurrentFinite
  <2>4. Cardinality(Unexpired(now + Lead)') \in Nat /\ Cardinality(Unexpired(now + Lead)) \in Nat
    BY <2>1, <2>2, CurrentFinite
  <2> QED BY <2>3, <2>4, RedisAssumption DEF GateInv, SlotsCounted
<1> QED BY <1>3, <1>4, <1>6, <1>7, <1>8 DEF GateInv

\* A snapshot only purges.
LEMMA SnapshotKeeps == ASSUME GateInv, NEW c \in Conns, Snapshot(c) PROVE GateInv'
<1>0. /\ now \in Nat /\ Ahead[c] \in Nat /\ Lead \in Nat /\ Ahead[c] <= Lead
  BY LeadBound, RedisAssumption DEF GateInv, NetType
<1>1. Clock(c) \in Nat /\ Clock(c) <= now + Lead BY <1>0 DEF Clock
<1>2. UNCHANGED <<phase, live, now, stored, granted, mail, sent, answer, hitches, asked>>
  BY DEF Snapshot, handler, net
<1>3. MailOrdered' /\ Served' \subseteq Served
  BY <1>2 DEF GateInv, MailOrdered, Served, Holders
<1>4. Purge(Clock(c)) BY DEF Snapshot
<1>5. NetType'
  <2>1. /\ DOMAIN active' \subseteq Conns /\ active' \in [DOMAIN active' -> Nat]
        /\ DOMAIN tokens' \subseteq Conns /\ tokens' \in [DOMAIN tokens' -> Nat]
        /\ DOMAIN counts' \subseteq Conns /\ counts' \in [DOMAIN counts' -> Nat]
    BY <1>0, <1>1, <1>4, Purged DEF Purge
  <2> QED BY <1>2, <2>1 DEF GateInv, NetType
<1> QED BY <1>0, <1>1, <1>2, <1>3, <1>4, <1>5, PurgeKeeps

\* When time passes, keys expire that nobody counts any more.
LEMMA TickKeeps == ASSUME GateInv, Tick PROVE GateInv'
<1>0. /\ UNCHANGED <<phase, live, stored, granted, mail, sent, answer, hitches, asked>>
      /\ now' = now + 1
      /\ active' = IF now' < stored + Lease + Window THEN active ELSE Empty
      /\ IF now' < stored + 2 * Window THEN UNCHANGED <<tokens, counts>> ELSE tokens' = Empty /\ counts' = Empty
  BY DEF Tick, handler, net
<1>1. /\ now \in Nat /\ stored \in Nat /\ Lease \in Nat /\ Window \in Nat /\ asked \in [Conns -> Nat]
      /\ granted \subseteq Conns
      /\ DOMAIN active \subseteq Conns /\ active \in [DOMAIN active -> Nat]
      /\ Ahead \in [Conns -> Nat]
  BY RedisAssumption DEF GateInv, NetType
<1>2. DOMAIN Empty = {} BY DEF Empty
<1>3. NetType'
  <2>1. DOMAIN active' \subseteq Conns /\ active' \in [DOMAIN active' -> Nat]
    BY <1>0, <1>1, <1>2 DEF Empty
  <2>2. /\ DOMAIN tokens' \subseteq Conns /\ tokens' \in [DOMAIN tokens' -> Nat]
        /\ DOMAIN counts' \subseteq Conns /\ counts' \in [DOMAIN counts' -> Nat]
    BY <1>0, <1>2 DEF Empty, GateInv, NetType
  <2>3. now' \in Nat BY <1>0, <1>1
  <2> QED BY <1>0, <2>1, <2>2, <2>3 DEF GateInv, NetType
<1>4. MailOrdered' /\ Served' = Served BY <1>0 DEF GateInv, MailOrdered, Served, Holders
<1>5. Stamped'
  BY <1>0, <1>1, <1>4 DEF GateInv, Stamped
<1>6. \A c \in Conns : Lead \in Nat /\ Ahead[c] <= Lead BY LeadBound
<1>7. LeasesKept'
  <2> SUFFICES ASSUME NEW c \in Served, asked[c] + Lease > now' + Lead
               PROVE  c \in DOMAIN active' /\ active'[c] = asked[c] + Lease
    BY <1>0, <1>4 DEF LeasesKept
  <2>1. c \in Conns /\ asked[c] <= stored + Ahead[c] /\ Ahead[c] <= Lead /\ Lead \in Nat /\ Ahead[c] \in Nat
    BY <1>1, <1>6 DEF Served, GateInv, Stamped
  <2>2. now' < stored + Lease + Window /\ asked[c] + Lease > now + Lead
    BY <1>0, <1>1, <2>1
  <2> QED BY <1>0, <2>2 DEF GateInv, LeasesKept
<1>8. Late' \subseteq Late
  BY <1>0, <1>1, <1>6 DEF Late
<1>9. BudgetKept'
  <2> SUFFICES ASSUME NEW c \in Late'
               PROVE  /\ c \in DOMAIN counts' /\ counts'[c] = Tokens[c]
                      /\ c \in DOMAIN tokens' /\ tokens'[c] = asked[c]
    BY <1>0 DEF BudgetKept
  <2>1. c \in granted /\ asked[c] > (now' + Lead) - Window BY <1>0 DEF Late
  <2>2. asked[c] <= stored + Ahead[c] /\ Ahead[c] <= Lead /\ Lead \in Nat /\ Ahead[c] \in Nat /\ asked[c] \in Nat
    BY <1>1, <1>6, <2>1 DEF GateInv, Stamped
  <2>3. now' < stored + 2 * Window BY <1>0, <1>1, <2>1, <2>2
  <2> QED BY <1>0, <1>8, <2>3 DEF GateInv, BudgetKept
<1>10. BudgetHeld'
  <2>1. Late \subseteq Conns BY <1>1 DEF Late
  <2>2. IsFiniteSet(Late) /\ Sizes(Tokens, Late) /\ IsFiniteSet(Late') /\ Sizes(Tokens, Late')
    BY <1>8, <2>1, CurrentFinite, RedisAssumption DEF Sizes
  <2>3. Total(Tokens, Late') <= Total(Tokens, Late) BY <1>8, <2>2, TotalMonotone
  <2>4. Total(Tokens, Late) \in Nat /\ Total(Tokens, Late') \in Nat BY <2>2, TotalNat
  <2> QED BY <2>3, <2>4, RedisAssumption DEF GateInv, BudgetHeld
<1>11. SlotsCounted'
  <2>1. Unexpired(now + Lead)' \subseteq Unexpired(now + Lead)
    <3>1. ASSUME NEW c \in DOMAIN active', active'[c] > now' + Lead
          PROVE  c \in DOMAIN active /\ active[c] > now + Lead
      BY <1>0, <1>1, <1>2, <1>6, <3>1
    <3> QED BY <3>1 DEF Unexpired
  <2>2. Unexpired(now + Lead) \subseteq Conns BY <1>1 DEF Unexpired
  <2>3. Cardinality(Unexpired(now + Lead)') <= Cardinality(Unexpired(now + Lead))
    BY <2>1, <2>2, CurrentFinite
  <2>4. Cardinality(Unexpired(now + Lead)') \in Nat /\ Cardinality(Unexpired(now + Lead)) \in Nat
    BY <2>1, <2>2, CurrentFinite
  <2> QED BY <2>3, <2>4, RedisAssumption DEF GateInv, SlotsCounted
<1> QED BY <1>3, <1>4, <1>5, <1>7, <1>9, <1>10, <1>11 DEF GateInv

\* The handler a reply reaches still waits for this very command.
LEMMA ReplyFrame ==
  ASSUME NetType, NEW m \in mail, NEW a \in {"granted", "refused", "done"}, Reply(m, a)
  PROVE  /\ answer' \in [Conns -> {"none", "granted", "refused", "done"}]
         /\ \A d \in Conns \ {m.conn} : answer'[d] = answer[d]
         /\ answer'[m.conn] = answer[m.conn]
            \/ (answer'[m.conn] = a /\ phase[m.conn] \in Calling)
         /\ sent[m.conn] = m.copy /\ phase[m.conn] \in Calling => answer'[m.conn] = a
BY DEF NetType, Reply, Commands

\* A release, or a rollback, takes the lease of a request that is over.
LEMMA ReleaseKeeps ==
  ASSUME GateInv, NEW m \in mail, Serve(m), Release(m)
  PROVE  GateInv'
<1> DEFINE c == m.conn
<1>0. /\ c \in Conns /\ m.kind # "acquire" /\ phase[c] \in Ending
      /\ UNCHANGED <<phase, live, now, sent, asked, hitches, stored>> /\ mail' = mail \ {m}
      /\ Reply(m, "done")
      /\ active' = Restrict(active, DOMAIN active \ {c})
  BY DEF GateInv, NetType, MailOrdered, Serve, Release, Commands, handler, Ending
<1>1. \/ UNCHANGED <<tokens, counts, granted>>
      \/ /\ tokens' = Restrict(tokens, DOMAIN tokens \ {c})
         /\ counts' = Restrict(counts, DOMAIN counts \ {c})
         /\ granted' = granted \ {c}
  BY DEF Release
<1> HIDE DEF c
<1>2. /\ answer' \in [Conns -> {"none", "granted", "refused", "done"}]
      /\ \A d \in Conns \ {c} : answer'[d] = answer[d]
  BY <1>0, ReplyFrame DEF GateInv, c
<1>3. /\ DOMAIN active' = DOMAIN active \ {c}
      /\ \A d \in DOMAIN active' : active'[d] = active[d]
      /\ active' \in [DOMAIN active' -> Nat] /\ DOMAIN active' \subseteq Conns
  BY <1>0 DEF Restrict, GateInv, NetType
<1>4. /\ granted' \subseteq granted
      /\ \A d \in granted' : /\ d \in DOMAIN tokens => d \in DOMAIN tokens' /\ tokens'[d] = tokens[d]
                             /\ d \in DOMAIN counts => d \in DOMAIN counts' /\ counts'[d] = counts[d]
      /\ tokens' \in [DOMAIN tokens' -> Nat] /\ DOMAIN tokens' \subseteq Conns
      /\ counts' \in [DOMAIN counts' -> Nat] /\ DOMAIN counts' \subseteq Conns
  BY <1>1 DEF Restrict, GateInv, NetType
<1>5. NetType'
  BY <1>0, <1>2, <1>3, <1>4 DEF GateInv, NetType
<1>6. MailOrdered' BY <1>0, <1>4 DEF GateInv, MailOrdered
<1>7. Served' = Served \ {c} /\ c \notin Served
  BY <1>0, <1>2 DEF Served, Holders, Ending
<1>8. Stamped' BY <1>0, <1>4, <1>7 DEF GateInv, Stamped
<1>9. LeasesKept' BY <1>0, <1>3, <1>7 DEF GateInv, LeasesKept
<1>10. Late' \subseteq Late BY <1>0, <1>4 DEF Late
<1>11. BudgetKept' BY <1>0, <1>4, <1>10 DEF GateInv, BudgetKept, Late
<1>12. BudgetHeld'
  <2>1. Late \subseteq Conns BY DEF Late, GateInv, NetType
  <2>2. IsFiniteSet(Late) /\ Sizes(Tokens, Late) /\ IsFiniteSet(Late') /\ Sizes(Tokens, Late')
    BY <1>10, <2>1, CurrentFinite, RedisAssumption DEF Sizes
  <2>3. Total(Tokens, Late') <= Total(Tokens, Late) BY <1>10, <2>2, TotalMonotone
  <2>4. Total(Tokens, Late) \in Nat /\ Total(Tokens, Late') \in Nat BY <2>2, TotalNat
  <2> QED BY <2>3, <2>4, RedisAssumption DEF GateInv, BudgetHeld
<1>13. SlotsCounted'
  <2>1. Unexpired(now + Lead)' \subseteq Unexpired(now + Lead) BY <1>0, <1>3 DEF Unexpired
  <2>2. Unexpired(now + Lead) \subseteq Conns BY DEF GateInv, NetType, Unexpired
  <2>3. Cardinality(Unexpired(now + Lead)') <= Cardinality(Unexpired(now + Lead))
    BY <2>1, <2>2, CurrentFinite
  <2>4. Cardinality(Unexpired(now + Lead)') \in Nat /\ Cardinality(Unexpired(now + Lead)) \in Nat
    BY <2>1, <2>2, CurrentFinite
  <2> QED BY <2>3, <2>4, RedisAssumption DEF GateInv, SlotsCounted
<1> QED BY <1>5, <1>6, <1>8, <1>9, <1>11, <1>12, <1>13 DEF GateInv

\* A grant adds to what is counted after both limits were checked.
LEMMA AcquireKeeps ==
  ASSUME GateInv, NEW m \in mail, Serve(m), Acquire(m)
  PROVE  GateInv'
<1> DEFINE c == m.conn
           t == asked[c]
<1>0. /\ c \in Conns /\ m.kind = "acquire" /\ phase[c] # "idle"
      /\ UNCHANGED <<phase, live, now, sent, asked, hitches>> /\ mail' = mail \ {m}
  BY DEF GateInv, NetType, MailOrdered, Serve, Acquire, Commands, handler
<1>1. /\ now \in Nat /\ Lead \in Nat /\ t \in Nat /\ t <= now + Ahead[c] /\ t <= now + Lead
      /\ Ahead[c] \in Nat /\ Lease \in Nat /\ Window \in Nat /\ asked \in [Conns -> Nat] /\ stored <= now /\ stored \in Nat
  BY <1>0, LeadBound, RedisAssumption DEF GateInv, NetType, Stamped
<1> HIDE DEF c, t
<1>2. CASE Purge(t) /\ Reply(m, "refused") /\ UNCHANGED <<stored, granted>>
  <2>1. /\ answer' \in [Conns -> {"none", "granted", "refused", "done"}]
        /\ \A d \in Conns \ {c} : answer'[d] = answer[d]
        /\ answer'[c] = answer[c] \/ answer'[c] = "refused"
    BY <1>2, ReplyFrame DEF GateInv, c
  <2>2. Served' \subseteq Served BY <1>0, <2>1 DEF Served, Holders
  <2>3. MailOrdered' BY <1>0, <1>2 DEF GateInv, MailOrdered
  <2>4. /\ DOMAIN active' \subseteq Conns /\ active' \in [DOMAIN active' -> Nat]
        /\ DOMAIN tokens' \subseteq Conns /\ tokens' \in [DOMAIN tokens' -> Nat]
        /\ DOMAIN counts' \subseteq Conns /\ counts' \in [DOMAIN counts' -> Nat]
    BY <1>1, <1>2, Purged DEF Purge
  <2>5. NetType' BY <1>0, <1>2, <2>1, <2>4 DEF GateInv, NetType
  <2> QED BY <1>0, <1>1, <1>2, <2>2, <2>3, <2>5, PurgeKeeps
<1> DEFINE A == Restrict(active, Unexpired(t))
           K == Restrict(tokens, Recent(t))
           N == CountsAfter(t)
<1>3. CASE /\ ~Full(t) /\ ~Over(c, t)
           /\ active' = Put(A, c, t + Lease) /\ tokens' = Put(K, c, t) /\ counts' = Put(N, c, Tokens[c])
           /\ stored' = now /\ granted' = granted \cup {c} /\ Reply(m, "granted")
  <2>1. /\ DOMAIN A \subseteq Conns /\ A \in [DOMAIN A -> Nat]
        /\ DOMAIN A = Unexpired(t) /\ \A d \in DOMAIN A : A[d] = active[d]
        /\ DOMAIN K \subseteq Conns /\ K \in [DOMAIN K -> Nat]
        /\ DOMAIN N \subseteq Conns /\ N \in [DOMAIN N -> Nat]
        /\ \A d \in Served : asked[d] + Lease > now + Lead => d \in DOMAIN A /\ A[d] = asked[d] + Lease
        /\ \A d \in Late : /\ d \in DOMAIN N /\ N[d] = Tokens[d]
                           /\ d \in DOMAIN K /\ K[d] = asked[d]
    BY <1>1, Purged
  <2>1a. Reserved(t) = Total(N, DOMAIN N) BY DEF Reserved
  <2> HIDE DEF A, K, N
  <2>2. /\ answer' \in [Conns -> {"none", "granted", "refused", "done"}]
        /\ \A d \in Conns \ {c} : answer'[d] = answer[d]
    BY <1>3, ReplyFrame DEF GateInv, c
  <2>3. Tokens[c] \in Nat /\ Tokens \in [Conns -> Nat \ {0}] BY <1>0, RedisAssumption
  <2>4. /\ DOMAIN active' = DOMAIN A \cup {c} /\ active'[c] = t + Lease
        /\ \A d \in DOMAIN A \ {c} : active'[d] = A[d]
        /\ DOMAIN active' \subseteq Conns /\ active' \in [DOMAIN active' -> Nat]
    BY <1>0, <1>1, <1>3, <2>1 DEF Put
  <2>5. /\ DOMAIN tokens' = DOMAIN K \cup {c} /\ tokens'[c] = t
        /\ \A d \in DOMAIN K \ {c} : tokens'[d] = K[d]
        /\ DOMAIN tokens' \subseteq Conns /\ tokens' \in [DOMAIN tokens' -> Nat]
    BY <1>0, <1>1, <1>3, <2>1 DEF Put
  <2>6. /\ DOMAIN counts' = DOMAIN N \cup {c} /\ counts'[c] = Tokens[c]
        /\ \A d \in DOMAIN N \ {c} : counts'[d] = N[d]
        /\ DOMAIN counts' \subseteq Conns /\ counts' \in [DOMAIN counts' -> Nat]
    BY <1>0, <1>1, <1>3, <2>1, <2>3 DEF Put
  <2>7. NetType'
    BY <1>0, <1>1, <1>3, <2>2, <2>4, <2>5, <2>6 DEF GateInv, NetType
  <2>8. MailOrdered' BY <1>0, <1>3 DEF GateInv, MailOrdered
  <2>9. Served' \subseteq Served \cup {c} BY <1>0, <2>2 DEF Served, Holders
  <2>10. Stamped'
    <3>1. asked[c] <= now + Ahead[c] BY <1>1 DEF t
    <3>2. \A d \in Served \cup granted : d \in Conns /\ asked[d] \in Nat /\ Ahead[d] \in Nat
      BY RedisAssumption DEF Served, GateInv, NetType
    <3>3. \A d \in Served \cup granted : asked[d] <= now + Ahead[d]
      BY <3>2 DEF GateInv, Stamped
    <3> QED BY <1>0, <1>1, <1>3, <2>9, <3>1, <3>3 DEF GateInv, Stamped
  <2>11. LeasesKept'
    BY <1>0, <2>1, <2>4, <2>9 DEF LeasesKept, t
  <2>12. Late' \subseteq Late \cup {c} BY <1>0, <1>3 DEF Late
  <2>13. BudgetKept'
    BY <1>0, <2>1, <2>5, <2>6, <2>12 DEF BudgetKept, t
  <2>14. BudgetHeld'
    <3>1. Reserved(t) + Tokens[c] <= TokensPerMinute
      <4>1. IsFiniteSet(DOMAIN N) /\ Sizes(N, DOMAIN N) BY <2>1, CurrentFinite DEF Sizes
      <4>2. Reserved(t) \in Nat BY <2>1a, <4>1, TotalNat
      <4> QED BY <1>3, <2>3, <4>2, RedisAssumption DEF Over
    <3> DEFINE L == Late \ {c}
    <3>2. L \subseteq DOMAIN N /\ \A d \in L : N[d] = Tokens[d] BY <2>1
    <3>3. IsFiniteSet(DOMAIN N) /\ Sizes(N, DOMAIN N) /\ IsFiniteSet(L) /\ Sizes(Tokens, L)
      BY <2>1, <2>3, <3>2, CurrentFinite DEF Sizes
    <3>4. Total(N, L) <= Reserved(t) BY <2>1a, <3>2, <3>3, TotalMonotone
    <3>5. Total(N, L) = Total(Tokens, L) BY <3>2, <3>3, TotalSame
    <3>6. L \cup {c} \subseteq Conns BY <1>0, <2>1, <3>2
    <3>7. IsFiniteSet(L \cup {c}) /\ Sizes(Tokens, L \cup {c}) BY <2>3, <3>6, CurrentFinite DEF Sizes
    <3>8. Total(Tokens, L \cup {c}) = Tokens[c] + Total(Tokens, (L \cup {c}) \ {c})
      <4> HIDE DEF L
      <4> QED BY <3>7, TotalTake
    <3>9. (L \cup {c}) \ {c} = L OBVIOUS
    <3>10. Late' \subseteq L \cup {c} BY <2>12
    <3> HIDE DEF L
    <3>11. Total(Tokens, Late') <= Total(Tokens, L \cup {c}) BY <3>7, <3>10, TotalMonotone
    <3>12. IsFiniteSet(Late') /\ Sizes(Tokens, Late') BY <3>7, <3>10, FS_Subset DEF Sizes
    <3>13. Total(Tokens, Late') \in Nat /\ Total(Tokens, L) \in Nat /\ Reserved(t) \in Nat
      BY <2>1a, <3>3, <3>12, TotalNat
    <3>14. Total(Tokens, Late') <= TokensPerMinute
      BY <2>3, <3>1, <3>4, <3>5, <3>8, <3>9, <3>11, <3>13, RedisAssumption
    <3> QED BY <3>14 DEF BudgetHeld
  <2>15. SlotsCounted'
    <3> DEFINE U == Unexpired(t)
    <3>1. U \subseteq Conns BY <2>1
    <3>2. Unexpired(now + Lead)' \subseteq U \cup {c}
      BY <2>1, <2>4 DEF Unexpired
    <3> HIDE DEF U
    <3>3. IsFiniteSet(U) /\ Cardinality(U) \in Nat BY <3>1, CurrentFinite
    <3>4. Cardinality(U) < MaxConcurrent BY <1>3, <3>3, RedisAssumption DEF Full, U
    <3>5. Cardinality(U \cup {c}) <= Cardinality(U) + 1
      <4>1. Cardinality(U \cup {c}) = IF c \in U THEN Cardinality(U) ELSE Cardinality(U) + 1
        BY <3>3, FS_AddElement
      <4> QED BY <3>3, <4>1
    <3>6. U \cup {c} \subseteq Conns BY <1>0, <3>1
    <3>7. /\ Cardinality(Unexpired(now + Lead)') <= Cardinality(U \cup {c})
          /\ Cardinality(U \cup {c}) \in Nat /\ Cardinality(Unexpired(now + Lead)') \in Nat
      BY <3>2, <3>6, CurrentFinite
    <3>8. Cardinality(Unexpired(now + Lead)') <= MaxConcurrent
      BY <3>3, <3>4, <3>5, <3>7, RedisAssumption
    <3> QED BY <3>8 DEF SlotsCounted
  <2> QED BY <2>7, <2>8, <2>10, <2>11, <2>13, <2>14, <2>15 DEF GateInv
<1>4. (Purge(t) /\ Reply(m, "refused") /\ UNCHANGED <<stored, granted>>)
      \/ (/\ ~Full(t) /\ ~Over(c, t)
          /\ active' = Put(A, c, t + Lease) /\ tokens' = Put(K, c, t) /\ counts' = Put(N, c, Tokens[c])
          /\ stored' = now /\ granted' = granted \cup {c} /\ Reply(m, "granted"))
  BY DEF Acquire, c, t
<1> QED BY <1>2, <1>3, <1>4

\* Every step keeps the limits.
LEMMA GateStep == ASSUME GateInv, [Next]_vars PROVE GateInv'
<1>1. CASE UNCHANGED vars
  <2>1. UNCHANGED <<phase, live, now, active, tokens, counts, stored, mail, sent, answer, asked, granted, hitches>>
    BY <1>1 DEF vars, handler, keys, net
  <2> QED BY <2>1 DEF GateInv, NetType, MailOrdered, Stamped, LeasesKept, SlotsCounted, BudgetKept, BudgetHeld,
                      Served, Holders, Late, Unexpired
<1>2. ASSUME NEW m \in mail, Serve(m) PROVE GateInv'
  BY <1>2, AcquireKeeps, ReleaseKeeps DEF Serve
<1> QED BY <1>1, <1>2, Steps, HandleKeeps, SnapshotKeeps, TickKeeps

\* At the start nobody is served.
LEMMA GateInit == ASSUME Init PROVE GateInv
<1>1. /\ phase = [c \in Conns |-> "idle"] /\ live = {} /\ now = 0 /\ stored = 0
      /\ active = Empty /\ tokens = Empty /\ counts = Empty
      /\ mail = {} /\ sent = [c \in Conns |-> 0] /\ answer = [c \in Conns |-> "none"]
      /\ asked = [c \in Conns |-> 0] /\ granted = {} /\ hitches = {}
  BY DEF Init, InitHandler
<1>2. DOMAIN Empty = {} /\ Empty \in [{} -> Nat] BY DEF Empty
<1>3. NetType BY <1>1, <1>2, RedisAssumption DEF NetType
<1>4. Served = {} /\ Late = {} /\ Unexpired(now + Lead) = {} BY <1>1, <1>2 DEF Served, Holders, Late, Unexpired
<1>5. SlotsCounted BY <1>4, FS_EmptySet, RedisAssumption DEF SlotsCounted
<1>6. BudgetHeld
  <2>1. IsFiniteSet({}) BY FS_EmptySet
  <2>2. Total(Tokens, {}) = 0 BY <2>1, TotalFirst
  <2> QED BY <1>4, <2>2, RedisAssumption DEF BudgetHeld
<1>7. Stamped BY <1>1, <1>4, RedisAssumption DEF Stamped
<1> QED BY <1>1, <1>3, <1>4, <1>5, <1>6, <1>7 DEF GateInv, MailOrdered, LeasesKept, BudgetKept

(* The account of a request's commands is kept by its own handler, and by  *)
(* the scripts.                                                            *)
LEMMA AccountHandle ==
  ASSUME NetType, Account, NEW c \in Conns, Handle(c)
  PROVE  Account'
<1>0. /\ phase \in [Conns -> Phases] /\ phase' \in [Conns -> Phases] /\ sent \in [Conns -> 0 .. MaxSends]
      /\ answer \in [Conns -> {"none", "granted", "refused", "done"}] /\ hitches \subseteq Conns
      /\ answer' \in [Conns -> {"none", "granted", "refused", "done"}]
      /\ active' = active /\ Alone(c)
  BY HandleFrame DEF NetType, Phases
<1> DEFINE Mine(d) == {m \in mail : m.conn = d}
           Sound(d, p, a, n, M) ==
             /\ \A m \in M : /\ p \in Calling /\ a = "none"
                             /\ m = [kind |-> Call(p), conn |-> d, copy |-> n]
             /\ d \in DOMAIN active => \/ p \in {"waiting", "responding", "streaming", "dropped"}
                                       \/ p = "acquiring" /\ a = "granted"
                                       \/ p \in {"rolling", "releasing"} /\ a # "done"
<1>1. Account <=> \A d \in Conns \ hitches : Sound(d, phase[d], answer[d], sent[d], Mine(d))
  BY DEF Account, Holders
<1>2. Account' <=> \A d \in Conns \ hitches' : Sound(d, phase'[d], answer'[d], sent'[d], Mine(d)')
  BY <1>0 DEF Account, Holders
<1>3. \A d \in Conns \ {c} : Mine(d)' \subseteq Mine(d)
  BY HandleMoves
<1>4. hitches \subseteq hitches'
  BY DEF Handle, Ask, Refused, Submit, SubmitRefused, WaitEnds, WaitCancelled, StreamEnds, Released,
         Repeat, CallFails, Consume, net
<1>5. \A d \in Conns \ {c} : d \notin hitches' => Sound(d, phase'[d], answer'[d], sent'[d], Mine(d)')
  BY <1>0, <1>1, <1>3, <1>4 DEF Alone
<1>6. ASSUME c \notin hitches' PROVE Sound(c, phase'[c], answer'[c], sent'[c], Mine(c)')
  <2>0. Sound(c, phase[c], answer[c], sent[c], Mine(c)) BY <1>1, <1>4, <1>6
  <2>1. CASE Ask(c)
    <3>1. Send(c, "acquire") /\ "acquire" \in Kinds BY <2>1 DEF Ask, Kinds
    <3>2. phase'[c] = "acquiring" /\ phase[c] = "idle" BY <1>0, <2>1 DEF Ask, Goto
    <3>3. Mine(c) = {} BY <2>0, <3>2 DEF Calling
    <3>4. /\ answer'[c] = "none"
          /\ mail' = mail \cup {[kind |-> "acquire", conn |-> c, copy |-> sent'[c]]}
      BY <3>1, SendType
    <3>5. c \notin DOMAIN active BY <2>0, <3>2
    <3>6. \A m \in Mine(c)' : m = [kind |-> Call(phase'[c]), conn |-> c, copy |-> sent'[c]]
      BY <3>2, <3>3, <3>4 DEF Call
    <3> QED BY <3>2, <3>4, <3>5, <3>6 DEF Calling
  <2>2. CASE Refused(c) \/ Submit(c) \/ Released(c)
    <3>1. mail' = mail /\ phase[c] \in {"acquiring", "rolling", "releasing"} /\ answer[c] # "none"
      BY <1>0, <2>2 DEF Refused, Submit, Released, Consume
    <3>2. \/ phase'[c] = "over" /\ (phase[c] = "acquiring" => answer[c] = "refused")
                                /\ (phase[c] # "acquiring" => answer[c] = "done")
          \/ phase'[c] \in {"responding", "waiting"}
      BY <1>0, <2>2 DEF Refused, Submit, Released, Begin, Goto
    <3>3. Mine(c)' = {} BY <2>0, <3>1
    <3> QED BY <2>0, <3>1, <3>2, <3>3
  <2>3. CASE SubmitRefused(c) \/ WaitEnds(c) \/ WaitCancelled(c) \/ StreamEnds(c)
    <3>1. PICK kind \in Kinds : /\ Send(c, kind) /\ phase'[c] \in {"rolling", "releasing"}
                                /\ kind = Call(phase'[c])
      BY <1>0, <2>3 DEF SubmitRefused, WaitEnds, WaitCancelled, StreamEnds, Kinds, Call, Goto
    <3>2. phase[c] \notin Calling \/ answer[c] # "none"
      BY <1>0, <2>3 DEF SubmitRefused, WaitEnds, WaitCancelled, StreamEnds, Calling
    <3>3. Mine(c) = {} BY <2>0, <3>2
    <3>4. answer'[c] = "none" /\ mail' = mail \cup {[kind |-> kind, conn |-> c, copy |-> sent'[c]]}
      BY <3>1, SendType
    <3>5. \A m \in Mine(c)' : m = [kind |-> Call(phase'[c]), conn |-> c, copy |-> sent'[c]]
      BY <3>1, <3>3, <3>4
    <3> QED BY <3>1, <3>4, <3>5 DEF Calling
  <2>4. CASE Repeat(c) BY <1>6, <2>4 DEF Repeat
  <2>5. CASE CallFails(c) BY <1>6, <2>5 DEF CallFails
  <2>6. CASE (JobEnds(c) \/ StreamStarts(c) \/ StreamDropped(c)) /\ UNCHANGED <<now, keys, net, asked>>
    <3>1. mail' = mail /\ answer' = answer /\ sent' = sent BY <2>6 DEF net
    <3>2. phase' = phase \/ (phase[c] = "responding" /\ phase'[c] \in {"streaming", "dropped"})
      BY <1>0, <2>6 DEF JobEnds, StreamStarts, StreamDropped, Goto
    <3> QED BY <2>0, <3>1, <3>2 DEF Calling
  <2> QED BY <2>1, <2>2, <2>3, <2>4, <2>5, <2>6 DEF Handle
<1> QED BY <1>2, <1>5, <1>6

\* A script served: an answer for the handler, and its lease taken or given back.
LEMMA AccountServe ==
  ASSUME NetType, Account, NEW m \in mail, Serve(m)
  PROVE  Account'
<1> DEFINE c == m.conn
<1>0. /\ c \in Conns /\ UNCHANGED <<phase, sent, hitches>> /\ mail' = mail \ {m}
  BY DEF NetType, Serve, Commands, handler
<1>1. PICK a \in {"granted", "refused", "done"} :
        /\ Reply(m, a)
        /\ a = "granted" => m.kind = "acquire" /\ DOMAIN active' \subseteq DOMAIN active \cup {c}
        /\ a = "refused" => m.kind = "acquire" /\ DOMAIN active' \subseteq DOMAIN active
        /\ a = "done" => m.kind # "acquire" /\ DOMAIN active' \subseteq DOMAIN active \ {c}
  <2>1. CASE Acquire(m) BY <2>1 DEF Acquire, Purge, Put, Restrict, Unexpired
  <2>2. CASE Release(m) BY <2>2 DEF Release, Restrict
  <2> QED BY <2>1, <2>2 DEF Serve
<1>2. /\ \A d \in Conns \ {c} : answer'[d] = answer[d]
      /\ sent[c] = m.copy /\ phase[c] \in Calling => answer'[c] = a
  BY <1>1, ReplyFrame
<1> HIDE DEF c
<1>3. ASSUME NEW d \in Conns \ hitches, d # c
      PROVE  /\ answer'[d] = answer[d]
             /\ d \in DOMAIN active' => d \in DOMAIN active
  BY <1>1, <1>2, <1>3
<1>4. ASSUME c \notin hitches
      PROVE  /\ phase[c] \in Calling /\ answer[c] = "none" /\ answer'[c] = a
             /\ m = [kind |-> Call(phase[c]), conn |-> c, copy |-> sent[c]]
             /\ \A n \in mail' : n.conn # c
  <2>1. /\ phase[c] \in Calling /\ answer[c] = "none"
        /\ m = [kind |-> Call(phase[c]), conn |-> c, copy |-> sent[c]]
        /\ \A n \in mail : n.conn = c => n = [kind |-> Call(phase[c]), conn |-> c, copy |-> sent[c]]
    BY <1>0, <1>4 DEF Account, c
  <2>2. m.copy = sent[c] BY <2>1
  <2> QED BY <1>0, <1>2, <2>1, <2>2
<1>5. ASSUME NEW d \in Conns \ hitches', d # c
      PROVE  /\ \A n \in mail' : n.conn = d =>
                  /\ phase'[d] \in Calling /\ answer'[d] = "none"
                  /\ n = [kind |-> Call(phase'[d]), conn |-> d, copy |-> sent'[d]]
             /\ d \in DOMAIN active' => \/ d \in Holders'
                                        \/ phase'[d] = "acquiring" /\ answer'[d] = "granted"
                                        \/ phase'[d] \in {"rolling", "releasing"} /\ answer'[d] # "done"
  BY <1>0, <1>3, <1>5 DEF Account, Holders
<1>6. ASSUME c \notin hitches', c \in DOMAIN active'
      PROVE  \/ phase'[c] = "acquiring" /\ answer'[c] = "granted"
             \/ phase'[c] \in {"rolling", "releasing"} /\ answer'[c] # "done"
  <2>1. phase[c] \in Calling /\ answer[c] = "none" /\ answer'[c] = a /\ m.kind = Call(phase[c])
    BY <1>0, <1>4, <1>6
  <2>2. a # "done" BY <1>1, <1>6
  <2>3. phase[c] = "acquiring" => a = "granted"
    <3>1. ASSUME phase[c] = "acquiring" PROVE c \notin DOMAIN active
      BY <1>0, <1>6, <2>1, <3>1 DEF Account, Holders
    <3> QED BY <1>1, <1>6, <2>2, <3>1
  <2> QED BY <1>0, <2>1, <2>2, <2>3 DEF Calling
<1> QED BY <1>0, <1>4, <1>5, <1>6 DEF Account

\* Every step keeps the account.
LEMMA AccountStep == ASSUME NetType, Account, [Next]_vars PROVE Account'
<1>1. CASE UNCHANGED vars
  BY <1>1 DEF vars, handler, keys, net, Account, Holders
<1>2. ASSUME NEW c \in Conns, Snapshot(c) PROVE Account'
  <2>1. UNCHANGED <<phase, mail, sent, answer, hitches>> /\ DOMAIN active' \subseteq DOMAIN active
    BY <1>2 DEF Snapshot, handler, net, Purge, Restrict, Unexpired
  <2> QED BY <2>1 DEF Account, Holders
<1>3. CASE Tick
  <2>1. UNCHANGED <<phase, mail, sent, answer, hitches>> /\ DOMAIN active' \subseteq DOMAIN active
    BY <1>3 DEF Tick, handler, net, Empty
  <2> QED BY <2>1 DEF Account, Holders
<1> QED BY <1>1, <1>2, <1>3, Steps, AccountHandle, AccountServe

\* At the start no request has a lease.
LEMMA AccountInit == ASSUME Init PROVE Account
BY DEF Init, InitHandler, Account, Empty

-----------------------------------------------------------------------------
\* The theorems.

(* What the scripts keep of the limits and of the leases, for any number   *)
(* of containers and whatever the network does: the two invariants the     *)
(* theorems below follow from (api.py:209-260).                            *)
THEOREM RedisGateInvariant == Spec => [](GateInv /\ Account)
<1>1. Init => GateInv /\ Account BY GateInit, AccountInit
<1>2. GateInv /\ Account /\ [Next]_vars => GateInv' /\ Account'
  BY GateStep, AccountStep DEF GateInv
<1> QED BY <1>1, <1>2, PTL DEF Spec

(* Across any number of containers, whatever their clocks and whatever the *)
(* network does, no more requests than the policy allows hold a lease that *)
(* some clock takes for valid (api.py:227).                                *)
THEOREM LimitIsHeld == Spec => []LimitHeld
<1>1. ASSUME GateInv PROVE LimitHeld
  <2>1. SafeHolders \subseteq Unexpired(now + Lead)
    BY <1>1 DEF SafeHolders, Served, Holders, Fastest, Lead, GateInv, LeasesKept, Unexpired
  <2>2. Unexpired(now + Lead) \subseteq Conns BY <1>1 DEF Unexpired, GateInv, NetType
  <2>3. /\ Cardinality(SafeHolders) <= Cardinality(Unexpired(now + Lead))
        /\ Cardinality(SafeHolders) \in Nat /\ Cardinality(Unexpired(now + Lead)) \in Nat
    BY <2>1, <2>2, CurrentFinite
  <2> QED BY <1>1, <2>3, RedisAssumption DEF GateInv, SlotsCounted, LimitHeld
<1> QED BY <1>1, RedisGateInvariant, PTL

(* Nor do those granted within a window reserve more than the budget       *)
(* (api.py:228-230).                                                       *)
THEOREM BudgetIsHeld == Spec => []WindowBudget
<1>1. ASSUME GateInv PROVE WindowBudget
  <2>0. Fastest = now + Lead BY DEF Fastest, Lead
  <2>1. Late = {c \in granted : asked[c] > Fastest - Window} BY <2>0 DEF Late
  <2> QED BY <1>1, <2>1 DEF GateInv, BudgetHeld, WindowBudget
<1> QED BY <1>1, RedisGateInvariant, PTL

(* With any number of containers and requests, a lease with no handler to  *)
(* give it back is one of a request with a call that was repeated, raised  *)
(* or was cancelled, or of a stream that was dropped before its generator  *)
(* had started (api.py:804-810, 832-833, 867, 887-890).                    *)
THEOREM NothingLeaks == Spec => []NoLeak
<1>1. ASSUME GateInv, Account PROVE NoLeak
  <2>1. DOMAIN active \subseteq Conns BY <1>1 DEF GateInv, NetType
  <2> QED BY <1>1, <2>1 DEF Account, NoLeak, Attended, Holders
<1> QED BY <1>1, RedisGateInvariant, PTL

\* Every variable keeps its type.
THEOREM RedisTypes == Spec => []TypeOK
<1>1. GateInv => TypeOK
  <2> SUFFICES ASSUME GateInv PROVE TypeOK OBVIOUS
  <2>1. \A f \in {active, tokens, counts} : DOMAIN f \subseteq Conns /\ f \in [DOMAIN f -> Nat]
    BY DEF GateInv, NetType
  <2>2. {now, stored} \subseteq Nat BY DEF GateInv, NetType
  <2> QED BY <2>1, <2>2 DEF GateInv, NetType, TypeOK
<1> QED BY <1>1, RedisGateInvariant, PTL

===============================================================================
