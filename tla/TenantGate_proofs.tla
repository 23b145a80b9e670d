-------------------------- MODULE TenantGate_proofs --------------------------
(***************************************************************************)
(* The counter of the process-local gate is exact for any number of        *)
(* connections and any policy, and the gate implements LeasePool. Its      *)
(* history agrees with what was granted in the window, entry by entry and  *)
(* in total, so the budget of the window is kept, and Retry-After is long  *)
(* enough.                                                                 *)
(***************************************************************************)
EXTENDS TenantGate, FiniteSetTheorems, SequenceTheorems, NaturalsInduction,
        WellFoundedInduction, TLAPS

(* The counter is the number of holders. That it is never above the policy *)
(* needs nothing else: a lease is granted below it only.                   *)
GateInv ==
  /\ phase \in [Conns -> {"idle", "waiting", "responding", "streaming", "dropped"}]
  /\ LeasesExact

\* LeasePool counts with the same operator.
LEMMA SameCount == ASSUME NEW S PROVE Leases!Cardinality(S) = Cardinality(S)
BY DEF Leases!Cardinality, Cardinality

\* The holders are some of the connections, and so they can be counted.
LEMMA HoldersFinite == IsFiniteSet(Holders) /\ Cardinality(Holders) \in Nat
<1>1. Holders \subseteq Conns BY DEF Holders
<1> QED BY <1>1, ConnsAssumption, FS_Subset, FS_CardinalityType

(* A submission adds its connection to the holders, and to nothing else    *)
(* (api.py:179-181).                                                       *)
LEMMA SubmitHolds ==
  ASSUME GateInv, NEW c \in Conns, Submit(c)
  PROVE  /\ c \notin Holders /\ Holders' = Holders \cup {c}
         /\ Cardinality(Holders) < MaxConcurrent
         /\ GateInv'
<1>1. c \notin Holders BY DEF Submit, Holders
<1>2. phase' \in [Conns -> {"idle", "waiting", "responding", "streaming", "dropped"}]
  BY DEF GateInv, Submit, Begin, Goto
<1>3. Holders' = Holders \cup {c}
  BY DEF GateInv, Submit, Begin, Goto, Holders
<1>4. Cardinality(Holders) < MaxConcurrent
  BY HoldersFinite, PolicyAssumption DEF GateInv, LeasesExact, Submit, Busy
<1>5. Cardinality(Holders') = Cardinality(Holders) + 1
  BY <1>1, <1>3, HoldersFinite, FS_AddElement
<1>6. LeasesExact'
  BY <1>4, <1>5, HoldersFinite, PolicyAssumption DEF GateInv, LeasesExact, Submit
<1> QED BY <1>1, <1>2, <1>3, <1>4, <1>6 DEF GateInv

(* Every way a holder ends gives back its lease and no other               *)
(* (api.py:138-141, 183-190).                                              *)
LEMMA DoneReleases ==
  ASSUME GateInv, NEW c \in Conns, c \in Holders, Done(c)
  PROVE  Holders' = Holders \ {c} /\ GateInv'
<1>1. phase' \in [Conns -> {"idle", "waiting", "responding", "streaming", "dropped"}]
  BY DEF GateInv, Done, Goto
<1>2. Holders' = Holders \ {c}
  BY DEF GateInv, Done, Goto, Holders
<1>3. Cardinality(Holders') = Cardinality(Holders) - 1
  BY <1>2, HoldersFinite, FS_RemoveElement
<1>4. LeasesExact'
  BY <1>3, HoldersFinite, PolicyAssumption DEF GateInv, LeasesExact, Done
<1> QED BY <1>1, <1>2, <1>4 DEF GateInv

\* A step that neither takes nor gives back a lease touches neither the holders nor the counter.
LEMMA OthersKeep ==
  ASSUME GateInv, UNCHANGED active,
         \/ UNCHANGED phase
         \/ \E c \in Conns : StreamStarts(c) \/ StreamDropped(c)
  PROVE  Holders' = Holders /\ GateInv'
<1>1. phase' \in [Conns -> {"idle", "waiting", "responding", "streaming", "dropped"}]
      /\ \A c \in Conns : phase'[c] = "idle" <=> phase[c] = "idle"
  <2>1. CASE UNCHANGED phase BY <2>1 DEF GateInv
  <2>2. CASE \E c \in Conns : StreamStarts(c) \/ StreamDropped(c)
    BY <2>2 DEF GateInv, StreamStarts, StreamDropped, Goto
  <2> QED BY <2>1, <2>2
<1>2. Holders' = Holders BY <1>1 DEF Holders
<1>3. LeasesExact' BY <1>2 DEF GateInv, LeasesExact
<1> QED BY <1>1, <1>2, <1>3 DEF GateInv

(* One step takes one lease, gives one back, or leaves them alone, and the *)
(* counter stays exact.                                                    *)
LEMMA GateStep ==
  ASSUME GateInv, [Next]_vars
  PROVE  GateInv' /\ [Leases!Next]_Holders
<1>1. ASSUME NEW c \in Conns, Submit(c) PROVE GateInv' /\ [Leases!Next]_Holders
  BY <1>1, SubmitHolds, SameCount DEF Leases!Next, Leases!Acquire
<1>2. ASSUME NEW c \in Conns, WaitEnds(c) \/ WaitCancelled(c) \/ StreamEnds(c)
      PROVE  GateInv' /\ [Leases!Next]_Holders
  <2>1. c \in Holders /\ Done(c)
    BY <1>2 DEF WaitEnds, WaitCancelled, StreamEnds, Holders
  <2> QED BY <2>1, DoneReleases DEF Leases!Next, Leases!Release
<1>3. CASE UNCHANGED vars \/ Tick
  BY <1>3, OthersKeep DEF vars, handler, gate, Tick
<1>4. ASSUME NEW c \in Conns, Refuse(c) \/ SubmitRefused(c)
      PROVE  GateInv' /\ [Leases!Next]_Holders
  BY <1>4, OthersKeep DEF handler, Refuse, SubmitRefused
<1>5. ASSUME NEW c \in Conns, JobEnds(c) \/ StreamStarts(c) \/ StreamDropped(c), UNCHANGED <<now, gate>>
      PROVE  GateInv' /\ [Leases!Next]_Holders
  <2>1. UNCHANGED active BY <1>5 DEF gate
  <2>2. CASE JobEnds(c) BY <2>1, <2>2, OthersKeep DEF JobEnds
  <2>3. CASE StreamStarts(c) \/ StreamDropped(c) BY <2>1, <2>3, OthersKeep
  <2> QED BY <1>5, <2>2, <2>3
<1> QED BY <1>1, <1>2, <1>3, <1>4, <1>5 DEF Next

\* A new gate has given no lease (api.py:154).
LEMMA GateInit == ASSUME Init PROVE GateInv /\ Leases!Init
<1>1. Holders = {} BY DEF Init, InitHandler, Holders
<1>2. Cardinality(Holders) = 0 BY <1>1, FS_EmptySet
<1> QED BY <1>1, <1>2, PolicyAssumption DEF Init, InitHandler, GateInv, LeasesExact, Leases!Init

(* For every policy and any number of connections, the counter is the      *)
(* number of requests that hold a lease, and never above max_concurrent.   *)
THEOREM LeasesAreExact == Spec => []LeasesExact
<1>1. Init => GateInv BY GateInit
<1>2. GateInv /\ [Next]_vars => GateInv' BY GateStep
<1>3. GateInv => LeasesExact BY DEF GateInv
<1> QED BY <1>1, <1>2, <1>3, PTL DEF Spec

(* The process-local gate, with the handler around it, implements          *)
(* LeasePool: whichever way a request ends, it takes one lease and gives   *)
(* it back once.                                                           *)
THEOREM GateImplementsLeasePool == Spec => LeasesSpec
<1>1. Init => GateInv /\ Leases!Init BY GateInit
<1>2. GateInv /\ [Next]_vars => GateInv' /\ [Leases!Next]_Holders BY GateStep
<1> QED BY <1>1, <1>2, PTL DEF Spec, LeasesSpec, Leases!Spec

-----------------------------------------------------------------------------
(* Sequences of reservations: what they reserve, and how often one is in   *)
(* them.                                                                   *)

\* A set of numbers has a least.
LEMMA LeastNumber ==
  ASSUME NEW T, T \subseteq Nat, T # {}
  PROVE  \E n \in T : \A m \in Nat : m < n => m \notin T
<1>1. PICK n \in T : \A m \in T : ~ (<<m, n>> \in OpToRel(<, Nat))
  BY NatLessThanWellFounded, WFMin
<1>2. \A m \in Nat : m < n => <<m, n>> \in OpToRel(<, Nat) BY DEF OpToRel
<1> QED BY <1>1, <1>2

\* f gives the total of each prefix of h, up to the m-th.
NextSum(h, n, before) == IF n = 0 THEN 0 ELSE before + h[n].tokens
IsSum(f, h, m) == f = [n \in 0 .. m |-> NextSum(h, n, f[n - 1])]

\* Total is defined by such a function.
LEMMA TotalOf == ASSUME NEW h PROVE Total(h) = (CHOOSE f : IsSum(f, h, Len(h)))[Len(h)]
BY DEF Total, IsSum, NextSum

\* The totals of the prefixes exist, for every sequence.
LEMMA SumExists ==
  ASSUME NEW h, NEW m \in Nat
  PROVE  \E f : IsSum(f, h, m)
<1> DEFINE T == {n \in Nat : ~\E f : IsSum(f, h, n)}
<1> SUFFICES ASSUME T # {} PROVE FALSE OBVIOUS
<1>1. PICK n \in T : \A k \in Nat : k < n => k \notin T
  <2> HIDE DEF T
  <2> QED BY LeastNumber DEF T
<1>2. CASE n = 0
  <2> DEFINE f == [k \in 0 .. 0 |-> 0]
  <2>1. f = [k \in 0 .. 0 |-> NextSum(h, k, f[k - 1])] BY DEF NextSum
  <2> QED BY <1>2, <2>1 DEF IsSum
<1>3. CASE n # 0
  <2>1. n - 1 \in Nat /\ n - 1 < n BY <1>3
  <2>2. PICK f : IsSum(f, h, n - 1) BY <1>1, <2>1
  <2> DEFINE g == [k \in 0 .. n |-> IF k = n THEN NextSum(h, n, f[n - 1]) ELSE f[k]]
  <2>3. \A k \in 0 .. n - 1 : f[k] = NextSum(h, k, f[k - 1]) BY <2>2 DEF IsSum
  <2>4. \A k \in 0 .. n : g[k] = NextSum(h, k, g[k - 1])
    <3> TAKE k \in 0 .. n
    <3>1. CASE k = n
      <4>1. g[k - 1] = f[n - 1] BY <3>1, <1>3
      <4> QED BY <4>1, <3>1
    <3>2. CASE k # n /\ k # 0
      <4>1. g[k - 1] = f[k - 1] /\ k \in 0 .. n - 1 BY <3>2
      <4> QED BY <4>1, <3>2, <2>3
    <3>3. CASE k = 0
      <4>1. 0 \in 0 .. n - 1 /\ g[0] = f[0] BY <1>3
      <4>2. f[0] = 0 BY <2>3, <4>1 DEF NextSum
      <4> QED BY <3>3, <4>1, <4>2 DEF NextSum
    <3> QED BY <3>1, <3>2, <3>3
  <2>5. g = [k \in 0 .. n |-> NextSum(h, k, g[k - 1])]
    <3> HIDE DEF g
    <3>1. \A e : (e = [k \in 0 .. n |-> g[k]]) => (e = [k \in 0 .. n |-> NextSum(h, k, g[k - 1])]) BY <2>4
    <3>2. g = [k \in 0 .. n |-> g[k]] BY DEF g
    <3> QED BY <3>1, <3>2
  <2> HIDE DEF g
  <2> QED BY <2>5 DEF IsSum
<1> QED BY <1>2, <1>3

\* They depend on the prefix only.
LEMMA SumUnique ==
  ASSUME NEW f, NEW g, NEW h, NEW u, NEW m \in Nat, NEW n \in Nat, NEW k \in Nat,
         k <= m, k <= n, IsSum(f, h, m), IsSum(g, u, n),
         \A j \in 1 .. k : h[j] = u[j]
  PROVE  f[k] = g[k]
<1> DEFINE T == {j \in Nat : j <= k /\ f[j] # g[j]}
<1> SUFFICES ASSUME T # {} PROVE FALSE OBVIOUS
<1>1. PICK j \in T : \A i \in Nat : i < j => i \notin T
  <2> HIDE DEF T
  <2> QED BY LeastNumber DEF T
<1>2. f[j] = NextSum(h, j, f[j - 1]) /\ g[j] = NextSum(u, j, g[j - 1])
  BY <1>1 DEF IsSum
<1>3. CASE j = 0 BY <1>1, <1>2, <1>3 DEF NextSum
<1>4. CASE j # 0
  <2>1. f[j - 1] = g[j - 1] BY <1>1, <1>4
  <2>2. h[j] = u[j] BY <1>1, <1>4
  <2> QED BY <1>1, <1>2, <2>1, <2>2 DEF NextSum
<1> QED BY <1>3, <1>4

\* One more reservation.
LEMMA TotalLast ==
  ASSUME NEW h, NEW n \in Nat, Len(h) = n + 1, NEW p, Len(p) = n,
         \A j \in 1 .. n : p[j] = h[j]
  PROVE  Total(h) = Total(p) + h[n + 1].tokens
<1> DEFINE f == CHOOSE f : IsSum(f, h, n + 1)
           g == CHOOSE g : IsSum(g, p, n)
<1>1. IsSum(f, h, n + 1) /\ IsSum(g, p, n)
  <2>1. n + 1 \in Nat OBVIOUS
  <2>2. (\E x : IsSum(x, h, n + 1)) /\ (\E x : IsSum(x, p, n)) BY <2>1, SumExists
  <2> QED BY <2>2
<1>2. Total(h) = f[n + 1] /\ Total(p) = g[n] BY TotalOf
<1> HIDE DEF f, g
<1>3. f[n + 1] = f[n] + h[n + 1].tokens BY <1>1 DEF IsSum, NextSum
<1>4. f[n] = g[n] BY <1>1, SumUnique
<1> QED BY <1>2, <1>3, <1>4

\* Nothing reserves nothing.
LEMMA TotalEmpty == Total(<<>>) = 0
<1> DEFINE f == CHOOSE f : IsSum(f, <<>>, 0)
<1>1. IsSum(f, <<>>, 0) BY SumExists
<1>2. Total(<<>>) = f[0] BY TotalOf
<1> HIDE DEF f
<1> QED BY <1>1, <1>2 DEF IsSum, NextSum

\* A reservation more, at the end.
LEMMA TotalAppend ==
  ASSUME NEW h \in Seq(Reservation), NEW e \in Reservation
  PROVE  Total(Append(h, e)) = Total(h) + e.tokens
<1>1. /\ Len(h) \in Nat /\ Len(Append(h, e)) = Len(h) + 1 /\ Append(h, e)[Len(h) + 1] = e
      /\ \A j \in 1 .. Len(h) : h[j] = Append(h, e)[j]
  BY AppendProperties, LenProperties
<1> QED BY <1>1, TotalLast

\* What a sequence is without its last.
LEMMA WithoutLast ==
  ASSUME NEW h \in Seq(Reservation), h # <<>>
  PROVE  \E p \in Seq(Reservation), e \in Reservation : Len(h) = Len(p) + 1 /\ h = Append(p, e)
<1> DEFINE n == Len(h) - 1
           p == SubSeq(h, 1, n)
<1>1. Len(h) \in Nat /\ n \in Nat /\ Len(h) = n + 1 BY LenProperties, EmptySeq
<1>2. p \in Seq(Reservation) /\ Len(p) = n /\ \A j \in 1 .. n : p[j] = h[j] BY <1>1
<1>3. h[n + 1] \in Reservation BY <1>1, ElementOfSeq
<1> HIDE DEF n, p
<1>4. h = Append(p, h[n + 1])
  <2>1. /\ Append(p, h[n + 1]) \in Seq(Reservation) /\ Len(Append(p, h[n + 1])) = n + 1
        /\ Append(p, h[n + 1])[n + 1] = h[n + 1]
        /\ \A j \in 1 .. n : Append(p, h[n + 1])[j] = p[j]
    BY <1>2, <1>3, AppendProperties
  <2>2. \A j \in 1 .. n + 1 : j = n + 1 \/ j \in 1 .. n BY <1>1
  <2>3. \A j \in 1 .. n + 1 : Append(p, h[n + 1])[j] = h[j] BY <1>2, <2>1, <2>2
  <2> QED BY <1>1, <2>1, <2>3, SeqEqual
<1> QED BY <1>1, <1>2, <1>3, <1>4

\* A reservation appended to the second of two sequences is the last of both.
LEMMA AppendAfter ==
  ASSUME NEW g \in Seq(Reservation), NEW p \in Seq(Reservation), NEW e \in Reservation
  PROVE  g \o p \in Seq(Reservation) /\ g \o Append(p, e) = Append(g \o p, e)
<1>1. Append(p, e) = p \o <<e>> OBVIOUS
<1>2. g \o p \in Seq(Reservation) BY ConcatProperties
<1>3. Append(g \o p, e) = (g \o p) \o <<e>> BY <1>2
<1>4. <<e>> \in Seq(Reservation) OBVIOUS
<1> QED BY <1>1, <1>2, <1>3, <1>4, ConcatAssociative

\* A total is a number.
LEMMA TotalNat == ASSUME NEW h \in Seq(Reservation) PROVE Total(h) \in Nat
<1> DEFINE T == {n \in Nat : \E g \in Seq(Reservation) : Len(g) = n /\ Total(g) \notin Nat}
<1> SUFFICES ASSUME T # {} PROVE FALSE BY LenProperties
<1>1. PICK n \in T : \A k \in Nat : k < n => k \notin T
  <2> HIDE DEF T
  <2> QED BY LeastNumber DEF T
<1>2. PICK g \in Seq(Reservation) : Len(g) = n /\ Total(g) \notin Nat OBVIOUS
<1>3. CASE g = <<>> BY <1>2, <1>3, TotalEmpty
<1>4. CASE g # <<>>
  <2>1. PICK p \in Seq(Reservation), e \in Reservation : Len(g) = Len(p) + 1 /\ g = Append(p, e)
    BY <1>4, WithoutLast
  <2>2. Len(p) \in Nat /\ Len(p) < n BY <1>2, <2>1, LenProperties
  <2>3. Total(p) \in Nat BY <1>1, <2>2
  <2>4. e.tokens \in Nat BY DEF Reservation
  <2> QED BY <1>2, <2>1, <2>3, <2>4, TotalAppend
<1> QED BY <1>3, <1>4

\* One sequence after another reserves what both do.
LEMMA TotalConcat ==
  ASSUME NEW g \in Seq(Reservation), NEW h \in Seq(Reservation)
  PROVE  Total(g \o h) = Total(g) + Total(h)
<1> DEFINE T == {n \in Nat : \E u \in Seq(Reservation) : Len(u) = n /\ Total(g \o u) # Total(g) + Total(u)}
<1> SUFFICES ASSUME T # {} PROVE FALSE BY LenProperties
<1>1. PICK n \in T : \A k \in Nat : k < n => k \notin T
  <2> HIDE DEF T
  <2> QED BY LeastNumber DEF T
<1>2. PICK u \in Seq(Reservation) : Len(u) = n /\ Total(g \o u) # Total(g) + Total(u) OBVIOUS
<1>3. CASE u = <<>>
  <2>1. g \o u = g BY <1>3, ConcatEmptySeq
  <2> QED BY <1>2, <1>3, <2>1, TotalEmpty, TotalNat
<1>4. CASE u # <<>>
  <2>1. PICK p \in Seq(Reservation), e \in Reservation : Len(u) = Len(p) + 1 /\ u = Append(p, e)
    BY <1>4, WithoutLast
  <2>2. Len(p) \in Nat /\ Len(p) < n BY <1>2, <2>1, LenProperties
  <2>3. Total(g \o p) = Total(g) + Total(p) BY <1>1, <2>2
  <2>4. g \o u = Append(g \o p, e) /\ g \o p \in Seq(Reservation) BY <2>1, AppendAfter
  <2>5. e.tokens \in Nat /\ Total(g) \in Nat /\ Total(p) \in Nat BY TotalNat DEF Reservation
  <2>6. Total(g \o u) = Total(g \o p) + e.tokens BY <2>4, TotalAppend
  <2>7. Total(u) = Total(p) + e.tokens BY <2>1, TotalAppend
  <2> QED BY <1>2, <2>3, <2>5, <2>6, <2>7
<1> QED BY <1>3, <1>4

\* How often e is in h.
Copies(h, e) == Cardinality({i \in DOMAIN h : h[i] = e})

\* It is a number.
LEMMA CopiesNat ==
  ASSUME NEW h \in Seq(Reservation), NEW e
  PROVE  /\ IsFiniteSet({i \in DOMAIN h : h[i] = e}) /\ Copies(h, e) \in Nat
<1>1. DOMAIN h = 1 .. Len(h) /\ Len(h) \in Nat BY LenProperties
<1>2. IsFiniteSet(1 .. Len(h)) BY <1>1, FS_Interval
<1> QED BY <1>1, <1>2, FS_Subset, FS_CardinalityType DEF Copies

\* A reservation more, at the end.
LEMMA CopiesAppend ==
  ASSUME NEW h \in Seq(Reservation), NEW x \in Reservation, NEW e
  PROVE  Copies(Append(h, x), e) = Copies(h, e) + IF x = e THEN 1 ELSE 0
<1> DEFINE n == Len(h)
           now1 == {i \in DOMAIN h : h[i] = e}
           then == {i \in DOMAIN Append(h, x) : Append(h, x)[i] = e}
<1>1. /\ n \in Nat /\ DOMAIN h = 1 .. n /\ DOMAIN Append(h, x) = 1 .. n + 1
      /\ Append(h, x)[n + 1] = x /\ \A j \in 1 .. n : Append(h, x)[j] = h[j]
  <2>1. Append(h, x) \in Seq(Reservation) /\ Len(Append(h, x)) = n + 1 BY AppendProperties
  <2> QED BY <2>1, AppendProperties, LenProperties
<1>2. n + 1 \notin now1 BY <1>1
<1>3. then = IF x = e THEN now1 \cup {n + 1} ELSE now1 BY <1>1
<1>4. IsFiniteSet(now1) /\ Copies(h, e) \in Nat BY CopiesNat
<1>5. Copies(h, e) = Cardinality(now1) /\ Copies(Append(h, x), e) = Cardinality(then) BY DEF Copies
<1>6. Cardinality(now1 \cup {n + 1}) = Cardinality(now1) + 1 BY <1>2, <1>4, FS_AddElement
<1> HIDE DEF now1, then, n
<1>7. CASE x = e BY <1>3, <1>5, <1>6, <1>7
<1>8. CASE x # e BY <1>3, <1>4, <1>5, <1>8
<1> QED BY <1>7, <1>8

\* In one sequence after another it is as often as in both.
LEMMA CopiesConcat ==
  ASSUME NEW g \in Seq(Reservation), NEW h \in Seq(Reservation), NEW e
  PROVE  Copies(g \o h, e) = Copies(g, e) + Copies(h, e)
<1> DEFINE T == {n \in Nat : \E u \in Seq(Reservation) :
                               Len(u) = n /\ Copies(g \o u, e) # Copies(g, e) + Copies(u, e)}
<1> SUFFICES ASSUME T # {} PROVE FALSE BY LenProperties
<1>1. PICK n \in T : \A k \in Nat : k < n => k \notin T
  <2> HIDE DEF T
  <2> QED BY LeastNumber DEF T
<1>2. PICK u \in Seq(Reservation) : Len(u) = n /\ Copies(g \o u, e) # Copies(g, e) + Copies(u, e) OBVIOUS
<1>3. CASE u = <<>>
  <2>1. g \o u = g BY <1>3, ConcatEmptySeq
  <2>2. {i \in DOMAIN u : u[i] = e} = {} BY <1>3
  <2>3. Copies(u, e) = 0 BY <2>2, FS_EmptySet DEF Copies
  <2>4. Copies(g, e) \in Nat BY CopiesNat
  <2> HIDE DEF T
  <2> QED BY <1>2, <2>1, <2>3, <2>4
<1>4. CASE u # <<>>
  <2>1. PICK p \in Seq(Reservation), x \in Reservation : Len(u) = Len(p) + 1 /\ u = Append(p, x)
    BY <1>4, WithoutLast
  <2>2. Len(p) \in Nat /\ Len(p) < n BY <1>2, <2>1, LenProperties
  <2>3. Copies(g \o p, e) = Copies(g, e) + Copies(p, e) BY <1>1, <2>2
  <2>4. g \o u = Append(g \o p, x) /\ g \o p \in Seq(Reservation) BY <2>1, AppendAfter
  <2>5. Copies(g, e) \in Nat /\ Copies(p, e) \in Nat BY CopiesNat
  <2>6. Copies(g \o u, e) = Copies(g \o p, e) + IF x = e THEN 1 ELSE 0
    <3>1. Copies(Append(g \o p, x), e) = Copies(g \o p, e) + IF x = e THEN 1 ELSE 0
      <4> DEFINE q == g \o p
      <4>1. q \in Seq(Reservation) BY <2>4
      <4> HIDE DEF q, T
      <4>2. Copies(Append(q, x), e) = Copies(q, e) + IF x = e THEN 1 ELSE 0 BY <4>1, CopiesAppend
      <4> QED BY <4>2 DEF q
    <3> HIDE DEF T
    <3> QED BY <2>4, <3>1, Zenon
  <2>7. Copies(u, e) = Copies(p, e) + IF x = e THEN 1 ELSE 0 BY <2>1, CopiesAppend
  <2> QED BY <1>2, <2>3, <2>5, <2>6, <2>7
<1> QED BY <1>3, <1>4

-----------------------------------------------------------------------------
(* What of a history is younger than a time.                               *)

\* In the order of the stamps.
Sorted(h) == \A i, j \in DOMAIN h : i < j => h[i].stamp <= h[j].stamp

\* The cut is known by the stamps on its two sides.
LEMMA SinceIs ==
  ASSUME NEW old \in Seq(Reservation), NEW new \in Seq(Reservation), NEW t \in Int,
         \A i \in DOMAIN old : old[i].stamp <= t, \A i \in DOMAIN new : new[i].stamp > t
  PROVE  Since(old \o new, t) = new
<1> DEFINE h == old \o new
           k == Len(old)
           n == Len(new)
<1>1. /\ k \in Nat /\ n \in Nat /\ DOMAIN old = 1 .. k /\ DOMAIN new = 1 .. n
      /\ h \in Seq(Reservation) /\ Len(h) = k + n /\ DOMAIN h = 1 .. k + n
      /\ \A i \in 1 .. k + n : h[i] = IF i <= k THEN old[i] ELSE new[i - k]
  BY LenProperties, ConcatProperties
<1>2. \A i \in 1 .. k : h[i].stamp <= t BY <1>1
<1>3. ASSUME NEW i \in 1 .. k + n, i > k PROVE ~(h[i].stamp <= t)
  <2>1. i - k \in 1 .. n /\ h[i] = new[i - k] BY <1>1, <1>3
  <2>2. new[i - k] \in Reservation /\ new[i - k].stamp > t BY <1>1, <2>1, ElementOfSeq
  <2>3. new[i - k].stamp \in Nat BY <2>2 DEF Reservation
  <2> HIDE DEF h, k, n
  <2> QED BY <2>1, <2>2, <2>3
<1>4. {i \in DOMAIN h : h[i].stamp <= t} = 1 .. k
  <2> HIDE DEF h, k, n
  <2> QED BY <1>1, <1>2, <1>3
<1>5. Cardinality(1 .. k) = k
  <2> HIDE DEF k
  <2> QED BY <1>1, FS_Interval
<1>6. Since(h, t) = SubSeq(h, k + 1, k + n) BY <1>1, <1>4, <1>5 DEF Since
<1>7. SubSeq(h, k + 1, k + n) = new
  <2>1. SubSeq(h, k + 1, k + n) \in Seq(Reservation) /\ Len(SubSeq(h, k + 1, k + n)) = n
        /\ \A i \in 1 .. n : SubSeq(h, k + 1, k + n)[i] = h[k + i]
    <3> HIDE DEF h, k, n
    <3>1. \A i \in k + 1 .. k + n : h[i] \in Reservation BY <1>1, ElementOfSeq
    <3>2. k + 1 \in Int /\ k + n \in Int /\ (k + n) - (k + 1) + 1 = n /\ (k + 1 <= k + n <=> n # 0)
      BY <1>1
    <3>3. \A i \in 1 .. n : (k + 1) + i - 1 = k + i BY <1>1
    <3> QED BY <1>1, <3>1, <3>2, <3>3, SubSeqProperties
  <2>2. \A i \in 1 .. n : h[k + i] = new[i] BY <1>1
  <2> HIDE DEF h, k
  <2> QED BY <2>1, <2>2, SeqEqual
<1> QED BY <1>6, <1>7

\* A sorted history is what is old and then what is young.
LEMMA SinceSplits ==
  ASSUME NEW h \in Seq(Reservation), Sorted(h), NEW t \in Int
  PROVE  \E old \in Seq(Reservation) :
            /\ h = old \o Since(h, t) /\ Since(h, t) \in Seq(Reservation)
            /\ \A i \in DOMAIN old : old[i].stamp <= t
            /\ \A i \in DOMAIN Since(h, t) : Since(h, t)[i].stamp > t
            /\ Since(h, t) = SubSeq(h, Len(old) + 1, Len(h))
<1> DEFINE n == Len(h)
           T == {i \in 1 .. n + 1 : i = n + 1 \/ h[i].stamp > t}
<1>1. n \in Nat /\ DOMAIN h = 1 .. n /\ \A i \in 1 .. n : h[i] \in Reservation
  BY LenProperties, ElementOfSeq
<1>2. PICK m \in T : \A i \in Nat : i < m => i \notin T
  <2>1. T \subseteq Nat /\ n + 1 \in T BY <1>1
  <2> HIDE DEF T
  <2> QED BY <2>1, LeastNumber
<1> DEFINE k == m - 1
           old == SubSeq(h, 1, k)
           new == SubSeq(h, k + 1, n)
<1>3. k \in 0 .. n /\ m = k + 1 BY <1>1
<1>4. \A i \in 1 .. k : h[i].stamp <= t
  <2> TAKE i \in 1 .. k
  <2>1. i \in Nat /\ i < m /\ i \in 1 .. n BY <1>1, <1>3
  <2>2. ~(h[i].stamp > t) BY <1>2, <2>1
  <2> QED BY <1>1, <2>1, <2>2 DEF Reservation
<1>5. \A i \in k + 1 .. n : h[i].stamp > t
  <2> TAKE i \in k + 1 .. n
  <2>1. m \in 1 .. n /\ i \in 1 .. n /\ (i = m \/ m < i) BY <1>1, <1>3
  <2>2. h[m].stamp > t BY <1>1, <2>1
  <2>3. h[m].stamp <= h[i].stamp \/ i = m BY <1>1, <2>1 DEF Sorted
  <2>4. h[m].stamp \in Nat /\ h[i].stamp \in Nat BY <1>1, <2>1 DEF Reservation
  <2> QED BY <2>2, <2>3, <2>4
<1> HIDE DEF T
<1>6. /\ old \in Seq(Reservation) /\ new \in Seq(Reservation)
      /\ Len(old) = k /\ \A i \in 1 .. k : old[i] = h[i]
      /\ Len(new) = n - k /\ \A i \in 1 .. n - k : new[i] = h[k + i]
  <2> HIDE DEF k, n
  <2>1. \A i \in 1 .. k : h[i] \in Reservation BY <1>1, <1>3
  <2>2. \A i \in k + 1 .. n : h[i] \in Reservation BY <1>1, <1>3
  <2>3. /\ old \in Seq(Reservation) /\ Len(old) = (IF 1 <= k THEN k - 1 + 1 ELSE 0)
        /\ \A i \in 1 .. k - 1 + 1 : old[i] = h[1 + i - 1]
    BY <1>3, <2>1, SubSeqProperties
  <2>4. /\ new \in Seq(Reservation) /\ Len(new) = (IF k + 1 <= n THEN n - (k + 1) + 1 ELSE 0)
        /\ \A i \in 1 .. n - (k + 1) + 1 : new[i] = h[(k + 1) + i - 1]
    <3>1. k + 1 \in Int /\ n \in Int BY <1>1, <1>3
    <3> QED BY <2>2, <3>1, SubSeqProperties
  <2> HIDE DEF old, new
  <2> QED BY <1>1, <1>3, <2>3, <2>4
<1>7. h = old \o new
  <2>1. 1 \in 1 .. n + 1 /\ k \in 1 - 1 .. n /\ n \in k .. n BY <1>1, <1>3
  <2>2. SubSeq(h, 1, n) = h BY SubSeqFull
  <2> HIDE DEF k
  <2> QED BY <2>1, <2>2, ConcatAdjacentSubSeq
<1>8. \A i \in DOMAIN old : old[i].stamp <= t
  <2>1. DOMAIN old = 1 .. k BY <1>6, LenProperties
  <2> HIDE DEF old, k
  <2> QED BY <1>4, <1>6, <2>1
<1>9. \A i \in DOMAIN new : new[i].stamp > t
  <2>1. DOMAIN new = 1 .. n - k BY <1>6, LenProperties
  <2>2. \A i \in 1 .. n - k : k + i \in k + 1 .. n BY <1>1, <1>3
  <2> HIDE DEF new, k, n
  <2> QED BY <1>5, <1>6, <2>1, <2>2
<1> HIDE DEF old, new, k, n
<1>10. Since(h, t) = new BY <1>6, <1>7, <1>8, <1>9, SinceIs
<1> QED BY <1>6, <1>7, <1>8, <1>9, <1>10 DEF new, n

\* The times of two sequences one after the other.
LEMMA OneAfterAnother ==
  ASSUME NEW g \in Seq(Reservation), NEW h \in Seq(Reservation)
  PROVE  /\ g \o h \in Seq(Reservation)
         /\ \A i \in DOMAIN g : i \in DOMAIN (g \o h) /\ (g \o h)[i] = g[i]
         /\ \A i \in DOMAIN h : Len(g) + i \in DOMAIN (g \o h) /\ (g \o h)[Len(g) + i] = h[i]
         /\ \A i \in DOMAIN (g \o h) : \/ i \in DOMAIN g
                                       \/ i - Len(g) \in DOMAIN h /\ i > Len(g)
<1> DEFINE s == g \o h
<1>1. /\ s \in Seq(Reservation) /\ Len(s) = Len(g) + Len(h)
      /\ \A i \in 1 .. Len(g) + Len(h) : s[i] = IF i <= Len(g) THEN g[i] ELSE h[i - Len(g)]
  BY ConcatProperties
<1>2. /\ Len(g) \in Nat /\ Len(h) \in Nat /\ DOMAIN g = 1 .. Len(g) /\ DOMAIN h = 1 .. Len(h)
      /\ DOMAIN s = 1 .. Len(g) + Len(h)
  BY <1>1, LenProperties
<1> HIDE DEF s
<1>3. \A i \in DOMAIN g : i \in DOMAIN s /\ s[i] = g[i] BY <1>1, <1>2
<1>4. \A i \in DOMAIN h : Len(g) + i \in DOMAIN s /\ s[Len(g) + i] = h[i]
  <2> TAKE i \in DOMAIN h
  <2>1. Len(g) + i \in 1 .. Len(g) + Len(h) /\ ~(Len(g) + i <= Len(g)) /\ (Len(g) + i) - Len(g) = i
    BY <1>2
  <2> QED BY <1>1, <1>2, <2>1
<1>5. \A i \in DOMAIN s : i \in DOMAIN g \/ (i - Len(g) \in DOMAIN h /\ i > Len(g)) BY <1>2
<1> QED BY <1>1, <1>3, <1>4, <1>5 DEF s

\* The head is dropped up to the window: what is kept is what is younger.
LEMMA KeptIsSince ==
  ASSUME history \in Seq(Reservation), Sorted(history), now - Window * Second \in Int
  PROVE  Kept = Since(history, now - Window * Second)
<1> DEFINE t == now - Window * Second
           n == Len(history)
           fresh == {i \in DOMAIN history : history[i].stamp > t}
<1>1. PICK old \in Seq(Reservation) :
         /\ history = old \o Since(history, t) /\ Since(history, t) \in Seq(Reservation)
         /\ \A i \in DOMAIN old : old[i].stamp <= t
         /\ \A i \in DOMAIN Since(history, t) : Since(history, t)[i].stamp > t
         /\ Since(history, t) = SubSeq(history, Len(old) + 1, n)
  <2> HIDE DEF t
  <2> QED BY SinceSplits DEF t
<1> DEFINE k == Len(old)
           new == Since(history, t)
<1>2. /\ n \in Nat /\ k \in Nat /\ DOMAIN old = 1 .. k /\ DOMAIN history = 1 .. n
      /\ n = k + Len(new) /\ Len(new) \in Nat /\ DOMAIN new = 1 .. Len(new)
  BY <1>1, LenProperties, ConcatProperties
<1> HIDE DEF new
<1>3. /\ history = old \o new /\ new \in Seq(Reservation)
      /\ \A i \in DOMAIN new : new[i].stamp > t
      /\ new = SubSeq(history, k + 1, n)
  BY <1>1 DEF new
<1>4. \A i \in 1 .. k : history[i] = old[i] BY <1>2, <1>3, OneAfterAnother
<1>5. \A i \in 1 .. Len(new) : k + i \in 1 .. n /\ history[k + i] = new[i]
  BY <1>2, <1>3, OneAfterAnother
<1>6. \A i \in 1 .. k : ~(history[i].stamp > t)
  <2> TAKE i \in 1 .. k
  <2>1. old[i] \in Reservation /\ old[i].stamp <= t BY <1>1, <1>2, ElementOfSeq
  <2>2. old[i].stamp \in Nat BY <2>1 DEF Reservation
  <2> HIDE DEF t
  <2> QED BY <1>4, <2>1, <2>2 DEF t
<1>7. \A i \in k + 1 .. n : i \in fresh
  <2> TAKE i \in k + 1 .. n
  <2>1. i - k \in 1 .. Len(new) /\ k + (i - k) = i BY <1>2
  <2>2. history[i] = new[i - k] BY <1>5, <2>1
  <2>3. i - k \in DOMAIN new /\ i \in DOMAIN history BY <1>2, <2>1
  <2>4. history[i].stamp > t
    <3> HIDE DEF t
    <3> QED BY <1>3, <2>2, <2>3
  <2> HIDE DEF t, k, n
  <2> QED BY <2>3, <2>4
<1>8. fresh = k + 1 .. n
  <2>1. \A i \in fresh : i \in k + 1 .. n BY <1>2, <1>6
  <2> HIDE DEF fresh
  <2> QED BY <1>7, <2>1
<1>9. Kept = IF fresh = {} THEN <<>>
             ELSE SubSeq(history, CHOOSE i \in fresh : \A j \in fresh : i <= j, n)
  BY DEF Kept
<1> HIDE DEF fresh, n, t
<1>10. CASE k = n
  <2>1. fresh = {} BY <1>2, <1>8, <1>10
  <2>2. new = <<>> BY <1>2, <1>3, <1>10, EmptySeq
  <2> QED BY <1>9, <2>1, <2>2 DEF new, t
<1>11. CASE k # n
  <2>1. k + 1 \in fresh /\ \A j \in fresh : k + 1 <= j
    <3>1. k < n
      <4> HIDE DEF k
      <4> QED BY <1>2, <1>11
    <3> HIDE DEF k
    <3> QED BY <1>2, <1>8, <3>1
  <2>2. \A i \in fresh : (\A j \in fresh : i <= j) => i = k + 1 BY <1>2, <1>8, <2>1
  <2>3. (CHOOSE i \in fresh : \A j \in fresh : i <= j) = k + 1 BY <2>1, <2>2
  <2> QED BY <1>3, <1>9, <2>1, <2>3 DEF new, t
<1> QED BY <1>10, <1>11

\* A sequence cut twice is cut at the later time.
LEMMA SinceSince ==
  ASSUME NEW h \in Seq(Reservation), Sorted(h), NEW s \in Int, NEW t \in Int, s <= t
  PROVE  /\ Sorted(Since(h, s)) /\ Since(h, s) \in Seq(Reservation)
         /\ Since(Since(h, s), t) = Since(h, t)
<1>1. PICK old \in Seq(Reservation) :
         /\ h = old \o Since(h, s) /\ Since(h, s) \in Seq(Reservation)
         /\ \A i \in DOMAIN old : old[i].stamp <= s
  BY SinceSplits
<1> DEFINE u == Since(h, s)
<1>2. Sorted(u)
  <2> SUFFICES ASSUME NEW i \in DOMAIN u, NEW j \in DOMAIN u, i < j
               PROVE  u[i].stamp <= u[j].stamp
    BY DEF Sorted
  <2>1. DOMAIN u = 1 .. Len(u) /\ Len(old) \in Nat BY <1>1, LenProperties
  <2>2. /\ Len(old) + i \in DOMAIN h /\ h[Len(old) + i] = u[i]
        /\ Len(old) + j \in DOMAIN h /\ h[Len(old) + j] = u[j]
    <3>1. h = old \o u /\ u \in Seq(Reservation) BY <1>1
    <3> HIDE DEF u
    <3>2. \A l \in DOMAIN u : Len(old) + l \in DOMAIN (old \o u) /\ (old \o u)[Len(old) + l] = u[l]
      BY <3>1, OneAfterAnother
    <3> QED BY <3>1, <3>2
  <2>3. Len(old) + i < Len(old) + j BY <2>1
  <2> HIDE DEF u
  <2> QED BY <2>2, <2>3 DEF Sorted
<1>3. PICK more \in Seq(Reservation) :
         /\ u = more \o Since(u, t) /\ Since(u, t) \in Seq(Reservation)
         /\ \A i \in DOMAIN more : more[i].stamp <= t
         /\ \A i \in DOMAIN Since(u, t) : Since(u, t)[i].stamp > t
  <2>1. u \in Seq(Reservation) BY <1>1
  <2> HIDE DEF u
  <2> QED BY <1>2, <2>1, SinceSplits
<1> DEFINE v == Since(u, t)
<1>4. h = (old \o more) \o v /\ old \o more \in Seq(Reservation)
  <2>1. h = old \o (more \o v) BY <1>1, <1>3
  <2>2. v \in Seq(Reservation) BY <1>3
  <2> HIDE DEF v
  <2> QED BY <2>1, <2>2, ConcatAssociative, ConcatProperties
<1>5. \A i \in DOMAIN (old \o more) : (old \o more)[i].stamp <= t
  <2> TAKE i \in DOMAIN (old \o more)
  <2>1. CASE i \in DOMAIN old
    <3>1. (old \o more)[i] = old[i] /\ old[i] \in Reservation /\ old[i].stamp <= s
      BY <1>1, <2>1, OneAfterAnother, ElementOfSeq, LenProperties
    <3>2. old[i].stamp \in Nat BY <3>1 DEF Reservation
    <3> QED BY <3>1, <3>2
  <2>2. CASE i - Len(old) \in DOMAIN more
    <3>1. Len(old) \in Nat /\ DOMAIN (old \o more) = 1 .. Len(old \o more) BY <1>4, LenProperties
    <3>2. Len(old) + (i - Len(old)) = i BY <3>1
    <3>3. (old \o more)[i] = more[i - Len(old)] BY <2>2, <3>2, OneAfterAnother
    <3> QED BY <1>3, <2>2, <3>3
  <2> QED BY <2>1, <2>2, OneAfterAnother
<1>6. Since(h, t) = v
  <2>1. v \in Seq(Reservation) /\ \A i \in DOMAIN v : v[i].stamp > t BY <1>3
  <2> HIDE DEF v
  <2> QED BY <1>4, <1>5, <2>1, SinceIs
<1> QED BY <1>1, <1>2, <1>6


\* Nothing is younger than the latest time.
LEMMA SinceNone ==
  ASSUME NEW h \in Seq(Reservation), NEW t \in Int, \A i \in DOMAIN h : h[i].stamp <= t
  PROVE  Since(h, t) = <<>>
<1> DEFINE new == <<>>
<1>1. h \o new = h /\ new \in Seq(Reservation) /\ DOMAIN new = {} BY ConcatEmptySeq
<1>2. \A i \in DOMAIN new : new[i].stamp > t BY <1>1
<1> HIDE DEF new
<1>3. Since(h \o new, t) = new BY <1>1, <1>2, SinceIs
<1> QED BY <1>1, <1>3 DEF new

\* Everything is younger than what comes before.
LEMMA SinceAll ==
  ASSUME NEW h \in Seq(Reservation), NEW t \in Int, \A i \in DOMAIN h : h[i].stamp > t
  PROVE  Since(h, t) = h
<1> DEFINE old == <<>>
<1>1. old \o h = h /\ old \in Seq(Reservation) /\ DOMAIN old = {} BY ConcatEmptySeq
<1>2. \A i \in DOMAIN old : old[i].stamp <= t BY <1>1
<1> HIDE DEF old
<1>3. Since(old \o h, t) = h BY <1>1, <1>2, SinceIs
<1> QED BY <1>1, <1>3

\* What is younger stays when more that is younger follows.
LEMMA SinceConcat ==
  ASSUME NEW g \in Seq(Reservation), Sorted(g), NEW h \in Seq(Reservation), NEW t \in Int,
         \A i \in DOMAIN h : h[i].stamp > t
  PROVE  Since(g \o h, t) = Since(g, t) \o h
<1>1. PICK old \in Seq(Reservation) :
         /\ g = old \o Since(g, t) /\ Since(g, t) \in Seq(Reservation)
         /\ \A i \in DOMAIN old : old[i].stamp <= t
         /\ \A i \in DOMAIN Since(g, t) : Since(g, t)[i].stamp > t
  BY SinceSplits
<1> DEFINE u == Since(g, t)
           v == u \o h
<1>2. /\ u \in Seq(Reservation) /\ g = old \o u
      /\ \A i \in DOMAIN u : u[i].stamp > t
  BY <1>1
<1> HIDE DEF u
<1>3. v \in Seq(Reservation) BY <1>2, ConcatProperties
<1>4. g \o h = old \o v BY <1>2, ConcatAssociative
<1>5. \A i \in DOMAIN v : v[i].stamp > t
  <2> TAKE i \in DOMAIN v
  <2>1. CASE i \in DOMAIN u
    <3>1. v[i] = u[i] BY <1>2, <2>1, OneAfterAnother
    <3> HIDE DEF v
    <3> QED BY <1>2, <2>1, <3>1
  <2>2. CASE i - Len(u) \in DOMAIN h
    <3>1. Len(u) \in Nat /\ DOMAIN v = 1 .. Len(v) BY <1>2, <1>3, LenProperties
    <3>2. Len(u) + (i - Len(u)) = i
      <4> HIDE DEF v
      <4> QED BY <3>1
    <3>3. v[Len(u) + (i - Len(u))] = h[i - Len(u)] BY <1>2, <2>2, OneAfterAnother
    <3>4. v[i] = h[i - Len(u)]
      <4> HIDE DEF v
      <4> QED BY <3>2, <3>3
    <3> HIDE DEF v
    <3> QED BY <2>2, <3>4
  <2> QED BY <1>2, <2>1, <2>2, OneAfterAnother
<1> HIDE DEF v
<1>6. Since(old \o v, t) = v BY <1>1, <1>3, <1>5, SinceIs
<1> QED BY <1>4, <1>6 DEF v, u

\* deque.remove takes one of the entries that equal e, and no other.
LEMMA RemovedIs ==
  ASSUME NEW h \in Seq(Reservation), NEW e \in Reservation, NEW l \in DOMAIN h, h[l] = e
  PROVE  \E A \in Seq(Reservation), B \in Seq(Reservation) :
            /\ h = (A \o <<e>>) \o B /\ Removed(h, e) = A \o B
<1> DEFINE n == Len(h)
           T == {i \in 1 .. n : h[i] = e}
<1>1. n \in Nat /\ DOMAIN h = 1 .. n /\ \A i \in 1 .. n : h[i] \in Reservation
  BY LenProperties, ElementOfSeq
<1>2. PICK k \in T : \A i \in Nat : i < k => i \notin T
  <2>1. T \subseteq Nat /\ T # {} BY <1>1
  <2> HIDE DEF T
  <2> QED BY <2>1, LeastNumber
<1>3. k \in 1 .. n /\ h[k] = e /\ \A j \in 1 .. k - 1 : h[j] # e BY <1>1, <1>2
<1> HIDE DEF T
<1> DEFINE First(i) == h[i] = e /\ \A j \in 1 .. i - 1 : h[j] # e
<1>4. \A i \in DOMAIN h : First(i) => i = k
  <2> HIDE DEF n
  <2>1. ASSUME NEW i \in 1 .. n, First(i), i < k PROVE FALSE
    <3>1. i \in 1 .. k - 1 BY <1>1, <1>3, <2>1
    <3> QED BY <1>3, <2>1, <3>1
  <2>2. ASSUME NEW i \in 1 .. n, First(i), k < i PROVE FALSE
    <3>1. k \in 1 .. i - 1 BY <1>1, <1>3, <2>2
    <3> QED BY <1>3, <2>2, <3>1
  <2> QED BY <1>1, <1>3, <2>1, <2>2
<1>5. (CHOOSE i \in DOMAIN h : First(i)) = k
  <2>1. k \in DOMAIN h /\ First(k) BY <1>1, <1>3
  <2> HIDE DEF First
  <2> QED BY <1>4, <2>1
<1>6. Contains(h, e) BY <1>1, <1>3 DEF Contains
<1>7. Removed(h, e) = SubSeq(h, 1, k - 1) \o SubSeq(h, k + 1, n) BY <1>5, <1>6 DEF Removed
<1>8. SubSeq(h, 1, k - 1) \in Seq(Reservation)
  <2> HIDE DEF n
  <2>1. \A i \in 1 .. k - 1 : h[i] \in Reservation BY <1>1, <1>3
  <2> QED BY <1>3, <2>1, SubSeqProperties
<1>9. SubSeq(h, k + 1, n) \in Seq(Reservation)
  <2> HIDE DEF n
  <2>1. \A i \in k + 1 .. n : h[i] \in Reservation BY <1>1, <1>3
  <2>2. k + 1 \in Int /\ n \in Int BY <1>1, <1>3
  <2> QED BY <2>1, <2>2, SubSeqProperties
<1>10. h = (SubSeq(h, 1, k - 1) \o <<e>>) \o SubSeq(h, k + 1, n)
  <2>1. SubSeq(h, 1, k) = SubSeq(h, 1, k - 1) \o SubSeq(h, k, k)
    <3>1. 1 \in 1 .. n + 1 /\ k - 1 \in 1 - 1 .. n /\ k \in k - 1 .. n /\ (k - 1) + 1 = k
      BY <1>1, <1>3
    <3> HIDE DEF n
    <3>2. SubSeq(h, 1, k) = SubSeq(h, 1, k - 1) \o SubSeq(h, (k - 1) + 1, k)
      BY <3>1, ConcatAdjacentSubSeq DEF n
    <3> QED BY <3>1, <3>2
  <2>2. SubSeq(h, k, k) = <<e>>
    <3>1. \A i \in k .. k : h[i] \in Reservation BY <1>1, <1>3
    <3>2. /\ SubSeq(h, k, k) \in Seq(Reservation) /\ Len(SubSeq(h, k, k)) = 1
          /\ SubSeq(h, k, k)[1] = h[k]
      <4> HIDE DEF n
      <4>1. k \in Int /\ k - k + 1 = 1 /\ k + 1 - 1 = k BY <1>3
      <4> QED BY <3>1, <4>1, SubSeqProperties
    <3>3. <<e>> \in Seq(Reservation) /\ Len(<<e>>) = 1 /\ <<e>>[1] = e OBVIOUS
    <3> DEFINE x == SubSeq(h, k, k)
               y == <<e>>
    <3>4. x \in Seq(Reservation) /\ y \in Seq(Reservation) /\ Len(x) = Len(y)
          /\ \A i \in 1 .. Len(x) : x[i] = y[i]
      BY <1>3, <3>2, <3>3
    <3> HIDE DEF x, y
    <3>5. x = y BY <3>4, SeqEqual
    <3> QED BY <3>5 DEF x, y
  <2>3. SubSeq(h, 1, n) = SubSeq(h, 1, k) \o SubSeq(h, k + 1, n)
    <3>1. 1 \in 1 .. n + 1 /\ k \in 1 - 1 .. n /\ n \in k .. n BY <1>1, <1>3
    <3> QED BY <3>1, ConcatAdjacentSubSeq
  <2>4. SubSeq(h, 1, n) = h BY SubSeqFull
  <2> HIDE DEF n
  <2> QED BY <2>1, <2>2, <2>3, <2>4
<1> QED BY <1>7, <1>8, <1>9, <1>10

\* Without one of its reservations a sorted history is sorted.
LEMMA RemovedSorted ==
  ASSUME NEW A \in Seq(Reservation), NEW B \in Seq(Reservation), NEW e \in Reservation,
         Sorted((A \o <<e>>) \o B)
  PROVE  LET s == (A \o <<e>>) \o B
         IN  /\ s \in Seq(Reservation) /\ A \o B \in Seq(Reservation)
             /\ Sorted(A) /\ Sorted(A \o B)
             /\ \A i \in DOMAIN (A \o B) : \E j \in DOMAIN s : (A \o B)[i] = s[j]
             /\ \A i \in DOMAIN B : B[i].stamp >= e.stamp /\ \E j \in DOMAIN s : B[i] = s[j]
<1> DEFINE C == A \o <<e>>
           s == C \o B
           r == A \o B
           a == Len(A)
           b == Len(B)
<1>1. /\ a \in Nat /\ b \in Nat /\ DOMAIN A = 1 .. a /\ DOMAIN B = 1 .. b
  BY LenProperties
<1>2. /\ C \in Seq(Reservation) /\ Len(C) = a + 1
      /\ \A i \in 1 .. a : C[i] = A[i]
      /\ C[a + 1] = e
  <2>1. <<e>> \in Seq(Reservation) /\ Len(<<e>>) = 1 /\ <<e>>[1] = e OBVIOUS
  <2>2. /\ C \in Seq(Reservation) /\ Len(C) = a + Len(<<e>>)
        /\ \A i \in 1 .. a + Len(<<e>>) : C[i] = IF i <= a THEN A[i] ELSE <<e>>[i - a]
    BY <2>1, ConcatProperties
  <2> HIDE DEF C, a
  <2>3. \A i \in 1 .. a : C[i] = A[i] BY <1>1, <2>1, <2>2
  <2>4. C[a + 1] = <<e>>[(a + 1) - a]
    <3>1. a + 1 \in 1 .. a + Len(<<e>>) /\ ~(a + 1 <= a) BY <1>1, <2>1
    <3> QED BY <2>2, <3>1
  <2>5. (a + 1) - a = 1 BY <1>1
  <2> QED BY <2>1, <2>2, <2>3, <2>4, <2>5
<1> HIDE DEF C
<1>3. /\ s \in Seq(Reservation) /\ DOMAIN s = 1 .. a + 1 + b
      /\ \A i \in 1 .. a + 1 + b : s[i] = IF i <= a + 1 THEN C[i] ELSE B[i - (a + 1)]
  <2>1. /\ s \in Seq(Reservation) /\ Len(s) = Len(C) + b
        /\ \A i \in 1 .. Len(C) + b : s[i] = IF i <= Len(C) THEN C[i] ELSE B[i - Len(C)]
    BY <1>2, ConcatProperties
  <2> HIDE DEF s, a, b
  <2>2. DOMAIN s = 1 .. Len(s) BY <2>1, LenProperties
  <2> QED BY <1>2, <2>1, <2>2, Zenon
<1>4. /\ r \in Seq(Reservation) /\ DOMAIN r = 1 .. a + b
      /\ \A i \in 1 .. a + b : r[i] = IF i <= a THEN A[i] ELSE B[i - a]
  BY <1>1, ConcatProperties, LenProperties
<1>5. Sorted(s) BY DEF C
<1> HIDE DEF s, r, a, b
<1>6. \A i \in 1 .. a : s[i] = A[i] /\ r[i] = A[i] /\ i \in 1 .. a + 1 + b
  BY <1>1, <1>2, <1>3, <1>4
<1>7. s[a + 1] = e /\ a + 1 \in 1 .. a + 1 + b BY <1>1, <1>2, <1>3
<1>8. ASSUME NEW i \in 1 .. b PROVE s[a + 1 + i] = B[i] /\ a + 1 + i \in 1 .. a + 1 + b
  <2>1. a + 1 + i \in 1 .. a + 1 + b /\ ~(a + 1 + i <= a + 1) /\ (a + 1 + i) - (a + 1) = i BY <1>1
  <2> QED BY <1>3, <2>1
<1>9. ASSUME NEW i \in 1 .. a + b, i > a PROVE s[i + 1] = r[i] /\ i + 1 \in 1 .. a + 1 + b
  <2>1. i + 1 \in 1 .. a + 1 + b /\ ~(i + 1 <= a + 1) /\ (i + 1) - (a + 1) = i - a /\ ~(i <= a)
    BY <1>1, <1>9
  <2> QED BY <1>3, <1>4, <2>1
<1>10. Sorted(A)
  <2> SUFFICES ASSUME NEW i \in 1 .. a, NEW j \in 1 .. a, i < j PROVE A[i].stamp <= A[j].stamp
    BY <1>1 DEF Sorted
  <2>1. s[i].stamp <= s[j].stamp BY <1>3, <1>5, <1>6 DEF Sorted
  <2> QED BY <1>6, <2>1
<1> DEFINE p(i) == IF i <= a THEN i ELSE i + 1
<1>11. \A i \in 1 .. a + b : p(i) \in 1 .. a + 1 + b /\ s[p(i)] = r[i]
  <2> TAKE i \in 1 .. a + b
  <2>1. CASE i <= a
    <3>1. i \in 1 .. a BY <2>1
    <3> QED BY <1>6, <2>1, <3>1
  <2>2. CASE ~(i <= a)
    <3>1. i > a BY <1>1, <2>2
    <3> QED BY <1>9, <2>2, <3>1
  <2> QED BY <2>1, <2>2
<1>12. \A i, j \in 1 .. a + b : i < j => p(i) < p(j) BY <1>1
<1> HIDE DEF p
<1>13. Sorted(r)
  <2> SUFFICES ASSUME NEW i \in 1 .. a + b, NEW j \in 1 .. a + b, i < j
               PROVE  r[i].stamp <= r[j].stamp
    BY <1>4 DEF Sorted
  <2>1. s[p(i)].stamp <= s[p(j)].stamp BY <1>3, <1>5, <1>11, <1>12 DEF Sorted
  <2> QED BY <1>11, <2>1
<1>14. \A i \in DOMAIN r : \E j \in DOMAIN s : r[i] = s[j] BY <1>3, <1>4, <1>11
<1>15. \A i \in DOMAIN B : B[i].stamp >= e.stamp /\ \E j \in DOMAIN s : B[i] = s[j]
  <2> TAKE i \in DOMAIN B
  <2>1. a + 1 < a + 1 + i /\ i \in 1 .. b BY <1>1
  <2>2. s[a + 1].stamp <= s[a + 1 + i].stamp
    <3>1. a + 1 \in DOMAIN s /\ a + 1 + i \in DOMAIN s BY <1>3, <1>7, <1>8, <2>1
    <3> QED BY <1>5, <2>1, <3>1 DEF Sorted
  <2>3. e.stamp <= B[i].stamp BY <1>7, <1>8, <2>1, <2>2
  <2>4. e.stamp \in Nat /\ B[i].stamp \in Nat
    <3>1. B[i] \in Reservation BY <1>1, <2>1, ElementOfSeq DEF b
    <3> QED BY <3>1 DEF Reservation
  <2>5. B[i].stamp >= e.stamp BY <2>3, <2>4
  <2> QED BY <1>3, <1>8, <2>1, <2>5
<1> QED BY <1>3, <1>4, <1>10, <1>13, <1>14, <1>15 DEF s, r, C

-----------------------------------------------------------------------------
(* The history of the gate against what was granted in the window.         *)

(* At time n, with the window open after w: h and g hold the same, though  *)
(* equal entries may have changed places. The totals agree from every      *)
(* later cut too: the budget is asked for after more has been dropped.     *)
Agree(h, g, n, w) ==
  /\ h \in Seq(Reservation) /\ g \in Seq(Reservation)
  /\ Sorted(h) /\ Sorted(g)
  /\ \A i \in DOMAIN h : h[i].stamp <= n
  /\ \A i \in DOMAIN g : g[i].stamp <= n /\ g[i].stamp > w
  /\ \A t \in Int : t >= w => Total(Since(h, t)) = Total(Since(g, t))
  /\ \A e \in Reservation : e.stamp > w => Copies(h, e) = Copies(g, e)

\* Dropping what is old drops no copy of what is young.
LEMMA CopiesSince ==
  ASSUME NEW h \in Seq(Reservation), Sorted(h), NEW t \in Int,
         NEW e \in Reservation, e.stamp > t
  PROVE  Copies(Since(h, t), e) = Copies(h, e)
<1>1. PICK old \in Seq(Reservation) :
         /\ h = old \o Since(h, t) /\ Since(h, t) \in Seq(Reservation)
         /\ \A i \in DOMAIN old : old[i].stamp <= t
  BY SinceSplits
<1> DEFINE u == Since(h, t)
<1>2. u \in Seq(Reservation) /\ h = old \o u BY <1>1
<1> HIDE DEF u
<1>3. Copies(h, e) = Copies(old, e) + Copies(u, e) BY <1>2, CopiesConcat
<1>4. \A i \in DOMAIN old : old[i] # e
  <2> TAKE i \in DOMAIN old
  <2>1. e.stamp \in Nat BY DEF Reservation
  <2> QED BY <1>1, <2>1
<1>5. {i \in DOMAIN old : old[i] = e} = {} BY <1>4
<1>6. Copies(old, e) = 0 BY <1>5, FS_EmptySet DEF Copies
<1>7. Copies(u, e) \in Nat BY <1>2, CopiesNat
<1> QED BY <1>3, <1>6, <1>7 DEF u

\* What is young of a sequence has the sequence's entries.
LEMMA SinceEntries ==
  ASSUME NEW h \in Seq(Reservation), Sorted(h), NEW t \in Int
  PROVE  \A i \in DOMAIN Since(h, t) :
           Since(h, t)[i].stamp > t /\ \E j \in DOMAIN h : Since(h, t)[i] = h[j]
<1>1. PICK old \in Seq(Reservation) :
         /\ h = old \o Since(h, t) /\ Since(h, t) \in Seq(Reservation)
         /\ \A i \in DOMAIN Since(h, t) : Since(h, t)[i].stamp > t
  BY SinceSplits
<1> DEFINE u == Since(h, t)
<1>2. u \in Seq(Reservation) /\ h = old \o u /\ \A i \in DOMAIN u : u[i].stamp > t BY <1>1
<1> HIDE DEF u
<1>3. \A i \in DOMAIN u : Len(old) + i \in DOMAIN h /\ h[Len(old) + i] = u[i]
  BY <1>2, OneAfterAnother
<1> QED BY <1>2, <1>3 DEF u

\* Dropping from the history what is older than the window changes nothing.
LEMMA AgreeKept ==
  ASSUME NEW h, NEW g, NEW n \in Nat, NEW w \in Int, Agree(h, g, n, w)
  PROVE  Agree(Since(h, w), g, n, w)
<1>1. h \in Seq(Reservation) /\ Sorted(h) /\ g \in Seq(Reservation) /\ Sorted(g) BY DEF Agree
<1>2. Sorted(Since(h, w)) /\ Since(h, w) \in Seq(Reservation) BY <1>1, SinceSince
<1>3. \A i \in DOMAIN Since(h, w) : Since(h, w)[i].stamp <= n
  BY <1>1, SinceEntries DEF Agree
<1>4. \A t \in Int : t >= w => Total(Since(Since(h, w), t)) = Total(Since(g, t))
  <2> SUFFICES ASSUME NEW t \in Int, t >= w
               PROVE  Total(Since(Since(h, w), t)) = Total(Since(g, t))
    OBVIOUS
  <2>1. w <= t OBVIOUS
  <2>2. Since(Since(h, w), t) = Since(h, t) BY <1>1, <2>1, SinceSince
  <2> QED BY <2>2 DEF Agree
<1>5. \A e \in Reservation : e.stamp > w => Copies(Since(h, w), e) = Copies(g, e)
  BY <1>1, CopiesSince DEF Agree
<1> QED BY <1>1, <1>2, <1>3, <1>4, <1>5 DEF Agree

\* A sequence as it is when a reservation is made: sorted, and the reservation is young.
LEMMA SinceAppend ==
  ASSUME NEW h \in Seq(Reservation), Sorted(h), NEW e \in Reservation,
         \A i \in DOMAIN h : h[i].stamp <= e.stamp
  PROVE  /\ Append(h, e) \in Seq(Reservation) /\ Sorted(Append(h, e))
         /\ \A i \in DOMAIN Append(h, e) : Append(h, e)[i] = e \/ \E j \in DOMAIN h : Append(h, e)[i] = h[j]
         /\ \A t \in Int : t < e.stamp =>
              /\ Since(h, t) \in Seq(Reservation)
              /\ Since(Append(h, e), t) = Append(Since(h, t), e)
         /\ \A t \in Int : t >= e.stamp => Since(Append(h, e), t) = <<>>
<1> DEFINE s == Append(h, e)
           n == Len(h)
<1>1. e.stamp \in Nat BY DEF Reservation
<1>2. /\ s \in Seq(Reservation) /\ n \in Nat /\ DOMAIN h = 1 .. n /\ DOMAIN s = 1 .. n + 1
      /\ s[n + 1] = e /\ \A i \in 1 .. n : s[i] = h[i]
  <2>1. Append(h, e) \in Seq(Reservation) /\ Len(Append(h, e)) = n + 1 BY AppendProperties
  <2> QED BY <2>1, AppendProperties, LenProperties
<1> HIDE DEF s, n
<1>3. \A i \in DOMAIN s : i = n + 1 \/ i \in DOMAIN h BY <1>2
<1>4. \A i \in DOMAIN s : s[i] = e \/ \E j \in DOMAIN h : s[i] = h[j] BY <1>2, <1>3
<1>5. \A i \in DOMAIN s : s[i].stamp <= e.stamp
  <2>1. \A i \in DOMAIN h : s[i].stamp <= e.stamp BY <1>2
  <2>2. s[n + 1].stamp <= e.stamp BY <1>1, <1>2
  <2> QED BY <1>3, <2>1, <2>2
<1>6. Sorted(s)
  <2> SUFFICES ASSUME NEW i \in DOMAIN s, NEW j \in DOMAIN s, i < j
               PROVE  s[i].stamp <= s[j].stamp
    BY DEF Sorted
  <2>1. CASE j = n + 1 BY <1>2, <1>5, <2>1
  <2>2. CASE j # n + 1
    <3>1. i \in DOMAIN h /\ j \in DOMAIN h BY <1>2, <2>2
    <3> QED BY <1>2, <3>1 DEF Sorted
  <2> QED BY <2>1, <2>2
<1>7. ASSUME NEW t \in Int, t < e.stamp
      PROVE  Since(h, t) \in Seq(Reservation) /\ Since(s, t) = Append(Since(h, t), e)
  <2> DEFINE x == <<e>>
             u == Since(h, t)
  <2>1. x \in Seq(Reservation) /\ \A i \in DOMAIN x : x[i].stamp > t BY <1>1, <1>7
  <2>2. s = h \o x BY DEF s
  <2>3. u \in Seq(Reservation) BY SinceSince
  <2>4. Since(h \o x, t) = u \o x
    <3> HIDE DEF x
    <3> QED BY <2>1, SinceConcat
  <2>5. u \o x = Append(u, e)
    <3> HIDE DEF u
    <3> QED BY <2>3
  <2> QED BY <2>2, <2>3, <2>4, <2>5, Zenon
<1>8. ASSUME NEW t \in Int, t >= e.stamp PROVE Since(s, t) = <<>>
  <2>1. \A i \in DOMAIN s : s[i].stamp <= t
    <3> TAKE i \in DOMAIN s
    <3>1. s[i] \in Reservation BY <1>2, ElementOfSeq, LenProperties
    <3>2. s[i].stamp \in Nat BY <3>1 DEF Reservation
    <3> QED BY <1>1, <1>5, <1>8, <3>2
  <2> QED BY <1>2, <2>1, SinceNone
<1> QED BY <1>2, <1>4, <1>6, <1>7, <1>8 DEF s

\* The same reservation made in both.
LEMMA AgreeAppend ==
  ASSUME NEW h, NEW g, NEW n \in Nat, NEW w \in Int, w < n, Agree(h, g, n, w),
         NEW e \in Reservation, e.stamp = n
  PROVE  Agree(Append(h, e), Append(g, e), n, w)
<1>1. h \in Seq(Reservation) /\ Sorted(h) /\ g \in Seq(Reservation) /\ Sorted(g) BY DEF Agree
<1>2. /\ \A i \in DOMAIN h : h[i].stamp <= e.stamp
      /\ \A i \in DOMAIN g : g[i].stamp <= e.stamp
  BY DEF Agree
<1>3. /\ Append(h, e) \in Seq(Reservation) /\ Sorted(Append(h, e))
      /\ Append(g, e) \in Seq(Reservation) /\ Sorted(Append(g, e))
  BY <1>1, <1>2, SinceAppend
<1>4. \A i \in DOMAIN Append(h, e) : Append(h, e)[i].stamp <= n
  <2>1. \A i \in DOMAIN Append(h, e) : Append(h, e)[i] = e \/ \E j \in DOMAIN h : Append(h, e)[i] = h[j]
    BY <1>1, <1>2, SinceAppend
  <2>2. e.stamp <= n OBVIOUS
  <2> DEFINE s == Append(h, e)
  <2> HIDE DEF s
  <2>3. \A i \in DOMAIN s : s[i] = e \/ \E j \in DOMAIN h : s[i] = h[j] BY <2>1 DEF s
  <2>4. \A i \in DOMAIN s : s[i].stamp <= n BY <1>2, <2>2, <2>3
  <2> QED BY <2>4 DEF s
<1>5. \A i \in DOMAIN Append(g, e) : Append(g, e)[i].stamp <= n /\ Append(g, e)[i].stamp > w
  <2>1. \A i \in DOMAIN Append(g, e) : Append(g, e)[i] = e \/ \E j \in DOMAIN g : Append(g, e)[i] = g[j]
    BY <1>1, <1>2, SinceAppend
  <2>2. e.stamp <= n /\ e.stamp > w OBVIOUS
  <2> DEFINE s == Append(g, e)
  <2>3. \A i \in DOMAIN g : g[i].stamp <= n /\ g[i].stamp > w BY DEF Agree
  <2> HIDE DEF s
  <2>4. \A i \in DOMAIN s : s[i] = e \/ \E j \in DOMAIN g : s[i] = g[j] BY <2>1 DEF s
  <2>5. \A i \in DOMAIN s : s[i].stamp <= n /\ s[i].stamp > w BY <2>2, <2>3, <2>4
  <2> QED BY <2>5 DEF s
<1>6. ASSUME NEW t \in Int, t >= w
      PROVE  Total(Since(Append(h, e), t)) = Total(Since(Append(g, e), t))
  <2>1. CASE t < n
    <3>1. /\ Since(h, t) \in Seq(Reservation) /\ Since(Append(h, e), t) = Append(Since(h, t), e)
          /\ Since(g, t) \in Seq(Reservation) /\ Since(Append(g, e), t) = Append(Since(g, t), e)
      BY <1>1, <1>2, <2>1, SinceAppend
    <3>2. Total(Since(h, t)) = Total(Since(g, t)) BY <1>6 DEF Agree
    <3>3. \A u \in Seq(Reservation) : Total(Append(u, e)) = Total(u) + e.tokens BY TotalAppend
    <3> QED BY <3>1, <3>2, <3>3, Zenon
  <2>2. CASE t >= n
    <3>1. Since(Append(h, e), t) = <<>> /\ Since(Append(g, e), t) = <<>>
      BY <1>1, <1>2, <2>2, SinceAppend
    <3> QED BY <3>1, Zenon
  <2> QED BY <2>1, <2>2
<1>7. ASSUME NEW x \in Reservation, x.stamp > w PROVE Copies(Append(h, e), x) = Copies(Append(g, e), x)
  <2>1. Copies(h, x) = Copies(g, x) BY <1>7 DEF Agree
  <2>2. \A u \in Seq(Reservation) : Copies(Append(u, e), x) = Copies(u, x) + IF e = x THEN 1 ELSE 0
    BY CopiesAppend
  <2> QED BY <1>1, <2>1, <2>2, Zenon
<1> QED BY <1>3, <1>4, <1>5, <1>6, <1>7 DEF Agree

\* A reservation made in the history and rolled back.
LEMMA AgreeRemoved ==
  ASSUME NEW h, NEW g, NEW n \in Nat, NEW w \in Int, w < n, Agree(h, g, n, w),
         NEW e \in Reservation, e.stamp = n
  PROVE  Agree(Removed(Append(h, e), e), g, n, w)
<1> DEFINE s == Append(h, e)
<1>1. h \in Seq(Reservation) /\ Sorted(h) /\ g \in Seq(Reservation) /\ Sorted(g) BY DEF Agree
<1>2. \A i \in DOMAIN h : h[i].stamp <= e.stamp BY DEF Agree
<1>3. /\ s \in Seq(Reservation) /\ Sorted(s)
      /\ \A i \in DOMAIN s : s[i] = e \/ \E j \in DOMAIN h : s[i] = h[j]
      /\ \A t \in Int : t < n => /\ Since(h, t) \in Seq(Reservation)
                                 /\ Since(s, t) = Append(Since(h, t), e)
      /\ \A t \in Int : t >= n => Since(s, t) = <<>>
  BY <1>1, <1>2, SinceAppend
<1>4. \E l \in DOMAIN s : s[l] = e
  <2>1. Len(s) = Len(h) + 1 /\ s[Len(h) + 1] = e /\ Len(h) \in Nat
    BY <1>1, AppendProperties, LenProperties
  <2> HIDE DEF s
  <2>2. DOMAIN s = 1 .. Len(s) BY <1>3, LenProperties
  <2>3. Len(h) + 1 \in 1 .. Len(s) BY <2>1
  <2> QED BY <2>1, <2>2, <2>3
<1>5. \A x \in Reservation : Copies(s, x) = Copies(h, x) + IF e = x THEN 1 ELSE 0
  BY <1>1, CopiesAppend
<1> HIDE DEF s
<1>6. PICK A \in Seq(Reservation), B \in Seq(Reservation) :
         s = (A \o <<e>>) \o B /\ Removed(s, e) = A \o B
  BY <1>3, <1>4, RemovedIs
<1> DEFINE r == A \o B
           C == A \o <<e>>
<1>7. /\ r \in Seq(Reservation) /\ Sorted(A) /\ Sorted(r)
      /\ \A i \in DOMAIN r : \E j \in DOMAIN s : r[i] = s[j]
      /\ \A i \in DOMAIN B : B[i].stamp >= n
  <2>1. Sorted((A \o <<e>>) \o B) BY <1>3, <1>6, Zenon
  <2>2. /\ A \o B \in Seq(Reservation) /\ Sorted(A) /\ Sorted(A \o B)
        /\ \A i \in DOMAIN (A \o B) : \E j \in DOMAIN ((A \o <<e>>) \o B) :
                                       (A \o B)[i] = ((A \o <<e>>) \o B)[j]
        /\ \A i \in DOMAIN B : B[i].stamp >= e.stamp
    BY <2>1, RemovedSorted
  <2> QED BY <1>6, <2>2, Zenon
<1>8. C \in Seq(Reservation) /\ C = Append(A, e) /\ s = C \o B
  <2>1. Append(A, e) \in Seq(Reservation) /\ Append(A, e) = A \o <<e>> BY AppendProperties
  <2> QED BY <1>6, <2>1
<1>9. \A i \in DOMAIN A : A[i].stamp <= n
  <2> TAKE i \in DOMAIN A
  <2>1. DOMAIN A = 1 .. Len(A) /\ Len(A) \in Nat BY LenProperties
  <2>2. i \in DOMAIN r /\ r[i] = A[i] BY OneAfterAnother
  <2> HIDE DEF r
  <2>3. PICK j \in DOMAIN s : A[i] = s[j] BY <1>7, <2>2
  <2> QED BY <1>2, <1>3, <2>3
<1>10. \A i \in DOMAIN r : r[i].stamp <= n
  <2> HIDE DEF r
  <2>1. n <= n OBVIOUS
  <2>2. \A j \in DOMAIN s : s[j].stamp <= n BY <1>2, <1>3, <2>1
  <2> QED BY <1>7, <2>2
<1>11. ASSUME NEW t \in Int, t >= w PROVE Total(Since(r, t)) = Total(Since(g, t))
  <2>1. Total(Since(h, t)) = Total(Since(g, t)) BY <1>11 DEF Agree
  <2>2. CASE t < n
    <3>1. \A i \in DOMAIN B : B[i].stamp > t
      <4> TAKE i \in DOMAIN B
      <4>1. B[i] \in Reservation /\ B[i].stamp >= n BY <1>7, ElementOfSeq, LenProperties
      <4>2. B[i].stamp \in Nat BY <4>1 DEF Reservation
      <4> QED BY <2>2, <4>1, <4>2
    <3>2. Since(r, t) = Since(A, t) \o B BY <1>7, <3>1, SinceConcat
    <3>3. Sorted(C) /\ Since(A, t) \in Seq(Reservation) /\ Since(C, t) = Append(Since(A, t), e)
      <4>1. /\ Sorted(Append(A, e)) /\ Since(A, t) \in Seq(Reservation)
            /\ Since(Append(A, e), t) = Append(Since(A, t), e)
        BY <1>7, <1>9, <2>2, SinceAppend
      <4> HIDE DEF C
      <4> QED BY <1>8, <4>1, Zenon
    <3> DEFINE u == Since(A, t)
               v == Since(h, t)
    <3>4. Since(s, t) = Append(u, e) \o B
      <4> HIDE DEF C, u
      <4>1. Since(C \o B, t) = Since(C, t) \o B BY <1>8, <3>1, <3>3, SinceConcat
      <4> QED BY <1>8, <3>3, <4>1, Zenon DEF u
    <3>5. Since(s, t) = Append(v, e) /\ v \in Seq(Reservation) BY <1>3, <2>2
    <3>6. Since(r, t) = u \o B /\ u \in Seq(Reservation) BY <3>2, <3>3
    <3>7. Append(v, e) = Append(u, e) \o B BY <3>4, <3>5, Zenon
    <3> HIDE DEF u, v, r, C
    <3>8. Total(Append(v, e)) = Total(v) + e.tokens BY <3>5, TotalAppend
    <3>9. Total(Append(u, e) \o B) = (Total(u) + e.tokens) + Total(B)
      <4>1. Append(u, e) \in Seq(Reservation) BY <3>6, AppendProperties
      <4>2. Total(Append(u, e)) = Total(u) + e.tokens BY <3>6, TotalAppend
      <4> DEFINE c == Append(u, e)
      <4> HIDE DEF c
      <4>3. c \in Seq(Reservation) BY <4>1 DEF c
      <4>4. Total(c \o B) = Total(c) + Total(B) BY <4>3, TotalConcat
      <4> QED BY <4>2, <4>4, Zenon DEF c
    <3>10. Total(u \o B) = Total(u) + Total(B) BY <3>6, TotalConcat
    <3>11. Total(u) \in Nat /\ Total(v) \in Nat /\ Total(B) \in Nat /\ e.tokens \in Nat
      BY <3>5, <3>6, TotalNat DEF Reservation
    <3>12. Total(v) + e.tokens = (Total(u) + e.tokens) + Total(B) BY <3>7, <3>8, <3>9, Zenon
    <3>13. Total(v) = Total(u) + Total(B) 
      <4> DEFINE i == Total(v)
                 j == Total(u)
                 k == Total(B)
                 l == e.tokens
      <4>1. i \in Nat /\ j \in Nat /\ k \in Nat /\ l \in Nat BY <3>11
      <4>2. i + l = (j + l) + k BY <3>12
      <4> HIDE DEF i, j, k, l
      <4>3. i = j + k BY <4>1, <4>2
      <4> QED BY <4>3 DEF i, j, k
    <3> QED BY <2>1, <3>6, <3>10, <3>13, Zenon DEF v
  <2>3. CASE t >= n
    <3>1. \A i \in DOMAIN r : r[i].stamp <= t
      <4> TAKE i \in DOMAIN r
      <4> HIDE DEF r
      <4>1. r[i] \in Reservation BY <1>7, ElementOfSeq, LenProperties
      <4>2. r[i].stamp \in Nat BY <4>1 DEF Reservation
      <4> QED BY <1>10, <2>3, <4>2
    <3>2. \A i \in DOMAIN g : g[i].stamp <= t
      <4> TAKE i \in DOMAIN g
      <4>1. g[i] \in Reservation BY <1>1, ElementOfSeq, LenProperties
      <4>2. g[i].stamp \in Nat /\ g[i].stamp <= n BY <4>1 DEF Reservation, Agree
      <4> QED BY <2>3, <4>2
    <3> HIDE DEF r
    <3>3. Since(r, t) = <<>> /\ Since(g, t) = <<>> BY <1>1, <1>7, <3>1, <3>2, SinceNone
    <3> QED BY <3>3, Zenon
  <2> QED BY <2>2, <2>3
<1>12. ASSUME NEW x \in Reservation, x.stamp > w PROVE Copies(r, x) = Copies(g, x)
  <2> DEFINE one == IF e = x THEN 1 ELSE 0
  <2>1. Copies(h, x) = Copies(g, x) BY <1>12 DEF Agree
  <2>2. Copies(s, x) = Copies(h, x) + one BY <1>5
  <2>3. Copies(C, x) = Copies(A, x) + one
    <3>1. Copies(Append(A, e), x) = Copies(A, x) + one BY CopiesAppend
    <3> HIDE DEF C
    <3> QED BY <1>8, <3>1, Zenon
  <2>4. Copies(C \o B, x) = Copies(C, x) + Copies(B, x)
    <3> HIDE DEF C
    <3> QED BY <1>8, CopiesConcat
  <2>5. Copies(r, x) = Copies(A, x) + Copies(B, x) BY CopiesConcat
  <2>6. Copies(A, x) \in Nat /\ Copies(B, x) \in Nat /\ Copies(h, x) \in Nat /\ one \in Nat
    BY <1>1, CopiesNat
  <2> HIDE DEF C, r, one
  <2>7. Copies(h, x) + one = (Copies(A, x) + one) + Copies(B, x) BY <1>8, <2>2, <2>3, <2>4, Zenon
  <2>8. Copies(h, x) = Copies(A, x) + Copies(B, x) BY <2>6, <2>7
  <2> QED BY <2>1, <2>5, <2>8, Zenon
<1>13. Removed(Append(h, e), e) = r BY <1>6 DEF s
<1>14. Agree(r, g, n, w)
  <2> HIDE DEF r
  <2> QED BY <1>1, <1>7, <1>10, <1>11, <1>12 DEF Agree
<1> QED BY <1>13, <1>14

\* Time passes, and the window's oldest grants with it.
LEMMA AgreeLater ==
  ASSUME NEW h, NEW g, NEW n \in Nat, NEW w \in Int, Agree(h, g, n, w),
         NEW m \in Nat, n <= m, NEW v \in Int, w <= v
  PROVE  Agree(h, Since(g, v), m, v)
<1>1. h \in Seq(Reservation) /\ Sorted(h) /\ g \in Seq(Reservation) /\ Sorted(g) BY DEF Agree
<1>2. Sorted(Since(g, v)) /\ Since(g, v) \in Seq(Reservation) BY <1>1, SinceSince
<1>3. ASSUME NEW u \in Seq(Reservation), \A i \in DOMAIN u : u[i].stamp <= n
      PROVE  \A i \in DOMAIN u : u[i].stamp <= m
  <2> TAKE i \in DOMAIN u
  <2>1. u[i] \in Reservation BY ElementOfSeq, LenProperties
  <2>2. u[i].stamp \in Nat BY <2>1 DEF Reservation
  <2> QED BY <1>3, <2>2
<1>4. \A i \in DOMAIN h : h[i].stamp <= m BY <1>1, <1>3 DEF Agree
<1>5. \A i \in DOMAIN g : g[i].stamp <= m BY <1>1, <1>3 DEF Agree
<1>6. \A i \in DOMAIN Since(g, v) : Since(g, v)[i].stamp <= m /\ Since(g, v)[i].stamp > v
  BY <1>1, <1>5, SinceEntries
<1>7. ASSUME NEW t \in Int, t >= v PROVE Total(Since(h, t)) = Total(Since(Since(g, v), t))
  <2>1. t >= w /\ v <= t BY <1>7
  <2>2. Since(Since(g, v), t) = Since(g, t) BY <1>1, <2>1, SinceSince
  <2> QED BY <2>1, <2>2 DEF Agree
<1>8. ASSUME NEW e \in Reservation, e.stamp > v PROVE Copies(h, e) = Copies(Since(g, v), e)
  <2>1. e.stamp \in Nat BY DEF Reservation
  <2>2. e.stamp > w BY <1>8, <2>1
  <2>3. Copies(Since(g, v), e) = Copies(g, e) BY <1>1, <1>8, CopiesSince
  <2> QED BY <2>2, <2>3 DEF Agree
<1> QED BY <1>1, <1>2, <1>4, <1>6, <1>7, <1>8 DEF Agree

(* The inductive invariant: the history agrees with the grants, which the  *)
(* budget covers. Both are in the order of their stamps, because the clock *)
(* only advances and the entry of a new reservation is stamped with it.    *)
HistoryInv ==
  /\ now \in Nat
  /\ Agree(history, granted, now, now - Window * Second)
  /\ Total(granted) <= TokensPerMinute

\* The window is some time long.
LEMMA WindowLong == Window * Second \in Nat /\ Window * Second > 0
<1>1. Window \in Nat /\ Window > 0 /\ Second \in Nat /\ Second > 0 BY PolicyAssumption
<1> QED BY <1>1

\* What an acquisition finds in the window.
LEMMA Found ==
  ASSUME HistoryInv
  PROVE  /\ now - Window * Second \in Int /\ now - Window * Second < now
         /\ Kept = Since(history, now - Window * Second)
         /\ Agree(Kept, granted, now, now - Window * Second)
         /\ Total(Kept) = Total(granted)
<1> DEFINE w == now - Window * Second
<1>1. w \in Int /\ w < now
  <2> DEFINE s == Window * Second
  <2>1. s \in Nat /\ s > 0 BY WindowLong
  <2> HIDE DEF s
  <2>2. now - s \in Int /\ now - s < now BY <2>1 DEF HistoryInv
  <2> QED BY <2>2 DEF s
<1>2. Kept = Since(history, w) BY <1>1, KeptIsSince DEF HistoryInv, Agree
<1>3. Agree(history, granted, now, w) /\ now \in Nat BY DEF HistoryInv
<1> HIDE DEF w
<1>4. Agree(Kept, granted, now, w) BY <1>1, <1>2, <1>3, AgreeKept
<1>5. Total(Since(history, w)) = Total(Since(granted, w)) BY <1>1, <1>3 DEF Agree
<1>6. Since(granted, w) = granted BY <1>1, <1>3, SinceAll DEF Agree
<1> QED BY <1>1, <1>2, <1>4, <1>5, <1>6 DEF w

\* A reservation is stamped with the time it is made.
LEMMA EntryIs ==
  ASSUME HistoryInv, NEW c \in Conns
  PROVE  Entry(c) \in Reservation /\ Entry(c).stamp = now /\ Entry(c).tokens = Tokens[c]
BY PolicyAssumption DEF HistoryInv, Entry, Reservation

\* Every step keeps the agreement.
LEMMA HistoryStep == ASSUME HistoryInv, [Next]_vars PROVE HistoryInv'
<1> DEFINE w == now - Window * Second
<1>1. /\ w \in Int /\ w < now /\ now \in Nat
      /\ Agree(history, granted, now, w)
      /\ Agree(Kept, granted, now, w)
      /\ Total(Kept) = Total(granted) /\ Total(granted) <= TokensPerMinute
  BY Found DEF HistoryInv
<1>2. granted \in Seq(Reservation) /\ Total(granted) \in Nat
  <2>1. granted \in Seq(Reservation) BY DEF HistoryInv, Agree
  <2> QED BY <2>1, TotalNat
<1>3. ASSUME UNCHANGED now, Agree(history', granted', now, w), Total(granted') <= TokensPerMinute
      PROVE  HistoryInv'
  <2>1. HistoryInv' <=> /\ now' \in Nat
                        /\ Agree(history', granted', now', now' - Window * Second)
                        /\ Total(granted') <= TokensPerMinute
    BY DEF HistoryInv, Agree, Sorted, Since, Copies, Total
  <2> QED BY <1>1, <1>3, <2>1
<1>4. ASSUME NEW c \in Conns, Refuse(c) PROVE HistoryInv'
  <2>1. history' = Kept /\ UNCHANGED <<now, granted>> BY <1>4 DEF Refuse
  <2> HIDE DEF w
  <2> QED BY <1>1, <1>3, <2>1
<1>5. ASSUME NEW c \in Conns, SubmitRefused(c) PROVE HistoryInv'
  <2>1. history' = Removed(Append(Kept, Entry(c)), Entry(c)) /\ UNCHANGED <<now, granted>>
    BY <1>5 DEF SubmitRefused
  <2> HIDE DEF w
  <2>2. Agree(history', granted, now, w) BY <1>1, <2>1, EntryIs, AgreeRemoved
  <2> QED BY <1>1, <1>3, <2>1, <2>2
<1>6. ASSUME NEW c \in Conns, Submit(c) PROVE HistoryInv'
  <2>1. /\ history' = Append(Kept, Entry(c)) /\ granted' = Append(granted, Entry(c))
        /\ UNCHANGED now /\ ~(Total(Kept) + Tokens[c] > TokensPerMinute)
    BY <1>6 DEF Submit, Over
  <2> HIDE DEF w
  <2>2. Agree(history', granted', now, w) BY <1>1, <2>1, EntryIs, AgreeAppend
  <2>3. Total(granted') = Total(granted) + Tokens[c]
    <3>1. Total(Append(granted, Entry(c))) = Total(granted) + Entry(c).tokens
      BY <1>2, EntryIs, TotalAppend
    <3> QED BY <2>1, <3>1, EntryIs, Zenon
  <2>4. Tokens[c] \in Nat /\ TokensPerMinute \in Nat BY PolicyAssumption
  <2>5. Total(granted') <= TokensPerMinute
    <3> DEFINE g == Total(granted)
               k == Tokens[c]
    <3>1. g \in Nat /\ k \in Nat /\ ~(g + k > TokensPerMinute) BY <1>1, <1>2, <2>1, <2>4
    <3> HIDE DEF g, k
    <3>2. g + k <= TokensPerMinute BY <2>4, <3>1
    <3> QED BY <2>3, <3>2, Zenon DEF g, k
  <2> QED BY <1>3, <2>1, <2>2, <2>5
<1>7. ASSUME Tick PROVE HistoryInv'
  <2> DEFINE v == now' - Window * Second
  <2>1. now' = now + 1 /\ granted' = Since(granted, v) /\ history' = history BY <1>7 DEF Tick
  <2>2. v \in Int /\ w <= v /\ now' \in Nat /\ now <= now'
    <3> DEFINE s == Window * Second
    <3>1. s \in Nat BY WindowLong
    <3> HIDE DEF s
    <3>2. now' - s \in Int /\ now - s <= now' - s BY <1>1, <2>1, <3>1
    <3> QED BY <1>1, <2>1, <3>2 DEF s
  <2> HIDE DEF v, w
  <2>3. Agree(history', granted', now', v) BY <1>1, <2>1, <2>2, AgreeLater
  <2>4. Total(granted') <= TokensPerMinute
    <3>1. Sorted(granted) BY <1>1 DEF Agree
    <3>2. PICK old \in Seq(Reservation) :
             granted = old \o Since(granted, v) /\ Since(granted, v) \in Seq(Reservation)
      BY <1>2, <2>2, <3>1, SinceSplits
    <3> DEFINE u == Since(granted, v)
    <3>3. u \in Seq(Reservation) /\ granted = old \o u BY <3>2
    <3> HIDE DEF u
    <3>4. Total(granted) = Total(old) + Total(u) /\ Total(old) \in Nat /\ Total(u) \in Nat
      BY <3>3, TotalConcat, TotalNat
    <3>5. Total(u) <= TokensPerMinute BY <1>1, <3>4, PolicyAssumption
    <3> QED BY <2>1, <3>5 DEF u
  <2>5. HistoryInv' <=> /\ now' \in Nat
                        /\ Agree(history', granted', now', now' - Window * Second)
                        /\ Total(granted') <= TokensPerMinute
    BY DEF HistoryInv, Agree, Sorted, Since, Copies, Total
  <2> QED BY <2>2, <2>3, <2>4, <2>5 DEF v
<1>8. CASE UNCHANGED <<now, history, granted>>
  <2> HIDE DEF w
  <2> QED BY <1>1, <1>3, <1>8
<1>9. ASSUME NEW c \in Conns, WaitEnds(c) \/ WaitCancelled(c) \/ StreamEnds(c)
      PROVE  UNCHANGED <<now, history, granted>>
  BY <1>9 DEF WaitEnds, WaitCancelled, StreamEnds, Done
<1> QED BY <1>4, <1>5, <1>6, <1>7, <1>8, <1>9 DEF Next, vars, gate

\* A new gate has an empty history (api.py:155).
LEMMA HistoryInit == ASSUME Init PROVE HistoryInv
<1>1. now = 0 /\ history = <<>> /\ granted = <<>> BY DEF Init
<1> DEFINE w == now - Window * Second
           none == <<>>
<1>2. none \in Seq(Reservation) /\ DOMAIN none = {} OBVIOUS
<1>3. Sorted(none) BY <1>2 DEF Sorted
<1>4. Total(none) = 0 BY TotalEmpty
<1>5. Agree(none, none, now, w)
  <2> HIDE DEF none, w
  <2> QED BY <1>2, <1>3 DEF Agree
<1> HIDE DEF w
<1> QED BY <1>1, <1>4, <1>5, PolicyAssumption DEF HistoryInv, w

(* For every policy, any number of connections and any requests: the       *)
(* reservations that began in the last Window seconds, and were not rolled *)
(* back, never exceed tokens_per_minute, whatever the gate has dropped     *)
(* from its history (api.py:159-181, 183-190).                             *)
THEOREM BudgetIsHeld == Spec => []WindowBudget
<1>1. Init => HistoryInv BY HistoryInit
<1>2. HistoryInv /\ [Next]_vars => HistoryInv' BY HistoryStep
<1>3. HistoryInv => WindowBudget BY DEF HistoryInv, WindowBudget
<1> QED BY <1>1, <1>2, <1>3, PTL DEF Spec

(* The history the gate cuts from the front and searches by value holds    *)
(* each reservation of the window as often as it was granted               *)
(* (api.py:161, 188).                                                      *)
THEOREM HistoryIsExact == Spec => []HistoryExact
<1>1. Init => HistoryInv BY HistoryInit
<1>2. HistoryInv /\ [Next]_vars => HistoryInv' BY HistoryStep
<1>3. HistoryInv => HistoryExact
  <2> SUFFICES ASSUME HistoryInv, NEW e \in ToSet(history) \cup ToSet(granted),
                      e.stamp > now - Window * Second
               PROVE  Copies(history, e) = Copies(granted, e)
    BY DEF HistoryExact, Copies
  <2>1. history \in Seq(Reservation) /\ granted \in Seq(Reservation) BY DEF HistoryInv, Agree
  <2>2. \A h \in Seq(Reservation) : ToSet(h) \subseteq Reservation
    BY ElementOfSeq, LenProperties DEF ToSet
  <2>3. e \in Reservation BY <2>1, <2>2
  <2> QED BY <2>3 DEF HistoryInv, Agree
<1> QED BY <1>1, <1>2, <1>3, PTL DEF Spec

\* The whole seconds in x ticks, and what is left of them.
LEMMA WholeSeconds ==
  ASSUME NEW x \in Int
  PROVE  x \div Second \in Int /\ x < (x \div Second) * Second + Second
BY PolicyAssumption

(* A client that waits the whole seconds of Retry-After comes back when    *)
(* the oldest reservation has left the window, though the wait is rounded  *)
(* down from fractions of a second (api.py:172).                           *)
THEOREM RetryIsEnough == Spec => []RetrySuffices
<1>1. Init => HistoryInv BY HistoryInit
<1>2. HistoryInv /\ [Next]_vars => HistoryInv' BY HistoryStep
<1>3. HistoryInv => RetrySuffices
  <2> SUFFICES ASSUME HistoryInv, Kept # <<>>
               PROVE  Kept[1].stamp <= now + RetryAfter * Second - Window * Second
    BY DEF RetrySuffices
  <2>1. Kept \in Seq(Reservation) /\ now \in Nat BY Found DEF HistoryInv, Agree
  <2>2. Kept[1].stamp \in Nat
    <3>1. 1 \in 1 .. Len(Kept) BY <2>1, LenProperties, EmptySeq
    <3>2. Kept[1] \in Reservation BY <2>1, <3>1, ElementOfSeq
    <3> QED BY <3>2 DEF Reservation
  <2> DEFINE s == Kept[1].stamp
             long == Window * Second
             x == (Window + 1) * Second - (now - s)
             wait == x \div Second
  <2>3. Second \in Nat /\ Second > 0 /\ Window \in Nat BY PolicyAssumption
  <2>4. long \in Nat /\ (Window + 1) * Second = long + Second BY <2>3
  <2>5. RetryAfter = IF wait > 1 THEN wait ELSE 1 BY DEF RetryAfter
  <2>6. s \in Nat BY <2>2
  <2> HIDE DEF s, long
  <2>7. x \in Int /\ x = long + Second - now + s BY <2>1, <2>3, <2>4, <2>6
  <2> HIDE DEF x
  <2>8. wait \in Int /\ x < wait * Second + Second BY <2>7, WholeSeconds
  <2> HIDE DEF wait
  <2>9. s <= now + wait * Second - long BY <2>1, <2>3, <2>4, <2>6, <2>7, <2>8
  <2>10. wait * Second <= RetryAfter * Second /\ RetryAfter \in Int BY <2>3, <2>5, <2>8
  <2>11. s <= now + RetryAfter * Second - long BY <2>1, <2>3, <2>4, <2>6, <2>8, <2>9, <2>10
  <2> QED BY <2>11 DEF s, long
<1> QED BY <1>1, <1>2, <1>3, PTL DEF Spec
=============================================================================
