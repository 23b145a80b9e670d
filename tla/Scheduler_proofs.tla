--------------------------- MODULE Scheduler_proofs ---------------------------
(***************************************************************************)
(* What the two scheduler loops have in common, proved once: what the      *)
(* queue operations do to the members of a sequence, and that each way a   *)
(* request moves between the queue, the active list and its end leaves     *)
(* every request where its state says (Residence).                         *)
(***************************************************************************)
EXTENDS Scheduler, SequenceTheorems, TLAPS

-----------------------------------------------------------------------------
\* Sequences as sets: what the queue operations do to members and to order.

(* append() of a new element.                                              *)
LEMMA AppendMembers ==
  ASSUME NEW S, NEW s \in Seq(S), NEW e \in S
  PROVE  /\ Append(s, e) \in Seq(S)
         /\ ToSet(Append(s, e)) = ToSet(s) \cup {e}
         /\ Distinct(s) /\ e \notin ToSet(s) => Distinct(Append(s, e))
<1> DEFINE t == Append(s, e)
<1>1. /\ t \in Seq(S) /\ Len(t) = Len(s) + 1
      /\ \A i \in 1 .. Len(s) : t[i] = s[i]
      /\ t[Len(s) + 1] = e
  BY AppendProperties
<1>2. DOMAIN s = 1 .. Len(s) /\ DOMAIN t = 1 .. Len(s) + 1 /\ Len(s) \in Nat
  BY <1>1, LenProperties
<1> HIDE DEF t
<1>3. ToSet(t) = ToSet(s) \cup {e}
  <2>1. ASSUME NEW x \in ToSet(t) PROVE x \in ToSet(s) \cup {e}
    <3>1. PICK i \in 1 .. Len(s) + 1 : x = t[i]
      BY <1>2 DEF ToSet
    <3>2. i \in 1 .. Len(s) \/ i = Len(s) + 1
      BY <1>2
    <3> QED BY <1>1, <1>2, <3>1, <3>2 DEF ToSet
  <2>2. ASSUME NEW x \in ToSet(s) PROVE x \in ToSet(t)
    <3>1. PICK i \in 1 .. Len(s) : x = s[i]
      BY <1>2 DEF ToSet
    <3>2. i \in 1 .. Len(s) + 1
      BY <1>2
    <3> QED BY <1>1, <1>2, <3>1, <3>2 DEF ToSet
  <2>3. Len(s) + 1 \in 1 .. Len(s) + 1
    BY <1>2
  <2>4. e \in ToSet(t)
    BY <1>1, <1>2, <2>3 DEF ToSet
  <2> QED BY <2>1, <2>2, <2>4
<1>4. ASSUME Distinct(s), e \notin ToSet(s) PROVE Distinct(t)
  <2> SUFFICES ASSUME NEW i \in 1 .. Len(s) + 1, NEW j \in 1 .. Len(s) + 1, t[i] = t[j]
               PROVE  i = j
    BY <1>1 DEF Distinct
  <2>1. \A k \in 1 .. Len(s) : s[k] # e
    BY <1>2, <1>4 DEF ToSet
  <2>2. CASE i \in 1 .. Len(s) /\ j \in 1 .. Len(s)
    BY <1>1, <1>4, <2>2 DEF Distinct
  <2>3. CASE i = Len(s) + 1 \/ j = Len(s) + 1
    <3>1. \A k \in 1 .. Len(s) + 1 : k = Len(s) + 1 \/ k \in 1 .. Len(s)
      BY <1>2
    <3> QED BY <1>1, <2>1, <2>3, <3>1
  <2> QED BY <1>2, <2>2, <2>3
<1> QED BY <1>1, <1>3, <1>4 DEF t

(* popleft() of a sequence without repetitions.                            *)
LEMMA TailMembers ==
  ASSUME NEW S, NEW s \in Seq(S), s # <<>>
  PROVE  /\ Head(s) \in S /\ Head(s) \in ToSet(s) /\ Tail(s) \in Seq(S)
         /\ Distinct(s) => /\ ToSet(Tail(s)) = ToSet(s) \ {Head(s)}
                           /\ Distinct(Tail(s))
<1> DEFINE t == Tail(s)
<1>1. /\ Head(s) \in S /\ t \in Seq(S) /\ Len(t) = Len(s) - 1
      /\ \A i \in 1 .. Len(t) : t[i] = s[i + 1]
  BY HeadTailProperties
<1>2. DOMAIN s = 1 .. Len(s) /\ DOMAIN t = 1 .. Len(t) /\ Len(s) \in Nat /\ Len(s) > 0
  BY <1>1, LenProperties, EmptySeq
<1>3. Head(s) = s[1] /\ 1 \in 1 .. Len(s)
  BY <1>2
<1> HIDE DEF t
<1>4. ASSUME Distinct(s)
      PROVE  ToSet(t) = ToSet(s) \ {Head(s)} /\ Distinct(t)
  <2>1. \A i \in 1 .. Len(t) : i + 1 \in 1 .. Len(s) /\ i + 1 # 1
    BY <1>1, <1>2
  <2>2. ASSUME NEW x \in ToSet(t) PROVE x \in ToSet(s) \ {Head(s)}
    <3>1. PICK i \in 1 .. Len(t) : x = s[i + 1]
      BY <1>1, <1>2 DEF ToSet
    <3>2. s[i + 1] # s[1]
      BY <1>3, <1>4, <2>1 DEF Distinct
    <3> QED BY <1>2, <1>3, <2>1, <3>1, <3>2 DEF ToSet
  <2>3. ASSUME NEW x \in ToSet(s) \ {Head(s)} PROVE x \in ToSet(t)
    <3>1. PICK i \in 1 .. Len(s) : x = s[i]
      BY <1>2 DEF ToSet
    <3>2. i # 1
      BY <1>3, <3>1
    <3>3. i - 1 \in 1 .. Len(t) /\ (i - 1) + 1 = i
      BY <1>1, <1>2, <3>2
    <3>4. t[i - 1] = x
      BY <1>1, <3>1, <3>3
    <3> QED BY <1>2, <3>3, <3>4 DEF ToSet
  <2>4. Distinct(t)
    <3> SUFFICES ASSUME NEW i \in 1 .. Len(t), NEW j \in 1 .. Len(t), t[i] = t[j]
                 PROVE  i = j
      BY DEF Distinct
    <3>1. i + 1 = j + 1
      BY <1>1, <1>4, <2>1 DEF Distinct
    <3> QED BY <1>1, <1>2, <3>1
  <2> QED BY <2>2, <2>3, <2>4
<1> QED BY <1>1, <1>2, <1>3, <1>4 DEF ToSet, t

(* remove() from a sequence without repetitions.                           *)
LEMMA WithoutMembers ==
  ASSUME NEW S, NEW s \in Seq(S), Distinct(s), NEW r
  PROVE  /\ Without(s, r) \in Seq(S)
         /\ ToSet(Without(s, r)) = ToSet(s) \ {r}
         /\ Distinct(Without(s, r))
<1>1. DOMAIN s = 1 .. Len(s) /\ Len(s) \in Nat /\ \A i \in 1 .. Len(s) : s[i] \in S
  BY LenProperties, ElementOfSeq
<1>2. CASE ~\E i \in 1 .. Len(s) : s[i] = r
  BY <1>1, <1>2 DEF Without, ToSet
<1>3. CASE \E i \in 1 .. Len(s) : s[i] = r
  <2> DEFINE i == CHOOSE i \in 1 .. Len(s) : s[i] = r
             t == SubSeq(s, 1, i - 1) \o SubSeq(s, i + 1, Len(s))
  <2>1. i \in 1 .. Len(s) /\ s[i] = r
    BY <1>3
  <2>2. Without(s, r) = t
    BY <1>3 DEF Without
  <2> HIDE DEF i
  <2>3. /\ SubSeq(s, 1, i - 1) \in Seq(S) /\ Len(SubSeq(s, 1, i - 1)) = i - 1
        /\ \A k \in 1 .. i - 1 : SubSeq(s, 1, i - 1)[k] = s[k]
    BY <1>1, <2>1, SubSeqProperties
  <2>4. /\ SubSeq(s, i + 1, Len(s)) \in Seq(S) /\ Len(SubSeq(s, i + 1, Len(s))) = Len(s) - i
        /\ \A k \in 1 .. Len(s) - i : SubSeq(s, i + 1, Len(s))[k] = s[i + k]
    <3>1. i + 1 \in Int /\ Len(s) \in Int /\ \A k \in i + 1 .. Len(s) : s[k] \in S
      BY <1>1, <2>1
    <3>2. /\ SubSeq(s, i + 1, Len(s)) \in Seq(S)
          /\ Len(SubSeq(s, i + 1, Len(s))) = IF i + 1 <= Len(s) THEN Len(s) - (i + 1) + 1 ELSE 0
          /\ \A k \in 1 .. Len(s) - (i + 1) + 1 : SubSeq(s, i + 1, Len(s))[k] = s[(i + 1) + k - 1]
      BY <3>1, SubSeqProperties
    <3>3. /\ Len(s) - (i + 1) + 1 = Len(s) - i
          /\ \A k \in 1 .. Len(s) - i : (i + 1) + k - 1 = i + k
      <4>1. \A n, m \in Int : n - (m + 1) + 1 = n - m /\ (m + 1) + n - 1 = m + n
        OBVIOUS
      <4>2. i \in Int /\ Len(s) \in Int /\ 1 .. Len(s) - i \subseteq Int
        BY <1>1, <2>1
      <4> QED BY <4>1, <4>2
    <3>4. ~(i + 1 <= Len(s)) => Len(s) - i = 0
      <4>1. \A n, m \in Int : m <= n /\ ~(m + 1 <= n) => n - m = 0
        OBVIOUS
      <4>2. i \in Int /\ Len(s) \in Int /\ i <= Len(s)
        BY <1>1, <2>1
      <4> QED BY <4>1, <4>2
    <3>5. Len(SubSeq(s, i + 1, Len(s))) = Len(s) - i
      BY <3>2, <3>3, <3>4
    <3>6. ASSUME NEW k \in 1 .. Len(s) - i
          PROVE  SubSeq(s, i + 1, Len(s))[k] = s[i + k]
      BY <3>2, <3>3
    <3> QED BY <3>2, <3>5, <3>6
  <2>5. /\ t \in Seq(S) /\ Len(t) = Len(s) - 1
        /\ \A k \in 1 .. Len(s) - 1 : t[k] = IF k < i THEN s[k] ELSE s[k + 1]
    <3>1. /\ t \in Seq(S) /\ Len(t) = (i - 1) + (Len(s) - i)
          /\ \A k \in 1 .. (i - 1) + (Len(s) - i) :
               t[k] = IF k <= i - 1 THEN SubSeq(s, 1, i - 1)[k]
                                    ELSE SubSeq(s, i + 1, Len(s))[k - (i - 1)]
      BY <2>3, <2>4, ConcatProperties
    <3>2. Len(t) = Len(s) - 1
      <4>1. (i - 1) + (Len(s) - i) = Len(s) - 1
        BY <1>1, <2>1
      <4> QED BY <3>1, <4>1
    <3>3. ASSUME NEW k \in 1 .. Len(s) - 1
          PROVE  t[k] = IF k < i THEN s[k] ELSE s[k + 1]
      <4>1. k \in 1 .. (i - 1) + (Len(s) - i)
        BY <1>1, <2>1
      <4>2. CASE k < i
        <5>1. k <= i - 1 /\ k \in 1 .. i - 1
          BY <1>1, <2>1, <4>2
        <5> QED BY <2>3, <3>1, <4>1, <4>2, <5>1
      <4>3. CASE ~(k < i)
        <5>1. k - (i - 1) \in 1 .. Len(s) - i /\ i + (k - (i - 1)) = k + 1 /\ ~(k <= i - 1)
          BY <1>1, <2>1, <4>3
        <5> QED BY <2>4, <3>1, <4>1, <4>3, <5>1
      <4> QED BY <4>2, <4>3
    <3> QED BY <3>1, <3>2, <3>3
  <2>6. DOMAIN t = 1 .. Len(s) - 1
    BY <2>5, LenProperties
  <2> HIDE DEF t
  <2> DEFINE from(k) == IF k < i THEN k ELSE k + 1
  <2>7. \A k \in 1 .. Len(s) - 1 : from(k) \in 1 .. Len(s) /\ from(k) # i /\ t[k] = s[from(k)]
    BY <1>1, <2>1, <2>5
  <2>8. \A k, l \in 1 .. Len(s) - 1 : from(k) = from(l) => k = l
    BY <1>1, <2>1
  <2>9. \A j \in 1 .. Len(s) : j # i => \E k \in 1 .. Len(s) - 1 : from(k) = j
    <3> SUFFICES ASSUME NEW j \in 1 .. Len(s), j # i
                 PROVE  \E k \in 1 .. Len(s) - 1 : from(k) = j
      OBVIOUS
    <3>1. CASE j < i
      <4>1. j \in 1 .. Len(s) - 1 /\ from(j) = j
        BY <1>1, <2>1, <3>1
      <4> QED BY <4>1
    <3>2. CASE j > i
      <4>1. j - 1 \in 1 .. Len(s) - 1 /\ from(j - 1) = j
        BY <1>1, <2>1, <3>2
      <4> QED BY <4>1
    <3> QED BY <1>1, <2>1, <3>1, <3>2
  <2> HIDE DEF from
  <2>10. ToSet(t) = ToSet(s) \ {r}
    <3>1. ASSUME NEW x \in ToSet(t) PROVE x \in ToSet(s) \ {r}
      <4>1. PICK k \in 1 .. Len(s) - 1 : x = s[from(k)]
        BY <2>6, <2>7 DEF ToSet
      <4> QED BY <1>1, <2>1, <2>7, <4>1 DEF ToSet, Distinct
    <3>2. ASSUME NEW x \in ToSet(s) \ {r} PROVE x \in ToSet(t)
      <4>1. PICK j \in 1 .. Len(s) : x = s[j]
        BY <1>1 DEF ToSet
      <4>2. PICK k \in 1 .. Len(s) - 1 : from(k) = j
        BY <2>1, <2>9, <4>1
      <4> QED BY <2>6, <2>7, <4>1, <4>2 DEF ToSet
    <3> QED BY <3>1, <3>2
  <2>11. Distinct(t)
    <3> SUFFICES ASSUME NEW k \in 1 .. Len(s) - 1, NEW l \in 1 .. Len(s) - 1, t[k] = t[l]
                 PROVE  k = l
      BY <2>5 DEF Distinct
    <3>1. from(k) = from(l)
      BY <2>7 DEF Distinct
    <3> QED BY <2>8, <3>1
  <2> QED BY <2>2, <2>5, <2>10, <2>11
<1> QED BY <1>2, <1>3

-----------------------------------------------------------------------------
\* Where the requests are.

PlacesType ==
  /\ waiting \in Seq(Reqs) /\ active \in Seq(Reqs)
  /\ state \in [Reqs -> States]
  /\ resolved \subseteq Reqs

Places == PlacesType /\ Residence

(* A request that is finalized leaves both lists; if that is when it is in *)
(* a terminal state, or gets into one, every request is still where its    *)
(* state says.                                                             *)
LEMMA FinalizeKeepsPlaces ==
  ASSUME Places, NEW r \in Reqs, NEW events, Finalize(r, events),
         state' \in [Reqs -> States], state'[r] \in Terminal,
         \A q \in Reqs \ {r} : state'[q] = state[q]
  PROVE  Places' /\ ToSet(active') = ToSet(active) \ {r}
<1>1. waiting \in Seq(Reqs) /\ active \in Seq(Reqs) /\ Distinct(waiting) /\ Distinct(active)
  BY DEF Places, PlacesType, Residence
<1>2. /\ waiting' \in Seq(Reqs) /\ Distinct(waiting')
      /\ ToSet(waiting') = ToSet(waiting) \ {r}
  BY <1>1, WithoutMembers DEF Finalize
<1>3. /\ active' \in Seq(Reqs) /\ Distinct(active')
      /\ ToSet(active') = ToSet(active) \ {r}
  BY <1>1, WithoutMembers DEF Finalize
<1>4. resolved' = resolved \cup {r} /\ resolved' \subseteq Reqs
  BY DEF Finalize, Places, PlacesType
<1>5. state'[r] \notin {"new", "WAITING", "PREFILL", "DECODING"}
  BY DEF Terminal
<1> DEFINE PlacedHere(q) ==
      /\ q \in ToSet(waiting) <=> state[q] = "WAITING"
      /\ state[q] \in {"PREFILL", "DECODING"} => q \in ToSet(active)
      /\ q \in ToSet(active) => state[q] # "new" /\ q \notin ToSet(waiting) \cup resolved
      /\ q \in resolved => is_terminal(q)
<1>6. \A q \in Reqs : PlacedHere(q)
  BY DEF Places, Residence
<1>7. \A q \in Reqs : PlacedHere(q)'
  <2> SUFFICES ASSUME NEW q \in Reqs PROVE PlacedHere(q)'
    OBVIOUS
  <2>1. CASE q = r
    BY <1>2, <1>3, <1>5, <2>1 DEF is_terminal
  <2>2. CASE q # r
    BY <1>2, <1>3, <1>4, <1>6, <2>2 DEF is_terminal
  <2> QED BY <2>1, <2>2
<1>8. Residence'
  BY <1>2, <1>3, <1>7 DEF Residence
<1> QED BY <1>2, <1>3, <1>4, <1>8 DEF Places, PlacesType

(* The same for End, which also moves the request into the terminal state. *)
LEMMA EndKeepsPlaces ==
  ASSUME Places, NEW r \in Reqs, NEW terminal \in Terminal, NEW events,
         End(r, terminal, events)
  PROVE  Places' /\ ToSet(active') = ToSet(active) \ {r}
<1>1. state \in [Reqs -> States] /\ terminal \in States
  BY DEF Places, PlacesType, States
<1>2. state' = [state EXCEPT ![r] = terminal] /\ Finalize(r, events)
  BY DEF End
<1>3. /\ state' \in [Reqs -> States] /\ state'[r] \in Terminal
      /\ \A q \in Reqs \ {r} : state'[q] = state[q]
  BY <1>1, <1>2
<1> QED BY <1>2, <1>3, FinalizeKeepsPlaces

(* The first of the waiting requests is one of them, and waits.            *)
LEMMA HeadOfQueue ==
  ASSUME Places, waiting # <<>>
  PROVE  /\ Head(waiting) \in Reqs /\ state[Head(waiting)] = "WAITING"
         /\ Head(waiting) \notin ToSet(active)
         /\ Tail(waiting) \in Seq(Reqs) /\ Distinct(Tail(waiting))
         /\ ToSet(Tail(waiting)) = ToSet(waiting) \ {Head(waiting)}
<1>1. waiting \in Seq(Reqs) /\ Distinct(waiting)
  BY DEF Places, PlacesType, Residence
<1>2. /\ Head(waiting) \in Reqs /\ Head(waiting) \in ToSet(waiting)
      /\ Tail(waiting) \in Seq(Reqs) /\ Distinct(Tail(waiting))
      /\ ToSet(Tail(waiting)) = ToSet(waiting) \ {Head(waiting)}
  BY <1>1, TailMembers
<1> QED BY <1>2 DEF Places, Residence

(* A request that moves from the queue to the active list (Admit).         *)
LEMMA AdmitKeepsPlaces ==
  ASSUME Places, waiting # <<>>, waiting' = Tail(waiting),
         active' = Append(active, Head(waiting)),
         state' = [state EXCEPT ![Head(waiting)] = "PREFILL"], UNCHANGED resolved
  PROVE  Places' /\ ToSet(active') = ToSet(active) \cup {Head(waiting)}
<1> DEFINE r == Head(waiting)
<1>1. /\ r \in Reqs /\ state[r] = "WAITING" /\ r \notin ToSet(active)
      /\ waiting' \in Seq(Reqs) /\ Distinct(waiting') /\ ToSet(waiting') = ToSet(waiting) \ {r}
  BY HeadOfQueue
<1>2. /\ active' \in Seq(Reqs) /\ ToSet(active') = ToSet(active) \cup {r} /\ Distinct(active')
  BY <1>1, AppendMembers DEF Places, PlacesType, Residence
<1> HIDE DEF r
<1>3. /\ state' \in [Reqs -> States] /\ state'[r] = "PREFILL"
      /\ \A q \in Reqs \ {r} : state'[q] = state[q]
  BY <1>1 DEF Places, PlacesType, States, r
<1>4. r \notin resolved BY <1>1 DEF Places, Residence, is_terminal, Terminal
<1>5. Residence'
  <2> SUFFICES ASSUME NEW q \in Reqs
               PROVE  /\ q \in ToSet(waiting') <=> state'[q] = "WAITING"
                      /\ state'[q] \in {"PREFILL", "DECODING"} => q \in ToSet(active')
                      /\ q \in ToSet(active') => state'[q] # "new" /\ q \notin ToSet(waiting') \cup resolved
                      /\ q \in resolved => is_terminal(q)'
    BY <1>1, <1>2 DEF Residence
  <2>1. CASE q = r BY <1>1, <1>2, <1>3, <1>4, <2>1
  <2>2. CASE q # r BY <1>1, <1>2, <1>3, <2>2 DEF Places, Residence, is_terminal
  <2> QED BY <2>1, <2>2
<1> QED BY <1>1, <1>2, <1>3, <1>5 DEF Places, PlacesType, r

(* A new request that enters the queue (submit).                           *)
LEMMA SubmitKeepsPlaces ==
  ASSUME Places, NEW r \in Reqs, state[r] = "new",
         state' = [state EXCEPT ![r] = "WAITING"], waiting' = Append(waiting, r),
         UNCHANGED <<active, resolved>>
  PROVE  Places'
<1>1. r \notin ToSet(waiting) /\ r \notin ToSet(active) /\ r \notin resolved
  BY DEF Places, Residence, is_terminal, Terminal
<1>2. waiting' \in Seq(Reqs) /\ Distinct(waiting') /\ ToSet(waiting') = ToSet(waiting) \cup {r}
  BY <1>1, AppendMembers DEF Places, PlacesType, Residence
<1>3. /\ state' \in [Reqs -> States] /\ state'[r] = "WAITING"
      /\ \A q \in Reqs \ {r} : state'[q] = state[q]
  BY DEF Places, PlacesType, States
<1>4. Residence'
  <2> SUFFICES ASSUME NEW q \in Reqs
               PROVE  /\ q \in ToSet(waiting') <=> state'[q] = "WAITING"
                      /\ state'[q] \in {"PREFILL", "DECODING"} => q \in ToSet(active)
                      /\ q \in ToSet(active) => state'[q] # "new" /\ q \notin ToSet(waiting') \cup resolved
                      /\ q \in resolved => is_terminal(q)'
    BY <1>2 DEF Residence, Places
  <2>1. CASE q = r BY <1>1, <1>2, <1>3, <2>1
  <2>2. CASE q # r BY <1>2, <1>3, <2>2 DEF Places, Residence, is_terminal
  <2> QED BY <2>1, <2>2
<1> QED BY <1>2, <1>3, <1>4 DEF Places, PlacesType

(* A request that stays in the active list: another token of it, or the    *)
(* mark of a cancellation in flight.                                       *)
LEMMA MarkKeepsPlaces ==
  ASSUME Places, NEW r \in Reqs, r \in ToSet(active), r \notin resolved,
         NEW s \in States \ {"new", "WAITING"}, state' = [state EXCEPT ![r] = s],
         UNCHANGED <<waiting, active, resolved>>
  PROVE  Places'
<1>1. /\ state' \in [Reqs -> States] /\ state'[r] = s
      /\ \A q \in Reqs \ {r} : state'[q] = state[q]
  BY DEF Places, PlacesType
<1>2. Residence'
  <2> SUFFICES ASSUME NEW q \in Reqs
               PROVE  /\ q \in ToSet(waiting) <=> state'[q] = "WAITING"
                      /\ state'[q] \in {"PREFILL", "DECODING"} => q \in ToSet(active)
                      /\ q \in ToSet(active) => state'[q] # "new" /\ q \notin ToSet(waiting) \cup resolved
                      /\ q \in resolved => is_terminal(q)'
    BY DEF Residence, Places
  <2>1. CASE q = r BY <1>1, <2>1 DEF Places, Residence
  <2>2. CASE q # r BY <1>1, <2>2 DEF Places, Residence, is_terminal
  <2> QED BY <2>1, <2>2
<1> QED BY <1>1, <1>2 DEF Places, PlacesType

-----------------------------------------------------------------------------
(* What a stream holds. Every event goes through Deliver, which moves      *)
(* events from pending_events to output_queue and loses none; so what was  *)
(* ever published is what the consumer has, and what is queued, and what   *)
(* is pending.                                                             *)

StreamType ==
  /\ outq \in [Reqs -> Seq(Nat)] /\ pending \in [Reqs -> Seq(Nat)] /\ got \in [Reqs -> Seq(Nat)]
  /\ stalled \in [Reqs -> {"no", "yes", "expired"}]
  /\ \A r \in Reqs : Len(outq[r]) <= StreamCapacity

\* All that was ever published for r.
History(r) == got[r] \o outq[r] \o pending[r]

(* Concatenation under a name of its own: the provers then use of it what  *)
(* is cited and nothing else.                                              *)
Cat(s, t) == s \o t

(* Streams are closed under concatenation, ...                             *)
LEMMA CatClosed == \A s, t \in Seq(Nat) : Cat(s, t) \in Seq(Nat)
  BY ConcatProperties DEF Cat

(* ... and it is associative on them.                                      *)
LEMMA CatAssociative == \A s, t, u \in Seq(Nat) : Cat(Cat(s, t), u) = Cat(s, Cat(t, u))
  BY ConcatAssociative DEF Cat

(* What Deliver does to one stream: queue and pending together keep their  *)
(* events, the queue keeps its bound, the pending events only get fewer.   *)
LEMMA MoveEvents ==
  ASSUME NEW q \in Seq(Nat), NEW p \in Seq(Nat), Len(q) <= StreamCapacity
  PROVE  /\ QueueAfter(q, p) \in Seq(Nat) /\ PendingAfter(q, p) \in Seq(Nat)
         /\ QueueAfter(q, p) \o PendingAfter(q, p) = q \o p
         /\ Len(QueueAfter(q, p)) <= StreamCapacity
         /\ Len(PendingAfter(q, p)) <= Len(p)
<1> DEFINE k == Fits(q, p)
           front == SubSeq(p, 1, k)
           back == SubSeq(p, k + 1, Len(p))
<1>1. Len(q) \in Nat /\ Len(p) \in Nat /\ StreamCapacity \in Nat
  BY ConfigAssumption
<1>2. k \in 0 .. Len(p) /\ k <= StreamCapacity - Len(q)
  BY <1>1 DEF Fits, Lesser
<1> HIDE DEF k
<1>3. \A i \in 1 .. Len(p) : p[i] \in Nat
  BY ElementOfSeq
<1>4. front \in Seq(Nat) /\ Len(front) = k
  <2>1. /\ 1 \in Int /\ k \in Int /\ \A i \in 1 .. k : p[i] \in Nat
    BY <1>1, <1>2, <1>3
  <2>2. front \in Seq(Nat) /\ Len(front) = IF 1 <= k THEN k - 1 + 1 ELSE 0
    BY <2>1, SubSeqProperties
  <2> HIDE DEF front
  <2>3. (IF 1 <= k THEN k - 1 + 1 ELSE 0) = k
    BY <1>1, <1>2
  <2> QED BY <2>2, <2>3
<1>5. back \in Seq(Nat) /\ Len(back) <= Len(p)
  <2>1. /\ k + 1 \in Int /\ Len(p) \in Int /\ \A i \in k + 1 .. Len(p) : p[i] \in Nat
    BY <1>1, <1>2, <1>3
  <2>2. back \in Seq(Nat) /\ Len(back) = IF k + 1 <= Len(p) THEN Len(p) - (k + 1) + 1 ELSE 0
    BY <2>1, SubSeqProperties
  <2> HIDE DEF back
  <2>3. (IF k + 1 <= Len(p) THEN Len(p) - (k + 1) + 1 ELSE 0) <= Len(p)
    BY <1>1, <1>2
  <2> QED BY <2>2, <2>3
<1>6. front \o back = p
  <2>1. 1 \in 1 .. Len(p) + 1 /\ k \in 1 - 1 .. Len(p) /\ Len(p) \in k .. Len(p)
    BY <1>1, <1>2
  <2>2. front \o back = SubSeq(p, 1, Len(p))
    BY <2>1, ConcatAdjacentSubSeq
  <2> QED BY <2>2, SubSeqFull
<1>7. QueueAfter(q, p) = q \o front /\ PendingAfter(q, p) = back
  BY DEF QueueAfter, PendingAfter, k
<1> HIDE DEF front, back
<1>8. q \o front \in Seq(Nat) /\ Len(q \o front) = Len(q) + Len(front)
  BY <1>4, ConcatProperties
<1>9. Len(q) + Len(front) <= StreamCapacity
  BY <1>1, <1>2, <1>4
<1>10. (q \o front) \o back = q \o p
  <2>1. Cat(Cat(q, front), back) = Cat(q, Cat(front, back))
    BY <1>4, <1>5, CatAssociative
  <2> QED BY <1>6, <2>1 DEF Cat
<1> QED BY <1>5, <1>7, <1>8, <1>9, <1>10

(* Events that moved from the pending ones to the queue, and events added  *)
(* behind them, are in order behind what the consumer has.                 *)
LEMMA Moved ==
  ASSUME NEW g \in Seq(Nat), NEW q \in Seq(Nat), NEW p \in Seq(Nat), NEW e \in Seq(Nat),
         NEW q1 \in Seq(Nat), NEW p1 \in Seq(Nat), Cat(q1, p1) = Cat(q, Cat(p, e))
  PROVE  Cat(Cat(g, q1), p1) = Cat(Cat(Cat(g, q), p), e)
<1>1. Cat(g, q) \in Seq(Nat) /\ Cat(p, e) \in Seq(Nat)
  BY CatClosed
<1>2. Cat(Cat(g, q1), p1) = Cat(g, Cat(q, Cat(p, e)))
  BY CatAssociative
<1>3. Cat(g, Cat(q, Cat(p, e))) = Cat(Cat(g, q), Cat(p, e))
  BY <1>1, CatAssociative
<1>4. Cat(Cat(g, q), Cat(p, e)) = Cat(Cat(Cat(g, q), p), e)
  BY <1>1, CatAssociative
<1> QED BY <1>2, <1>3, <1>4

(* Deliver appends the events to what was published for the requests of S, *)
(* and to no other stream; without events it publishes nothing.            *)
LEMMA Delivered ==
  ASSUME StreamType, NEW S, NEW events \in Seq(Nat), Deliver(S, events)
  PROVE  /\ StreamType'
         /\ \A r \in Reqs : History(r)' = IF r \in S THEN History(r) \o events ELSE History(r)
         /\ \A r \in Reqs \ S : pending'[r] = pending[r]
         /\ \A r \in Reqs : Len(pending'[r]) <= Len(pending[r]) + IF r \in S THEN Len(events) ELSE 0
<1> DEFINE P(r) == pending[r] \o events
<1>1. /\ outq' = [r \in Reqs |-> IF r \in S THEN QueueAfter(outq[r], P(r)) ELSE outq[r]]
      /\ pending' = [r \in Reqs |-> IF r \in S THEN PendingAfter(outq[r], P(r)) ELSE pending[r]]
      /\ stalled' = [r \in Reqs |-> IF r \in S THEN StallAfter(stalled[r], outq[r], P(r)) ELSE stalled[r]]
      /\ got' = got
  BY DEF Deliver
<1>2. ASSUME NEW r \in Reqs
      PROVE  /\ got[r] \in Seq(Nat) /\ outq[r] \in Seq(Nat) /\ pending[r] \in Seq(Nat)
             /\ Len(outq[r]) <= StreamCapacity
             /\ P(r) \in Seq(Nat) /\ Len(P(r)) = Len(pending[r]) + Len(events)
  <2>1. got[r] \in Seq(Nat) /\ outq[r] \in Seq(Nat) /\ pending[r] \in Seq(Nat)
    BY DEF StreamType
  <2> QED BY <2>1, ConcatProperties DEF StreamType
<1>3. ASSUME NEW r \in Reqs, r \in S
      PROVE  /\ outq'[r] \in Seq(Nat) /\ pending'[r] \in Seq(Nat)
             /\ Len(outq'[r]) <= StreamCapacity
             /\ Len(pending'[r]) <= Len(pending[r]) + Len(events)
             /\ History(r)' = History(r) \o events
  <2>1. outq'[r] = QueueAfter(outq[r], P(r)) /\ pending'[r] = PendingAfter(outq[r], P(r))
    BY <1>1, <1>3
  <2>2. /\ outq'[r] \in Seq(Nat) /\ pending'[r] \in Seq(Nat)
        /\ outq'[r] \o pending'[r] = outq[r] \o P(r)
        /\ Len(outq'[r]) <= StreamCapacity /\ Len(pending'[r]) <= Len(P(r))
    <3> HIDE DEF P
    <3> QED BY <1>2, <2>1, MoveEvents
  <2>3. (got[r] \o outq'[r]) \o pending'[r] = ((got[r] \o outq[r]) \o pending[r]) \o events
    <3>0. /\ got[r] \in Seq(Nat) /\ outq[r] \in Seq(Nat) /\ pending[r] \in Seq(Nat)
          /\ outq'[r] \in Seq(Nat) /\ pending'[r] \in Seq(Nat)
      BY <1>2, <2>2
    <3>1. Cat(outq'[r], pending'[r]) = Cat(outq[r], Cat(pending[r], events))
      BY <2>2 DEF Cat
    <3>2. Cat(Cat(got[r], outq'[r]), pending'[r])
            = Cat(Cat(Cat(got[r], outq[r]), pending[r]), events)
      <4> DEFINE g == got[r]
                 q == outq[r]
                 p == pending[r]
                 q1 == outq'[r]
                 p1 == pending'[r]
      <4>1. /\ g \in Seq(Nat) /\ q \in Seq(Nat) /\ p \in Seq(Nat)
            /\ q1 \in Seq(Nat) /\ p1 \in Seq(Nat)
            /\ Cat(q1, p1) = Cat(q, Cat(p, events))
        BY <3>0, <3>1
      <4> HIDE DEF g, q, p, q1, p1
      <4>2. Cat(Cat(g, q1), p1) = Cat(Cat(Cat(g, q), p), events)
        BY <4>1, Moved
      <4> QED BY <4>2 DEF g, q, p, q1, p1
    <3> QED BY <3>2 DEF Cat
  <2> QED BY <1>1, <1>2, <2>2, <2>3 DEF History
<1>4. ASSUME NEW r \in Reqs, r \notin S
      PROVE  outq'[r] = outq[r] /\ pending'[r] = pending[r] /\ History(r)' = History(r)
  BY <1>1, <1>4 DEF History
<1>5. outq' \in [Reqs -> Seq(Nat)] /\ pending' \in [Reqs -> Seq(Nat)] /\ got' \in [Reqs -> Seq(Nat)]
  <2>1. \A r \in Reqs : outq'[r] \in Seq(Nat) /\ pending'[r] \in Seq(Nat)
    BY <1>2, <1>3, <1>4
  <2> QED BY <1>1, <2>1 DEF StreamType
<1>6. stalled' \in [Reqs -> {"no", "yes", "expired"}]
  BY <1>1 DEF StreamType, StallAfter
<1>7. \A r \in Reqs : Len(outq'[r]) <= StreamCapacity
  BY <1>2, <1>3, <1>4
<1>8. StreamType'
  BY <1>5, <1>6, <1>7 DEF StreamType
<1>9. \A r \in Reqs : Len(pending'[r]) <= Len(pending[r]) + IF r \in S THEN Len(events) ELSE 0
  <2> SUFFICES ASSUME NEW r \in Reqs
               PROVE  Len(pending'[r]) <= Len(pending[r]) + IF r \in S THEN Len(events) ELSE 0
    OBVIOUS
  <2>1. CASE r \in S
    BY <1>3, <2>1
  <2>2. CASE r \notin S
    <3>1. Len(pending[r]) \in Nat
      BY <1>2
    <3> QED BY <1>4, <2>2, <3>1
  <2> QED BY <2>1, <2>2
<1> QED BY <1>3, <1>4, <1>8, <1>9

\* What the stream of r is to hold.
Owed(r) == IF r \in resolved THEN Append(Counted(gen[r]), STOP) ELSE Counted(gen[r])

(* The tokens 1 .. n, one more of them, and STOP behind them.              *)
LEMMA CountedGrows ==
  ASSUME NEW n \in Nat
  PROVE  /\ Counted(n) \in Seq(Nat)
         /\ Counted(n) \o <<>> = Counted(n)
         /\ Counted(n) \o <<n + 1>> = Counted(n + 1)
         /\ Counted(n) \o Append(<<>>, STOP) = Append(Counted(n), STOP)
         /\ Counted(n) \o Append(<<n + 1>>, STOP) = Append(Counted(n + 1), STOP)
<1>1. Counted(n) \in Seq(Nat) /\ Len(Counted(n)) = n
  BY DEF Counted
<1>2. Counted(n + 1) \in Seq(Nat) /\ Len(Counted(n + 1)) = n + 1
  BY DEF Counted
<1>3. Counted(n) \o <<>> = Counted(n)
  BY <1>1, ConcatEmptySeq
<1>4. Counted(n) \o <<n + 1>> = Counted(n + 1)
  <2> DEFINE c == Counted(n) \o <<n + 1>>
  <2>1. c \in Seq(Nat) /\ Len(c) = n + 1
    BY <1>1
  <2>2. \A i \in 1 .. n + 1 : c[i] = i /\ Counted(n + 1)[i] = i
    BY <1>1 DEF Counted
  <2> HIDE DEF c
  <2> QED BY <1>2, <2>1, <2>2, SeqEqual DEF c
<1>5. Append(<<>>, STOP) = <<STOP>> /\ Append(<<n + 1>>, STOP) = <<n + 1>> \o <<STOP>>
  BY DEF STOP
<1>6. \A q \in Seq(Nat) : q \o <<STOP>> = Append(q, STOP)
  BY AppendIsConcat DEF STOP
<1>7. Counted(n) \o (<<n + 1>> \o <<STOP>>) = Counted(n + 1) \o <<STOP>>
  <2>1. <<n + 1>> \in Seq(Nat) /\ <<STOP>> \in Seq(Nat)
    BY DEF STOP
  <2>2. Cat(Counted(n), Cat(<<n + 1>>, <<STOP>>)) = Cat(Cat(Counted(n), <<n + 1>>), <<STOP>>)
    BY <1>1, <2>1, CatAssociative
  <2> QED BY <1>4, <2>2 DEF Cat
<1> QED BY <1>1, <1>2, <1>3, <1>4, <1>5, <1>6, <1>7

(* What holds of every stream: its type, what it holds and how far its     *)
(* consumer is behind. Who publishes what is decided by the loops: a       *)
(* resolved request is in no list, so that nothing is published behind its *)
(* STOP.                                                                   *)
Streaming == StreamType /\ StreamExact /\ BacklogBounded

LEMMA StreamOwed == ASSUME Streaming PROVE \A r \in Reqs : History(r) = Owed(r)
BY DEF Streaming, StreamExact, History, Owed

(* A step that publishes some events for the requests of S keeps every     *)
(* stream as it is to be, provided the events are what S comes to owe, and *)
(* no more of them come than there is room for behind a full queue. The    *)
(* requests of Q, for which nothing is published, have nothing pending     *)
(* before and after.                                                       *)
LEMMA Published ==
  ASSUME Streaming, NEW S, NEW events \in Seq(Nat), Deliver(S, events),
         \A r \in Reqs : Owed(r)' = IF r \in S THEN Owed(r) \o events ELSE Owed(r),
         \A r \in Reqs : IF r \in S
           THEN Len(pending[r]) + Len(events) <= (IF r \in resolved' THEN 2 ELSE 1)
           ELSE r \in resolved => r \in resolved',
         NEW Q, \A r \in Q : r \in Reqs /\ pending[r] = <<>> /\ (r \in S => events = <<>>)
  PROVE  Streaming' /\ \A r \in Q : pending'[r] = <<>>
<1>1. /\ StreamType'
      /\ \A r \in Reqs : History(r)' = IF r \in S THEN History(r) \o events ELSE History(r)
      /\ \A r \in Reqs \ S : pending'[r] = pending[r]
      /\ \A r \in Reqs : Len(pending'[r]) <= Len(pending[r]) + IF r \in S THEN Len(events) ELSE 0
  BY Delivered DEF Streaming
<1>2. \A r \in Reqs : History(r) = Owed(r) BY StreamOwed
<1>3. \A r \in Reqs : History(r)' = Owed(r)' BY <1>1, <1>2
<1>4. StreamExact' BY <1>3 DEF StreamExact, History, Owed
<1>5. \A r \in Reqs : /\ pending[r] \in Seq(Nat) /\ Len(pending[r]) \in Nat
                      /\ pending'[r] \in Seq(Nat) /\ Len(pending'[r]) \in Nat
  BY <1>1, LenProperties DEF Streaming, StreamType
<1>6. Len(events) \in Nat BY LenProperties
<1>7. BacklogBounded'
  <2> SUFFICES ASSUME NEW r \in Reqs
               PROVE  Len(pending'[r]) <= IF r \in resolved' THEN 2 ELSE 1
    BY DEF BacklogBounded
  <2>1. CASE r \in S
    <3>1. Len(pending'[r]) <= Len(pending[r]) + Len(events) BY <1>1, <2>1
    <3>2. Len(pending[r]) + Len(events) <= (IF r \in resolved' THEN 2 ELSE 1) BY <2>1
    <3> QED BY <1>5, <1>6, <3>1, <3>2
  <2>2. CASE r \notin S
    <3>1. pending'[r] = pending[r] /\ (r \in resolved => r \in resolved') BY <1>1, <2>2
    <3>2. Len(pending[r]) <= IF r \in resolved THEN 2 ELSE 1 BY DEF Streaming, BacklogBounded
    <3> QED BY <1>5, <3>1, <3>2
  <2> QED BY <2>1, <2>2
<1>8. ASSUME NEW r \in Q PROVE pending'[r] = <<>>
  <2>1. CASE r \in S
    <3>1. r \in Reqs /\ Len(events) = 0 /\ Len(pending[r]) = 0 BY <2>1
    <3>2. Len(pending'[r]) <= Len(pending[r]) + Len(events) BY <1>1, <2>1, <3>1
    <3>3. Len(pending'[r]) = 0 BY <1>5, <3>1, <3>2
    <3> QED BY <1>5, <3>1, <3>3, EmptySeq
  <2>2. CASE r \notin S BY <1>1, <2>2
  <2> QED BY <2>1, <2>2
<1> QED BY <1>1, <1>4, <1>7, <1>8 DEF Streaming

(* A finalized request owes its last events and STOP; it is the only one   *)
(* whose stream changes.                                                   *)
LEMMA FinalizedStreams ==
  ASSUME Streaming, gen \in [Reqs -> Nat], NEW r \in Reqs, r \notin resolved,
         NEW events \in {<<>>, <<gen[r] + 1>>}, Finalize(r, events),
         gen' = IF events = <<>> THEN gen ELSE [gen EXCEPT ![r] = gen[r] + 1],
         events # <<>> => pending[r] = <<>>,
         NEW Q, \A q \in Q : q \in Reqs /\ q # r /\ pending[q] = <<>>
  PROVE  Streaming' /\ \A q \in Q : pending'[q] = <<>>
<1> DEFINE all == Append(events, STOP)
<1>1. gen[r] \in Nat OBVIOUS
<1>2. /\ all \in Seq(Nat) /\ Len(all) = IF events = <<>> THEN 1 ELSE 2
      /\ Deliver({r}, all) /\ resolved' = resolved \cup {r}
  <2>1. Deliver({r}, all) /\ resolved' = resolved \cup {r} BY DEF Finalize
  <2>2. \A n \in Nat : /\ Append(<<>>, STOP) \in Seq(Nat) /\ Append(<<n>>, STOP) \in Seq(Nat)
                       /\ Len(Append(<<>>, STOP)) = 1 /\ Len(Append(<<n>>, STOP)) = 2
    BY DEF STOP
  <2>3. gen[r] + 1 \in Nat /\ <<gen[r] + 1>> # <<>> BY <1>1
  <2> QED BY <2>1, <2>2, <2>3
<1>3. Owed(r)' = Owed(r) \o all
  <2>1. Owed(r) = Counted(gen[r]) /\ Owed(r)' = Append(Counted(gen'[r]), STOP) BY <1>2 DEF Owed
  <2>2. CASE events = <<>>
    <3>1. gen'[r] = gen[r] /\ all = Append(<<>>, STOP) BY <2>2
    <3> QED BY <1>1, <2>1, <3>1, CountedGrows
  <2>3. CASE events # <<>>
    <3>1. gen'[r] = gen[r] + 1 /\ all = Append(<<gen[r] + 1>>, STOP) BY <1>1, <2>3
    <3> QED BY <1>1, <2>1, <3>1, CountedGrows
  <2> QED BY <2>2, <2>3
<1> HIDE DEF all
<1>4. \A q \in Reqs : q # r => Owed(q)' = Owed(q) BY <1>1, <1>2 DEF Owed
<1>5. Len(pending[r]) + Len(all) <= 2
  <2>1. Len(pending[r]) \in Nat /\ Len(pending[r]) <= 1
    BY LenProperties DEF Streaming, StreamType, BacklogBounded
  <2>2. events # <<>> => Len(pending[r]) = 0 BY EmptySeq
  <2>3. Len(all) = IF events = <<>> THEN 1 ELSE 2 BY <1>2
  <2>4. CASE events = <<>>
    <3>1. Len(all) = 1 BY <2>3, <2>4
    <3> QED BY <2>1, <3>1
  <2>5. CASE events # <<>>
    <3>1. Len(all) = 2 /\ Len(pending[r]) = 0 BY <2>2, <2>3, <2>5
    <3> QED BY <3>1
  <2> QED BY <2>4, <2>5
<1>6. \A q \in Reqs : Owed(q)' = IF q \in {r} THEN Owed(q) \o all ELSE Owed(q) BY <1>3, <1>4
<1>7. \A q \in Reqs : IF q \in {r}
        THEN Len(pending[q]) + Len(all) <= (IF q \in resolved' THEN 2 ELSE 1)
        ELSE q \in resolved => q \in resolved'
  BY <1>2, <1>5
<1>8. \A q \in Q : q \in Reqs /\ pending[q] = <<>> /\ (q \in {r} => all = <<>>) OBVIOUS
<1> QED BY <1>2, <1>6, <1>7, <1>8, Published

(* The two ways to finalize: without events ...                            *)
LEMMA FinalizedEmpty ==
  ASSUME Streaming, gen \in [Reqs -> Nat], NEW r \in Reqs, r \notin resolved,
         Finalize(r, <<>>), gen' = gen,
         NEW Q, \A q \in Q : q \in Reqs /\ q # r /\ pending[q] = <<>>
  PROVE  Streaming' /\ \A q \in Q : pending'[q] = <<>>
<1> HIDE DEF Streaming
<1> QED BY FinalizedStreams

(* ... and with the last token.                                            *)
LEMMA FinalizedToken ==
  ASSUME Streaming, gen \in [Reqs -> Nat], NEW r \in Reqs, r \notin resolved,
         Finalize(r, <<gen[r] + 1>>), gen' = [gen EXCEPT ![r] = gen[r] + 1], pending[r] = <<>>,
         NEW Q, \A q \in Q : q \in Reqs /\ q # r /\ pending[q] = <<>>
  PROVE  Streaming' /\ \A q \in Q : pending'[q] = <<>>
<1>1. <<gen[r] + 1>> # <<>> /\ <<gen[r] + 1>> \in {<<>>, <<gen[r] + 1>>} OBVIOUS
<1> HIDE DEF Streaming
<1> QED BY <1>1, FinalizedStreams

(* A token that is not the last.                                           *)
LEMMA EmittedStreams ==
  ASSUME Streaming, gen \in [Reqs -> Nat], NEW r \in Reqs, r \notin resolved, resolved' = resolved,
         Deliver({r}, <<gen[r] + 1>>), gen' = [gen EXCEPT ![r] = gen[r] + 1], pending[r] = <<>>,
         NEW Q, \A q \in Q : q \in Reqs /\ q # r /\ pending[q] = <<>>
  PROVE  Streaming' /\ \A q \in Q : pending'[q] = <<>>
<1> DEFINE e == <<gen[r] + 1>>
<1>1. gen[r] \in Nat OBVIOUS
<1>2. e \in Seq(Nat) /\ Len(e) = 1 /\ Deliver({r}, e) BY <1>1
<1>3. Owed(r)' = Owed(r) \o e
  <2>1. Owed(r) = Counted(gen[r]) /\ Owed(r)' = Counted(gen[r] + 1) BY <1>1 DEF Owed
  <2> QED BY <1>1, <2>1, CountedGrows
<1>4. \A q \in Reqs : q # r => Owed(q)' = Owed(q) BY <1>1 DEF Owed
<1> HIDE DEF e
<1>5. Len(pending[r]) + Len(e) <= 1
  <2>1. Len(pending[r]) = 0 BY EmptySeq
  <2> QED BY <1>2, <2>1
<1>6. \A q \in Reqs : Owed(q)' = IF q \in {r} THEN Owed(q) \o e ELSE Owed(q) BY <1>3, <1>4
<1>7. \A q \in Reqs : IF q \in {r}
        THEN Len(pending[q]) + Len(e) <= (IF q \in resolved' THEN 2 ELSE 1)
        ELSE q \in resolved => q \in resolved'
  BY <1>5
<1>8. \A q \in Q : q \in Reqs /\ pending[q] = <<>> /\ (q \in {r} => e = <<>>) OBVIOUS
<1> QED BY <1>2, <1>6, <1>7, <1>8, Published

(* Draining moves events and publishes none.                               *)
LEMMA DrainedStreams ==
  ASSUME Streaming, gen \in [Reqs -> Nat], NEW S, Deliver(S, <<>>), UNCHANGED <<gen, resolved>>,
         NEW Q, \A q \in Q : q \in Reqs /\ pending[q] = <<>>
  PROVE  Streaming' /\ \A q \in Q : pending'[q] = <<>>
<1>1. \A r \in Reqs : Owed(r)' = Owed(r) /\ Owed(r) \o <<>> = Owed(r)
  <2> SUFFICES ASSUME NEW r \in Reqs PROVE Owed(r)' = Owed(r) /\ Owed(r) \o <<>> = Owed(r)
    OBVIOUS
  <2>1. Counted(gen[r]) \in Seq(Nat) BY CountedGrows
  <2>2. Owed(r) \in Seq(Nat) BY <2>1 DEF Owed, STOP
  <2>3. Owed(r) \o <<>> = Owed(r) BY <2>2, ConcatEmptySeq
  <2> QED BY <2>3 DEF Owed
<1>2. \A r \in Reqs : Len(pending[r]) + 0 <= IF r \in resolved' THEN 2 ELSE 1
  <2> SUFFICES ASSUME NEW r \in Reqs PROVE Len(pending[r]) + 0 <= IF r \in resolved' THEN 2 ELSE 1
    OBVIOUS
  <2>1. Len(pending[r]) \in Nat BY LenProperties DEF Streaming, StreamType
  <2>2. Len(pending[r]) <= IF r \in resolved THEN 2 ELSE 1 BY DEF Streaming, BacklogBounded
  <2> QED BY <2>1, <2>2
<1> DEFINE none == <<>>
<1>3. none \in Seq(Nat) /\ Deliver(S, none) /\ Len(none) = 0 OBVIOUS
<1>4. \A r \in Reqs : Owed(r)' = IF r \in S THEN Owed(r) \o none ELSE Owed(r) BY <1>1
<1>5. \A q \in Q : q \in Reqs /\ pending[q] = <<>> /\ (q \in S => none = <<>>) OBVIOUS
<1> HIDE DEF none
<1>6. \A r \in Reqs : IF r \in S
        THEN Len(pending[r]) + Len(none) <= (IF r \in resolved' THEN 2 ELSE 1)
        ELSE r \in resolved => r \in resolved'
  BY <1>2, <1>3
<1> QED BY <1>3, <1>4, <1>5, <1>6, Published

(* The consumer takes one event: what it has grows by what the queue loses. *)
LEMMA ConsumedStreams ==
  ASSUME Streaming, NEW r \in Reqs, BaseConsume(r)
  PROVE  Streaming'
<1>1. /\ got \in [Reqs -> Seq(Nat)] /\ outq \in [Reqs -> Seq(Nat)] /\ pending \in [Reqs -> Seq(Nat)]
      /\ \A q \in Reqs : Len(outq[q]) <= StreamCapacity
  BY DEF Streaming, StreamType
<1>2. /\ outq[r] # <<>>
      /\ got' = [got EXCEPT ![r] = Append(@, Head(outq[r]))]
      /\ outq' = [outq EXCEPT ![r] = Tail(@)]
      /\ UNCHANGED <<gen, resolved, pending, stalled>>
  BY DEF BaseConsume, request
<1> DEFINE g == got[r]
           q == outq[r]
           p == pending[r]
           h == Head(q)
           t == Tail(q)
<1>3. /\ g \in Seq(Nat) /\ q \in Seq(Nat) /\ p \in Seq(Nat) /\ q # <<>>
      /\ got'[r] = Append(g, h) /\ outq'[r] = t
      /\ Len(q) <= StreamCapacity
  BY <1>1, <1>2
<1>4. \A x \in Reqs \ {r} : got'[x] = got[x] /\ outq'[x] = outq[x]
  BY <1>1, <1>2
<1> HIDE DEF g, q, p
<1>5. h \in Nat /\ t \in Seq(Nat) /\ Len(t) = Len(q) - 1
  BY <1>3, HeadTailProperties
<1>6. q = <<h>> \o t
  <2>1. <<h>> \in Seq(Nat) /\ Len(<<h>> \o t) = 1 + Len(t) /\ <<h>> \o t \in Seq(Nat)
    BY <1>5
  <2>2. Len(q) \in Nat /\ Len(q) > 0
    BY <1>3, LenProperties, EmptySeq
  <2>3. \A i \in 1 .. Len(q) : (<<h>> \o t)[i] = q[i]
    <3> SUFFICES ASSUME NEW i \in 1 .. Len(q) PROVE (<<h>> \o t)[i] = q[i]
      OBVIOUS
    <3>1. CASE i = 1
      BY <1>3, <1>5, <3>1
    <3>2. CASE i # 1
      <4>1. i - 1 \in 1 .. Len(t) /\ (i - 1) + 1 = i
        BY <1>5, <2>2, <3>2
      <4>2. t[i - 1] = q[(i - 1) + 1]
        BY <1>3, <4>1, HeadTailProperties
      <4> QED BY <1>5, <2>1, <3>2, <4>1, <4>2
    <3> QED BY <3>1, <3>2
  <2>4. Len(<<h>> \o t) = Len(q)
    BY <1>5, <2>1, <2>2
  <2> QED BY <1>3, <2>1, <2>3, <2>4, SeqEqual
<1>7. Append(g, h) = g \o <<h>> /\ Append(g, h) \in Seq(Nat)
  BY <1>3, <1>5, AppendIsConcat
<1> HIDE DEF h, t
<1>8. (Append(g, h) \o t) \o p = (g \o q) \o p
  <2>1. <<h>> \in Seq(Nat)
    BY <1>5
  <2>2. Cat(Cat(g, <<h>>), t) = Cat(g, Cat(<<h>>, t))
    BY <1>3, <1>5, <2>1, CatAssociative
  <2> QED BY <1>6, <1>7, <2>2 DEF Cat
<1>9. \A x \in Reqs : History(x)' = History(x)
  <2> SUFFICES ASSUME NEW x \in Reqs PROVE History(x)' = History(x)
    OBVIOUS
  <2>1. CASE x = r
    BY <1>2, <1>3, <1>8, <2>1 DEF History, g, q, p
  <2>2. CASE x # r
    BY <1>2, <1>4, <2>2 DEF History
  <2> QED BY <2>1, <2>2
<1>10. StreamExact' /\ BacklogBounded'
  BY <1>2, <1>9 DEF Streaming, StreamExact, BacklogBounded, History
<1>11. got' \in [Reqs -> Seq(Nat)] /\ outq' \in [Reqs -> Seq(Nat)]
  BY <1>1, <1>2, <1>3, <1>5, <1>7 DEF g
<1>12. \A x \in Reqs : Len(outq'[x]) <= StreamCapacity
  <2> SUFFICES ASSUME NEW x \in Reqs PROVE Len(outq'[x]) <= StreamCapacity
    OBVIOUS
  <2>1. CASE x = r
    <3>1. Len(q) \in Nat /\ StreamCapacity \in Nat
      BY <1>3, LenProperties, ConfigAssumption
    <3> QED BY <1>3, <1>5, <2>1, <3>1
  <2>2. CASE x # r
    BY <1>1, <1>4, <2>2
  <2> QED BY <2>1, <2>2
<1>13. StreamType' BY <1>2, <1>11, <1>12 DEF Streaming, StreamType
<1> QED BY <1>10, <1>13 DEF Streaming

(* Time passes for a slow consumer.                                        *)
LEMMA StalledStreams ==
  ASSUME Streaming, NEW r \in Reqs, BaseStallTimeout(r)
  PROVE  Streaming'
BY DEF Streaming, StreamType, StreamExact, BacklogBounded, BaseStallTimeout, request

(* A step that leaves the streams alone.                                   *)
LEMMA Untouched ==
  ASSUME Streaming, UNCHANGED streams, UNCHANGED <<gen, resolved>>
  PROVE  Streaming'
BY DEF Streaming, StreamType, StreamExact, BacklogBounded, streams

(* Before anything is published.                                           *)
LEMMA StreamsStart == ASSUME BaseInit PROVE Streaming
<1>1. /\ outq = [r \in Reqs |-> <<>>] /\ pending = [r \in Reqs |-> <<>>]
      /\ got = [r \in Reqs |-> <<>>] /\ stalled = [r \in Reqs |-> "no"]
      /\ resolved = {} /\ gen = [r \in Reqs |-> 0]
  BY DEF BaseInit
<1>2. StreamType BY <1>1, ConfigAssumption DEF StreamType
<1>3. Counted(0) = <<>> BY CountedGrows, EmptySeq DEF Counted
<1>4. StreamExact BY <1>1, <1>3 DEF StreamExact
<1>5. BacklogBounded BY <1>1 DEF BacklogBounded
<1> QED BY <1>2, <1>4, <1>5 DEF Streaming

-----------------------------------------------------------------------------
(* The refinement of RequestLifecycle. Every step of either loop, of       *)
(* whichever task, does one of six things to one request, or nothing to    *)
(* any; what it does to the streams follows, since they are what is owed   *)
(* (StreamExact).                                                          *)

Computed == {"PREFILL", "DECODING"}

\* A request that has ended and is not resolved has been cancelled in flight.
OnlyMarked == \A r \in Reqs : is_terminal(r) /\ r \notin resolved => state[r] = "CANCELLED"

Quiet == UNCHANGED <<state, gen, resolved>>

\* The changes of state by which nothing is published.
Moves == {<<"new", "WAITING">>, <<"WAITING", "PREFILL">>}
           \cup (Computed \X {"WAITING", "CANCELLED"})

Shifts(r) ==
  \E s \in States : /\ <<state[r], s>> \in Moves
                    /\ state' = [state EXCEPT ![r] = s] /\ UNCHANGED <<gen, resolved>>

Emits(r) ==
  /\ state[r] \in Computed /\ r \notin resolved
  /\ state' = [state EXCEPT ![r] = "DECODING"]
  /\ gen' = [gen EXCEPT ![r] = gen[r] + 1] /\ UNCHANGED resolved

Completes(r) ==
  /\ state[r] \in Computed /\ r \notin resolved
  /\ state' = [state EXCEPT ![r] = "COMPLETED"]
  /\ gen' = [gen EXCEPT ![r] = gen[r] + 1] /\ resolved' = resolved \cup {r}

Ends(r) ==
  /\ r \notin resolved
  /\ \E t \in {"TIMED_OUT", "FAILED", "CANCELLED"} :
       /\ state[r] = "WAITING" \/ (state[r] \in Computed /\ t # "TIMED_OUT")
       /\ state' = [state EXCEPT ![r] = t]
  /\ gen' = gen /\ resolved' = resolved \cup {r}

ClosesMarked(r) ==
  /\ r \notin resolved /\ state[r] = "CANCELLED"
  /\ UNCHANGED <<state, gen>> /\ resolved' = resolved \cup {r}

Change(r) == Shifts(r) \/ Emits(r) \/ Completes(r) \/ Ends(r) \/ ClosesMarked(r)

LEMMA MarkedKept ==
  ASSUME state \in [Reqs -> States], OnlyMarked, Quiet \/ \E r \in Reqs : Change(r)
  PROVE  OnlyMarked'
<1>1. CASE Quiet BY <1>1 DEF Quiet, OnlyMarked, is_terminal
<1>2. ASSUME NEW r \in Reqs, Change(r) PROVE OnlyMarked'
  BY <1>2 DEF OnlyMarked, is_terminal, Terminal, Change, Shifts, Moves, Emits, Completes,
             Ends, ClosesMarked, Computed
<1> QED BY <1>1, <1>2

(* What End does to a live request without a last token.                   *)
LEMMA EndsIt ==
  ASSUME NEW r \in Reqs, r \notin resolved, NEW t \in {"TIMED_OUT", "FAILED", "CANCELLED"},
         state[r] = "WAITING" \/ (state[r] \in Computed /\ t # "TIMED_OUT"),
         End(r, t, <<>>), gen' = gen
  PROVE  Change(r)
BY DEF Change, Ends, End, Finalize

\* A change is a step of the promise.
LEMMA ChangeIsStep ==
  ASSUME gen \in [Reqs -> Nat], state \in [Reqs -> States], Streaming, Streaming',
         NEW r \in Reqs, Change(r)
  PROVE  Lifecycle!Next
<1> DEFINE str == [q \in Reqs |-> History(q)]
<1>1. \A q \in Reqs : History(q) = Owed(q) BY StreamOwed
<1>2. \A q \in Reqs : History(q)' = Owed(q)'
  BY DEF Streaming, StreamExact, History, Owed
<1>3. gen \in [Reqs -> Nat] /\ state \in [Reqs -> States] OBVIOUS
<1>4. ASSUME UNCHANGED <<gen, resolved>> PROVE str' = str
  BY <1>1, <1>2, <1>4 DEF Owed
<1>5. CASE Shifts(r)
  <2>1. PICK s : /\ <<state[r], s>> \in Moves
                 /\ state' = [state EXCEPT ![r] = s] /\ UNCHANGED <<gen, resolved>>
    BY <1>5 DEF Shifts
  <2>2. str' = str BY <1>4, <2>1
  <2>3. Lifecycle!Submit(r) \/ Lifecycle!Admit(r) \/ Lifecycle!Preempt(r) \/ Lifecycle!Mark(r)
    BY <2>1, <2>2 DEF Moves, Computed, Lifecycle!Submit, Lifecycle!Admit, Lifecycle!Preempt,
         Lifecycle!Mark, Lifecycle!Goto, Lifecycle!Admitted, History
  <2> QED BY <2>3 DEF Lifecycle!Next
<1>6. CASE Emits(r)
  <2>1. /\ \A q \in Reqs \ {r} : History(q)' = History(q)
        /\ History(r) = Counted(gen[r]) /\ History(r)' = Counted(gen[r] + 1)
    BY <1>1, <1>2, <1>3, <1>6 DEF Emits, Owed
  <2>2. History(r)' = Append(History(r), Len(History(r)) + 1)
    <3>1. Len(Counted(gen[r])) = gen[r] /\ Counted(gen[r]) \in Seq(Nat)
      BY <1>3, CountedGrows DEF Counted
    <3>2. Counted(gen[r]) \o <<gen[r] + 1>> = Append(Counted(gen[r]), gen[r] + 1)
      BY <1>3, <3>1, AppendIsConcat
    <3> QED BY <1>3, <2>1, <3>1, <3>2, CountedGrows
  <2>3. str' = [str EXCEPT ![r] = Append(@, Len(str[r]) + 1)] BY <2>1, <2>2
  <2>4. Lifecycle!Emit(r)
    BY <1>6, <2>3 DEF Emits, Computed, Lifecycle!Emit, Lifecycle!Goto, Lifecycle!Admitted,
         Lifecycle!NextToken, History
  <2> QED BY <2>4 DEF Lifecycle!Next
<1>7. CASE Completes(r)
  <2>1. /\ \A q \in Reqs \ {r} : History(q)' = History(q)
        /\ History(r) = Counted(gen[r]) /\ History(r)' = Append(Counted(gen[r] + 1), STOP)
    BY <1>1, <1>2, <1>3, <1>7 DEF Completes, Owed
  <2>2. History(r)' = Append(History(r) \o <<Len(History(r)) + 1>>, STOP)
    <3>1. Len(Counted(gen[r])) = gen[r] BY <1>3 DEF Counted
    <3> QED BY <1>3, <2>1, <3>1, CountedGrows
  <2>3. str' = [str EXCEPT ![r] = Append(@ \o <<Len(str[r]) + 1>>, STOP)] BY <2>1, <2>2
  <2>4. Lifecycle!Complete(r)
    BY <1>7, <2>3 DEF Completes, Computed, Lifecycle!Complete, Lifecycle!Goto, Lifecycle!Admitted,
         Lifecycle!NextToken, Lifecycle!Close, Lifecycle!STOP, STOP, History
  <2> QED BY <2>4 DEF Lifecycle!Next
<1>8. CASE Ends(r) \/ ClosesMarked(r)
  <2>1. r \notin resolved /\ gen' = gen /\ resolved' = resolved \cup {r}
    BY <1>8 DEF Ends, ClosesMarked
  <2>2. /\ \A q \in Reqs \ {r} : History(q)' = History(q)
        /\ History(r) = Counted(gen[r]) /\ History(r)' = Append(Counted(gen[r]), STOP)
    BY <1>1, <1>2, <2>1 DEF Owed
  <2>3. History(r)' = Append(History(r) \o <<>>, STOP) BY <1>3, <2>2, CountedGrows
  <2>4. str' = [str EXCEPT ![r] = Append(@ \o <<>>, STOP)] BY <2>2, <2>3
  <2>5. Lifecycle!Close(r, <<>>) BY <2>1, <2>4 DEF Lifecycle!Close, Lifecycle!STOP, STOP, History
  <2>6. Lifecycle!TimeOut(r) \/ Lifecycle!Fail(r) \/ Lifecycle!Cancel(r) \/ Lifecycle!CloseMarked(r)
    BY <1>8, <2>5 DEF Ends, ClosesMarked, Computed, Lifecycle!TimeOut, Lifecycle!Fail, Lifecycle!Cancel,
         Lifecycle!CloseMarked, Lifecycle!Goto, Lifecycle!Live, Lifecycle!Admitted
  <2> QED BY <2>6 DEF Lifecycle!Next
<1> QED BY <1>5, <1>6, <1>7, <1>8 DEF Change

(* A quiet step changes nothing the promise is about.                      *)
LEMMA QuietIsStutter ==
  ASSUME Streaming, Streaming', Quiet
  PROVE  UNCHANGED Lifecycle!vars
<1>1. \A r \in Reqs : History(r)' = History(r)
  BY DEF Streaming, StreamExact, History, Quiet
<1>2. [r \in Reqs |-> History(r)]' = [r \in Reqs |-> History(r)] BY <1>1
<1> QED BY <1>2 DEF Quiet, Lifecycle!vars, History

(* The promise starts where the scheduler starts.                          *)
LEMMA LifecycleStarts == ASSUME BaseInit PROVE OnlyMarked /\ Lifecycle!Init
<1>1. OnlyMarked BY DEF BaseInit, OnlyMarked, is_terminal, Terminal
<1>2. /\ state = [r \in Reqs |-> "new"] /\ resolved = {} /\ gen = [r \in Reqs |-> 0]
  BY DEF BaseInit
<1>3. [r \in Reqs |-> History(r)] = [r \in Reqs |-> <<>>]
  <2>1. \A r \in Reqs : History(r) = Counted(0) BY <1>2, StreamsStart, StreamOwed DEF Owed
  <2>2. Counted(0) = <<>> BY CountedGrows, EmptySeq DEF Counted
  <2> QED BY <2>1, <2>2
<1> QED BY <1>1, <1>2, <1>3 DEF Lifecycle!Init, History
=============================================================================
