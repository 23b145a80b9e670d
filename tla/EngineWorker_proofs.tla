-------------------------- MODULE EngineWorker_proofs --------------------------
(***************************************************************************)
(* The worker's views for any requests and blocks, any plan and any number *)
(* of plans.  First the two threads over the blocks: every place where a   *)
(* block can be is named, and no step of either thread, wherever the other *)
(* is, puts a block in two of them.  Then the forward pass of the serial   *)
(* modes: the slots of a request are its own, and up to its length they    *)
(* hold its own tokens, through pages that are handed on, a replay that    *)
(* borrows and gives back, and a step that fails behind the forward.  Last *)
(* the forward pass of the ragged engine: the blocks of a table are its    *)
(* own, and up to where a request was fed they hold its own tokens; a      *)
(* recursion of the model is followed item by item, what it has made of    *)
(* the first n being the induction.                                        *)
(***************************************************************************)
EXTENDS EngineWorker, FiniteSetTheorems, SequenceTheorems, NaturalsInduction, WellFoundedInduction, TLAPS

\* The locals of a thread, and where each can be.
Fields == {"at", "back", "req", "key", "needed", "giving", "hand", "granted", "cached"}

WorkerPlaces == {"idle", "evict", "oldest", "pop", "give", "check", "allocate", "take", "own",
                 "extend", "grown", "failed", "full"}
LoopPlaces == {"idle", "lookup", "move", "sum", "trim", "popitem", "evict", "oldest", "pop", "give",
               "check", "allocate", "take", "own", "insert", "scan", "scanning", "drop"}

\* The event loop frees what the request it releases owns.
Dropping == At("loop", "drop") \/ (At("loop", "give") /\ th["loop"].back = "drop")
\* The worker gives back what it had taken for a plan it cannot grow.
Returning == At("worker", "give") /\ th["worker"].back \in {"failed", "full"}

\* The blocks the worker has taken for each growth of its plan so far.
Granted == th["worker"].granted

(* Where each thread can be, and what it holds there.                                  *)
ThreadPlaces ==
    /\ DOMAIN th = Threads /\ \A t \in Threads : DOMAIN th[t] = Fields
    /\ th["worker"].at \in WorkerPlaces /\ th["loop"].at \in LoopPlaces
    /\ \A t \in Threads : th[t].giving # {} => At(t, "give")
    /\ \A t \in Threads : th[t].hand # {} => th[t].at \in {"take", "own", "insert"}
    /\ At("worker", "give") => th["worker"].back \in {"evict", "failed", "full"}
    /\ At("loop", "give") => th["loop"].back \in {"evict", "trim", "drop"}
    /\ Granted # << >> => th["worker"].at \in {"allocate", "take", "own", "extend", "grown"}

(* The requests the threads are about: a plan's have tables and are not released while *)
(* it is executed.                                                                     *)
PlansApart ==
    /\ DOMAIN table \subseteq Reqs /\ IsFiniteSet(DOMAIN table)
    /\ Len(plan) \in Nat /\ DOMAIN plan = 1..Len(plan)
    /\ \A i \in DOMAIN plan : plan[i].req \in DOMAIN table
    /\ Granted \in Seq(SUBSET Blocks)
    /\ Len(Granted) <= Len(plan)
    /\ th["worker"].at \in {"take", "own"} => Len(Granted) < Len(plan)
    /\ At("worker", "extend") => Len(Granted) = Len(plan)
    /\ Idle("worker") => plan = << >>
    /\ IF Idle("loop") THEN Releasing = "none" ELSE Releasing \in DOMAIN table \ Planned

(* Free, in a hand, or owned; and only what is owned is being given back, by one of    *)
(* the threads.                                                                        *)
Hand(t) == IF At(t, "insert") THEN {} ELSE th[t].hand
BlocksApart ==
    /\ free \cup DOMAIN owner \subseteq Blocks /\ \A t \in Threads : th[t].hand \subseteq Blocks
    /\ free \cap DOMAIN owner = {}
    /\ \A t \in Threads : Hand(t) \cap (free \cup DOMAIN owner) = {}
    /\ Hand("worker") \cap Hand("loop") = {}
    /\ \A b \in DOMAIN owner : owner[b] \in Reqs \cup {Cached}
    /\ \A t \in Threads : th[t].giving \subseteq DOMAIN owner
    /\ th["worker"].giving \cap th["loop"].giving = {}

(* The blocks of the entries, of the entry about to be inserted and of those evicted.  *)
EntriesApart ==
    /\ prefixes \in Seq([key : Reqs, blocks : SUBSET Blocks])
    /\ \A i \in DOMAIN prefixes : prefixes[i].blocks \subseteq OwnedBy(Cached)
    /\ \A i, j \in DOMAIN prefixes : i # j => prefixes[i].blocks \cap prefixes[j].blocks = {}
    /\ \A i \in DOMAIN prefixes, t \in Threads : prefixes[i].blocks \cap th[t].giving = {}
    /\ At("loop", "insert") =>
         /\ th["loop"].hand \subseteq OwnedBy(Cached) \ th["worker"].giving
         /\ \A i \in DOMAIN prefixes : prefixes[i].blocks \cap th["loop"].hand = {}
    /\ ~Returning => th["worker"].giving \subseteq OwnedBy(Cached)
    /\ ~Dropping => th["loop"].giving \subseteq OwnedBy(Cached)

(* What a request owns: the blocks of its table, what has been allocated for it and    *)
(* not yet entered there, and what is being given back.                                *)
TablesApart ==
    /\ \A r \in DOMAIN table : ~(Dropping /\ r = Releasing) =>
         table[r] \subseteq OwnedBy(r) \ th["worker"].giving
    /\ \A i \in DOMAIN Granted :
         /\ Granted[i] \subseteq OwnedBy(plan[i].req)
         /\ IF At("worker", "grown") THEN Granted[i] \subseteq table[plan[i].req]
                                     ELSE Granted[i] \cap table[plan[i].req] = {}
    /\ Returning => \A b \in th["worker"].giving : owner[b] \in Planned
    /\ Dropping => th["loop"].giving = OwnedBy(Releasing)
    /\ \A b \in DOMAIN owner : owner[b] \in Reqs =>
         /\ owner[b] \in DOMAIN table
         /\ \/ b \in table[owner[b]]
            \/ \E i \in DOMAIN Granted : plan[i].req = owner[b] /\ b \in Granted[i]
            \/ Returning /\ b \in th["worker"].giving
            \/ Dropping /\ owner[b] = Releasing

\* The inductive invariant of the two threads.
ThreadsInv == ThreadPlaces /\ PlansApart /\ BlocksApart /\ EntriesApart /\ TablesApart

\* The locals that say what blocks a thread is about.
Holds(t) == <<th[t].back, th[t].req, th[t].giving, th[t].hand, th[t].granted>>

\* A thread goes on at another place, with what it holds.
Moves(t, p) ==
    /\ DOMAIN th' = Threads /\ \A u \in Threads : DOMAIN th'[u] = Fields
    /\ \A u \in Threads : UNCHANGED Holds(u) /\ (u # t => UNCHANGED th[u].at)
    /\ th'[t].at = p

\* Places where nothing is decided about the blocks a thread holds.
Quiet == {"lookup", "move", "sum", "trim", "popitem", "evict", "oldest", "pop", "check",
          "allocate", "take", "own", "extend", "scan", "scanning"}

\* It holds at the start.
LEMMA ThreadsStart == ASSUME ThreadsInit PROVE ThreadsInv
<1> USE DEF ThreadsInit, AtRest, Threads, At, Idle, OwnedBy, Granted, Releasing, Planned
<1>1. ThreadPlaces BY DEF ThreadPlaces, Fields, WorkerPlaces, LoopPlaces
<1>2. PlansApart
  <2>1. DOMAIN table = {} /\ IsFiniteSet(DOMAIN table) BY FS_EmptySet
  <2>2. Granted = << >> /\ << >> \in Seq(SUBSET Blocks) /\ Len(<< >>) = 0
    OBVIOUS
  <2>3. Releasing = "none" /\ th["worker"].at = "idle" /\ th["loop"].at = "idle" OBVIOUS
  <2> HIDE DEF Granted, Releasing
  <2> QED BY <2>1, <2>2, <2>3 DEF PlansApart
<1>3. BlocksApart BY DEF BlocksApart, Hand
<1>4. EntriesApart BY DEF EntriesApart, Returning, Dropping
<1>5. TablesApart BY DEF TablesApart, Returning, Dropping
<1> QED BY <1>1, <1>2, <1>3, <1>4, <1>5 DEF ThreadsInv

(* Nobody releases what is in the plan, and no name of a request stands for something  *)
(* else.                                                                               *)
LEMMA PlannedApart ==
  ASSUME PlansApart
  PROVE  /\ Planned \subseteq DOMAIN table \ {Releasing}
         /\ DOMAIN table \subseteq Reqs /\ Cached \notin DOMAIN table
         /\ Cached \notin Planned
<1>1. DOMAIN table \subseteq Reqs BY DEF PlansApart
<1>2. \A i \in DOMAIN plan : plan[i].req \in DOMAIN table BY DEF PlansApart
<1>3. Planned \subseteq DOMAIN table BY <1>2 DEF Planned
<1>4. Releasing \notin Planned
  BY <1>1, <1>3, ThreadsAssumption DEF PlansApart
<1> QED BY <1>1, <1>3, <1>4, ThreadsAssumption

(* A step that only moves a thread, from a place to a place where no block changes     *)
(* hands.                                                                              *)
LEMMA MoveKeeps ==
  ASSUME ThreadsInv, NEW t \in Threads, NEW p \in Quiet \cup {"full"}, Moves(t, p),
         th[t].at \in Quiet, p \in IF t = "worker" THEN WorkerPlaces ELSE LoopPlaces,
         th[t].hand # {} => p \in {"take", "own", "insert"},
         t = "worker" => /\ Granted # << >> => p \in {"allocate", "take", "own", "extend"}
                         /\ p \in {"take", "own"} => Len(Granted) < Len(plan)
                         /\ p = "extend" => Len(Granted) = Len(plan),
         UNCHANGED <<free, owner, table, prefixes, plan>>
  PROVE  ThreadsInv'
<1> USE DEF ThreadsInv, Threads, At, Idle, Moves, Holds, Quiet
<1>1. ThreadPlaces'
  BY DEF ThreadPlaces, WorkerPlaces, LoopPlaces, Granted
<1>2. PlansApart'
  BY DEF PlansApart, Granted, Releasing, Planned
<1>3. BlocksApart' BY DEF BlocksApart, Hand
<1>4. EntriesApart'
  BY DEF EntriesApart, Dropping, Returning, OwnedBy
<1>5. TablesApart'
  BY DEF TablesApart, Dropping, Returning, OwnedBy, Granted, Releasing, Planned
<1> QED BY <1>1, <1>2, <1>3, <1>4, <1>5

(* An exception of the event loop: the release ends, and the table stays as it was.    *)
LEMMA LoopRaises ==
  ASSUME ThreadsInv, Raise("loop", "failed") \/ Raise("loop", "full"), th["loop"].at \in Quiet,
         UNCHANGED <<free, owner, table, prefixes, plan>>
  PROVE  ThreadsInv'
<1> USE DEF ThreadsInv, Threads, At, Idle, Quiet
<1>1. /\ th' = [th EXCEPT !["loop"] = AtRest]
      /\ DOMAIN th = Threads /\ \A t \in Threads : DOMAIN th[t] = Fields
  BY DEF Raise, ThreadPlaces
<1>2. th'["loop"] = AtRest /\ th'["worker"] = th["worker"] /\ DOMAIN th' = Threads
  BY <1>1
<1> HIDE <1>1
<1>3. ThreadPlaces'
  BY <1>2 DEF ThreadPlaces, WorkerPlaces, LoopPlaces, Fields, Granted, AtRest
<1>4. PlansApart'
  BY <1>2 DEF PlansApart, Granted, Releasing, Planned, AtRest
<1>5. BlocksApart' BY <1>2 DEF BlocksApart, Hand, AtRest
<1>6. EntriesApart'
  BY <1>2 DEF EntriesApart, Dropping, Returning, OwnedBy, AtRest
<1>7. TablesApart'
  BY <1>2 DEF TablesApart, Dropping, Returning, OwnedBy, Granted, Releasing, Planned, AtRest
<1> QED BY <1>3, <1>4, <1>5, <1>6, <1>7

(* An exception of the worker: what was granted is going back, what is in its hand is  *)
(* nobody's.                                                                           *)
LEMMA WorkerRaises ==
  ASSUME ThreadsInv, NEW kind \in {"failed", "full"}, Raise("worker", kind),
         th["worker"].at \in Quiet, UNCHANGED <<free, owner, table, prefixes, plan>>
  PROVE  ThreadsInv'
<1> USE DEF ThreadsInv, Threads, At, Idle, Quiet
<1>1. /\ th' = [th EXCEPT !["worker"] = [AtRest EXCEPT
                    !.at = "give", !.back = kind, !.giving = UNION ToSet(Granted)]]
      /\ DOMAIN th = Threads /\ \A t \in Threads : DOMAIN th[t] = Fields
  BY DEF Raise, ThreadPlaces, Granted
<1>2. /\ th'["loop"] = th["loop"] /\ DOMAIN th' = Threads
      /\ DOMAIN th'["worker"] = Fields
      /\ th'["worker"].at = "give" /\ th'["worker"].back = kind
      /\ th'["worker"].giving = UNION ToSet(Granted)
      /\ th'["worker"].hand = {} /\ th'["worker"].granted = << >>
  BY <1>1 DEF AtRest, Fields
<1> HIDE <1>1
<1>3. \A b \in th'["worker"].giving : \E i \in DOMAIN Granted : b \in Granted[i]
  BY <1>2 DEF ToSet
<1>4. \A i \in DOMAIN Granted : i \in DOMAIN plan /\ plan[i].req \in Planned
  BY DEF PlansApart, Planned
<1>5. \A b \in th'["worker"].giving : b \in DOMAIN owner /\ owner[b] \in Planned
  BY <1>3, <1>4 DEF TablesApart, OwnedBy
<1>6. ThreadPlaces'
  BY <1>2 DEF ThreadPlaces, WorkerPlaces, LoopPlaces, Fields, Granted
<1>7. PlansApart'
  BY <1>2 DEF PlansApart, Granted, Releasing, Planned
<1>8. /\ Planned \subseteq DOMAIN table \ {Releasing}
      /\ Cached \notin Planned /\ DOMAIN table \subseteq Reqs
  BY PlannedApart
<1>9. \A b \in th'["worker"].giving : b \notin th["loop"].giving
  BY <1>5, <1>8 DEF EntriesApart, TablesApart, OwnedBy
<1>10. BlocksApart' BY <1>2, <1>5, <1>9 DEF BlocksApart, Hand
<1>11. EntriesApart'
  <2>1. \A b \in th'["worker"].giving : b \notin OwnedBy(Cached)
    BY <1>5, <1>8 DEF OwnedBy
  <2>2. Returning' /\ (Dropping' <=> Dropping) /\ OwnedBy(Cached)' = OwnedBy(Cached)
    BY <1>2 DEF Returning, Dropping, OwnedBy
  <2>3. \A i \in DOMAIN prefixes : prefixes[i].blocks \subseteq OwnedBy(Cached)
    BY DEF EntriesApart
  <2>4. At("loop", "insert")' => At("loop", "insert") /\ th'["loop"].hand = th["loop"].hand
    BY <1>2
  <2> QED BY <1>2, <2>1, <2>2, <2>3, <2>4 DEF EntriesApart
<1>12. th["worker"].at # "grown" /\ ~Returning /\ Returning' /\ (Dropping' <=> Dropping)
  BY <1>2 DEF Returning, Dropping
<1>13. \A r \in DOMAIN table : ~(Dropping /\ r = Releasing) => table[r] \cap th'["worker"].giving = {}
  <2> SUFFICES ASSUME NEW r \in DOMAIN table, ~(Dropping /\ r = Releasing),
                      NEW b \in th'["worker"].giving, b \in table[r]
               PROVE  FALSE
    OBVIOUS
  <2>1. PICK i \in DOMAIN Granted : b \in Granted[i] BY <1>3
  <2>2. owner[b] = plan[i].req /\ owner[b] = r BY <2>1 DEF TablesApart, OwnedBy
  <2>3. Granted[i] \cap table[plan[i].req] = {} BY <1>12 DEF TablesApart
  <2> QED BY <2>1, <2>2, <2>3
<1>14. \A b \in DOMAIN owner : \A i \in DOMAIN Granted : b \in Granted[i] => b \in th'["worker"].giving
  BY <1>2 DEF ToSet
<1>15. TablesApart'
  <2>1. \A r \in DOMAIN table' : ~(Dropping' /\ r = Releasing') =>
          table'[r] \subseteq (OwnedBy(r) \ th["worker"].giving)'
    BY <1>2, <1>12, <1>13 DEF TablesApart, OwnedBy, Releasing
  <2>2. \A b \in DOMAIN owner : owner[b] \in Reqs =>
         /\ owner[b] \in DOMAIN table
         /\ \/ b \in table[owner[b]]
            \/ b \in th'["worker"].giving
            \/ Dropping /\ owner[b] = Releasing
    BY <1>12, <1>14 DEF TablesApart
  <2>3. DOMAIN Granted' = {} /\ Releasing' = Releasing /\ Planned' = Planned
    BY <1>2 DEF Granted, Releasing, Planned
  <2>4. Dropping' => th'["loop"].giving = OwnedBy(Releasing)'
    BY <1>2, <1>12, <2>3 DEF TablesApart, OwnedBy
  <2> QED BY <1>2, <1>5, <1>12, <2>1, <2>2, <2>3, <2>4 DEF TablesApart
<1> QED BY <1>6, <1>7, <1>10, <1>11, <1>15

\* A growth that raises goes on to give back what it took.
LEMMA RaiseKeeps ==
  ASSUME ThreadsInv, NEW t \in Threads, NEW kind \in {"failed", "full"}, Raise(t, kind),
         th[t].at \in Quiet, UNCHANGED <<free, owner, table, prefixes, plan>>
  PROVE  ThreadsInv'
BY LoopRaises, WorkerRaises DEF Threads

(* Tests, and the steps that begin or end a call (cache.py:293-294, 381-384, 120-124). *)
LEMMA TestsKeep ==
  ASSUME ThreadsInv, NEW t \in Threads, EvictTest(t) \/ EvictOldest(t) \/ Check(t) \/ Allocate(t)
  PROVE  ThreadsInv'
<1> USE DEF At, Goto, pools, requests
<1>1. UNCHANGED <<free, owner, table, prefixes, plan>>
  BY DEF EvictTest, EvictOldest, Check, Allocate
<1>2. /\ th[t].hand = {} /\ th[t].at \in Quiet
      /\ t = "worker" => Granted = << >> \/ th[t].at = "allocate"
      /\ DOMAIN th = Threads /\ \A u \in Threads : DOMAIN th[u] = Fields
  BY DEF ThreadsInv, ThreadPlaces, EvictTest, EvictOldest, Check, Allocate, Quiet
<1>3. CASE EvictTest(t)
  <2>1. PICK p \in {"oldest", "check"} : th' = [th EXCEPT ![t].at = p] BY <1>3 DEF EvictTest
  <2>2. Moves(t, p) BY <2>1, <1>2 DEF Moves, Holds, Threads, Fields
  <2> QED BY <1>1, <1>2, <1>3, <2>2, MoveKeeps DEF EvictTest, Quiet, WorkerPlaces, LoopPlaces
<1>4. CASE EvictOldest(t)
  <2>1. CASE prefixes = << >> BY <1>1, <1>2, <1>4, <2>1, RaiseKeeps DEF EvictOldest
  <2>2. CASE prefixes # << >>
    <3>1. Moves(t, "pop") BY <1>2, <1>4, <2>2 DEF EvictOldest, Moves, Holds, Threads, Fields
    <3> QED BY <1>1, <1>2, <1>4, <3>1, MoveKeeps DEF EvictOldest, Quiet, WorkerPlaces, LoopPlaces
  <2> QED BY <2>1, <2>2
<1>5. CASE Check(t)
  <2>1. PICK p \in {"allocate", "full", "scan"} :
          th' = [th EXCEPT ![t].at = p] /\ (p = "full" => t = "worker") /\ (p = "scan" => t # "worker")
    BY <1>5 DEF Check
  <2>2. Moves(t, p) BY <2>1, <1>2 DEF Moves, Holds, Threads, Fields
  <2> QED BY <1>1, <1>2, <1>5, <2>1, <2>2, MoveKeeps DEF Check, Quiet, WorkerPlaces, LoopPlaces
<1>6. CASE Allocate(t)
  <2>1. CASE t = "worker" /\ Turn(t) > Len(plan)
    <3>1. Moves(t, "extend") BY <1>2, <1>6, <2>1 DEF Allocate, Moves, Holds, Threads, Fields
    <3>2. Len(Granted) = Len(plan) BY <2>1 DEF Turn, Granted, ThreadsInv, PlansApart
    <3> QED BY <1>1, <1>2, <1>6, <2>1, <3>1, <3>2, MoveKeeps DEF Allocate, Quiet, WorkerPlaces
  <2>2. CASE ~(t = "worker" /\ Turn(t) > Len(plan)) /\ Want(t) > Cardinality(free)
    BY <1>1, <1>2, <1>6, <2>2, RaiseKeeps DEF Allocate
  <2>3. CASE ~(t = "worker" /\ Turn(t) > Len(plan)) /\ ~(Want(t) > Cardinality(free))
    <3>1. Moves(t, "take") BY <1>2, <1>6, <2>3 DEF Allocate, Moves, Holds, Threads, Fields
    <3>2. t = "worker" => Len(Granted) < Len(plan)
      BY <2>3 DEF Turn, Granted, ThreadsInv, PlansApart
    <3> QED BY <1>1, <1>2, <1>6, <3>1, <3>2, MoveKeeps DEF Allocate, Quiet, WorkerPlaces, LoopPlaces
  <2> QED BY <2>1, <2>2, <2>3
<1> QED BY <1>3, <1>4, <1>5, <1>6

(* Those of the event loop's release (cache.py:335-341, 145-146).                      *)
LEMMA ReleaseTestsKeep ==
  ASSUME ThreadsInv, StoreLookup \/ StoreSum \/ StoreTrim \/ ScanBegins
  PROVE  ThreadsInv'
<1> USE DEF At, Goto, pools, requests
<1>1. UNCHANGED <<free, owner, table, prefixes, plan>>
  BY DEF StoreLookup, StoreSum, StoreTrim, ScanBegins
<1>2. /\ th["loop"].hand = {} /\ th["loop"].at \in {"lookup", "sum", "trim", "scan"}
      /\ "loop" \in Threads
      /\ DOMAIN th = Threads /\ \A u \in Threads : DOMAIN th[u] = Fields
  BY DEF ThreadsInv, ThreadPlaces, StoreLookup, StoreSum, StoreTrim, ScanBegins, Threads
<1>3. CASE StoreSum /\ Raise("loop", "failed") BY <1>1, <1>2, <1>3, RaiseKeeps DEF Quiet
<1>4. CASE ~(StoreSum /\ Raise("loop", "failed"))
  <2>1. PICK p \in {"move", "sum", "scan", "trim", "popitem", "evict", "scanning"} : Moves("loop", p)
    <3>1. CASE StoreLookup BY <1>2, <3>1 DEF StoreLookup, Moves, Holds, Threads, Fields
    <3>2. CASE StoreSum BY <1>2, <1>4, <3>2 DEF StoreSum, Moves, Holds, Threads, Fields
    <3>3. CASE StoreTrim BY <1>2, <3>3 DEF StoreTrim, Moves, Holds, Threads, Fields
    <3>4. CASE ScanBegins BY <1>2, <3>4 DEF ScanBegins, Moves, Holds, Threads, Fields
    <3> QED BY <3>1, <3>2, <3>3, <3>4
  <2> QED BY <1>1, <1>2, <2>1, MoveKeeps DEF Quiet, LoopPlaces
<1> QED BY <1>3, <1>4

(* A block off the free list, into the hand (cache.py:125).                            *)
LEMMA TakeKeeps == ASSUME ThreadsInv, NEW t \in Threads, Take(t) PROVE ThreadsInv'
<1> USE DEF At, Threads
<1>1. /\ th[t].at = "take" /\ UNCHANGED <<owner, table, prefixes, plan>>
      /\ DOMAIN th = Threads /\ \A u \in Threads : DOMAIN th[u] = Fields
  BY DEF Take, ThreadsInv, ThreadPlaces
<1>2. CASE Cardinality(th[t].hand) = Want(t)
  <2>1. Moves(t, "own") BY <1>1, <1>2 DEF Take, Goto, Moves, Holds, Fields
  <2>2. t = "worker" => Len(Granted) < Len(plan) BY <1>1 DEF ThreadsInv, PlansApart
  <2> QED BY <1>1, <1>2, <2>1, <2>2, MoveKeeps DEF Take, Quiet, WorkerPlaces, LoopPlaces
<1>3. CASE Cardinality(th[t].hand) # Want(t) /\ free = {}
  BY <1>1, <1>3, RaiseKeeps DEF Take, Quiet
<1>4. CASE Cardinality(th[t].hand) # Want(t) /\ free # {}
  <2>1. PICK b \in free : free' = free \ {b} /\ th' = [th EXCEPT ![t].hand = @ \cup {b}]
    BY <1>4 DEF Take
  <2>2. /\ DOMAIN th' = Threads /\ \A u \in Threads : DOMAIN th'[u] = Fields
        /\ \A u \in Threads : UNCHANGED <<th[u].at, th[u].back, th[u].req, th[u].giving, th[u].granted>>
        /\ th'[t].hand = th[t].hand \cup {b} /\ \A u \in Threads \ {t} : th'[u].hand = th[u].hand
    BY <1>1, <2>1 DEF Fields
  <2>3. ThreadPlaces' BY <1>1, <2>2 DEF ThreadsInv, ThreadPlaces, Granted
  <2>4. PlansApart' BY <1>1, <2>2 DEF ThreadsInv, PlansApart, Granted, Idle, Releasing, Planned
  <2>5. BlocksApart' BY <1>1, <2>1, <2>2 DEF ThreadsInv, BlocksApart, Hand
  <2>6. EntriesApart' BY <1>1, <2>2 DEF ThreadsInv, EntriesApart, Dropping, Returning, OwnedBy
  <2>7. TablesApart'
    BY <1>1, <2>2 DEF ThreadsInv, TablesApart, Dropping, Returning, OwnedBy, Granted, Releasing, Planned
  <2> QED BY <2>3, <2>4, <2>5, <2>6, <2>7 DEF ThreadsInv
<1> QED BY <1>2, <1>3, <1>4

(* The blocks of one list are owned by nobody in turn, and free (cache.py:141-143).    *)
LEMMA GiveKeeps == ASSUME ThreadsInv, NEW t \in Threads, Give(t) PROVE ThreadsInv'
<1> USE DEF At, Threads, requests, pools
<1>1. /\ th[t].at = "give" /\ UNCHANGED <<table, prefixes, plan>>
      /\ DOMAIN th = Threads /\ \A u \in Threads : DOMAIN th[u] = Fields
      /\ th[t].hand = {} /\ (t = "worker" => Granted = << >>)
  BY DEF Give, ThreadsInv, ThreadPlaces
<1>2. CASE th[t].giving = {}
  <2>1. th' = [th EXCEPT ![t].at = th[t].back] /\ UNCHANGED <<free, owner>>
    BY <1>2 DEF Give, Goto
  <2>2. Moves(t, th[t].back) BY <1>1, <2>1 DEF Moves, Holds, Fields
  <2>3. ThreadPlaces'
    BY <1>1, <1>2, <2>2 DEF Moves, Holds, ThreadsInv, ThreadPlaces, Granted, WorkerPlaces, LoopPlaces
  <2>4. PlansApart'
    BY <1>1, <2>1, <2>2 DEF Moves, Holds, ThreadsInv, ThreadPlaces, PlansApart, Granted, Idle, Releasing, Planned
  <2>5. BlocksApart' BY <1>1, <2>1, <2>2 DEF Moves, Holds, ThreadsInv, ThreadPlaces, BlocksApart, Hand
  <2>6. EntriesApart'
    BY <1>1, <1>2, <2>1, <2>2 DEF Moves, Holds, ThreadsInv, ThreadPlaces, EntriesApart, Dropping, Returning, OwnedBy
  <2>7. TablesApart'
    BY <1>1, <1>2, <2>1, <2>2
    DEF Moves, Holds, ThreadsInv, ThreadPlaces, TablesApart, Dropping, Returning, OwnedBy, Granted, Releasing, Planned
  <2> QED BY <2>3, <2>4, <2>5, <2>6, <2>7 DEF ThreadsInv
<1>3. CASE th[t].giving # {}
  <2>1. PICK b \in th[t].giving :
          /\ free' = free \cup {b} /\ owner' = Restrict(owner, DOMAIN owner \ {b})
          /\ th' = [th EXCEPT ![t].giving = @ \ {b}]
    BY <1>3 DEF Give
  <2>2. /\ DOMAIN th' = Threads /\ \A u \in Threads : DOMAIN th'[u] = Fields
        /\ \A u \in Threads : UNCHANGED <<th[u].at, th[u].back, th[u].req, th[u].hand, th[u].granted>>
        /\ th'[t].giving = th[t].giving \ {b} /\ \A u \in Threads \ {t} : th'[u].giving = th[u].giving
    BY <1>1, <2>1 DEF Fields
  <2>3. /\ DOMAIN owner' = DOMAIN owner \ {b}
        /\ \A c \in DOMAIN owner \ {b} : owner'[c] = owner[c]
        /\ \A o : OwnedBy(o)' = OwnedBy(o) \ {b}
    BY <2>1 DEF Restrict, OwnedBy
  <2>4. /\ b \in DOMAIN owner /\ b \in Blocks
        /\ \A u \in Threads \ {t} : b \notin th[u].giving
        /\ \A u \in Threads : b \notin Hand(u)
        /\ \A i \in DOMAIN prefixes : b \notin prefixes[i].blocks
    BY <1>1 DEF ThreadsInv, BlocksApart, EntriesApart
  <2>5. ThreadPlaces' BY <1>1, <2>2 DEF ThreadsInv, ThreadPlaces, Granted
  <2>6. PlansApart' BY <1>1, <2>2 DEF ThreadsInv, PlansApart, Granted, Idle, Releasing, Planned
  <2>7. BlocksApart'
    <3>1. \A u \in Threads : Hand(u)' = Hand(u) BY <2>2 DEF Hand
    <3>2. \A u \in Threads : th'[u].giving \subseteq DOMAIN owner'
      BY <2>2, <2>3, <2>4 DEF ThreadsInv, BlocksApart
    <3>3. free' \cup DOMAIN owner' \subseteq Blocks /\ free' \cap DOMAIN owner' = {}
      BY <2>1, <2>3, <2>4 DEF ThreadsInv, BlocksApart
    <3>4. free' \cup DOMAIN owner' = free \cup DOMAIN owner BY <2>1, <2>3, <2>4
    <3>5. th'["worker"].giving \cap th'["loop"].giving = {}
      BY <2>2 DEF ThreadsInv, BlocksApart
    <3>6. \A c \in DOMAIN owner' : owner'[c] \in Reqs \cup {Cached}
      BY <2>3 DEF ThreadsInv, BlocksApart
    <3> QED BY <2>2, <3>1, <3>2, <3>3, <3>4, <3>5, <3>6 DEF ThreadsInv, BlocksApart
  <2>8. /\ (Dropping' <=> Dropping) /\ (Returning' <=> Returning)
        /\ Granted' = Granted /\ Releasing' = Releasing /\ Planned' = Planned
    BY <1>1, <2>2 DEF Dropping, Returning, Granted, Releasing, Planned
  <2>9. EntriesApart'
    <3>1. OwnedBy(Cached)' = OwnedBy(Cached) \ {b} BY <2>3
    <3>2. At("loop", "insert") => b \notin th["loop"].hand
      BY <1>1 DEF ThreadsInv, EntriesApart
    <3> QED BY <1>1, <2>2, <2>4, <2>8, <3>1, <3>2 DEF ThreadsInv, EntriesApart
  <2>10. TablesApart'
    <3>0. /\ \/ owner[b] = Cached
             \/ t = "worker"
             \/ t = "loop" /\ Dropping /\ owner[b] = Releasing
          /\ Cached \notin DOMAIN table
          /\ Releasing \notin Planned /\ Planned \subseteq DOMAIN table
          /\ \A i \in DOMAIN Granted : plan[i].req \in Planned
      <4>1. PlansApart BY DEF ThreadsInv
      <4>2. DOMAIN Granted \subseteq DOMAIN plan BY <4>1 DEF PlansApart
      <4> QED BY <1>1, <4>1, <4>2, PlannedApart DEF ThreadsInv, EntriesApart, TablesApart, OwnedBy, Planned
    <3>1. \A r \in DOMAIN table : ~(Dropping /\ r = Releasing) => b \notin table[r]
      BY <3>0 DEF ThreadsInv, TablesApart, OwnedBy
    <3>2. \A i \in DOMAIN Granted : b \notin Granted[i]
      BY <1>1, <3>0 DEF ThreadsInv, TablesApart, OwnedBy
    <3>3. \A r \in DOMAIN table : ~(Dropping /\ r = Releasing) =>
            table[r] \subseteq OwnedBy(r)' \ th'["worker"].giving
      BY <1>1, <2>2, <2>3, <3>1 DEF ThreadsInv, TablesApart
    <3>4. \A i \in DOMAIN Granted : Granted[i] \subseteq OwnedBy(plan[i].req)'
      BY <1>1, <2>3, <3>2 DEF ThreadsInv, TablesApart, OwnedBy
    <3>5. Dropping => th'["loop"].giving = OwnedBy(Releasing)'
      BY <1>1, <2>2, <2>3, <2>4, <2>8, <3>0 DEF ThreadsInv, TablesApart, OwnedBy
    <3>6. \A c \in DOMAIN owner' : owner'[c] \in Reqs =>
            /\ owner'[c] \in DOMAIN table
            /\ \/ c \in table[owner'[c]]
               \/ \E i \in DOMAIN Granted : plan[i].req = owner'[c] /\ c \in Granted[i]
               \/ Returning /\ c \in th'["worker"].giving
               \/ Dropping /\ owner'[c] = Releasing
      BY <1>1, <2>2, <2>3 DEF ThreadsInv, TablesApart
    <3>7. Returning => \A c \in th'["worker"].giving : owner'[c] \in Planned
      BY <1>1, <2>2, <2>3, <2>4 DEF ThreadsInv, TablesApart, BlocksApart
    <3>8. th'["worker"].at = th["worker"].at BY <2>2
    <3> QED BY <1>1, <2>8, <3>3, <3>4, <3>5, <3>6, <3>7, <3>8 DEF ThreadsInv, TablesApart
  <2> QED BY <2>5, <2>6, <2>7, <2>9, <2>10 DEF ThreadsInv
<1> QED BY <1>2, <1>3

-----------------------------------------------------------------------------
(* The entries, oldest first.                                                          *)

\* The entries of the cache, and entries that share no block.
Entries == [key : Reqs, blocks : SUBSET Blocks]
Apart(s) == \A i, j \in DOMAIN s : i # j => s[i].blocks \cap s[j].blocks = {}

\* What is left when an entry is taken out was there, apart from what was taken.
LEMMA EntryRemoved ==
  ASSUME NEW s \in Seq(Entries), Apart(s), NEW k \in DOMAIN s
  PROVE  /\ RemoveAt(s, k) \in Seq(Entries) /\ Apart(RemoveAt(s, k))
         /\ \A i \in DOMAIN RemoveAt(s, k) : \E j \in DOMAIN s \ {k} : RemoveAt(s, k)[i] = s[j]
         /\ \A i \in DOMAIN RemoveAt(s, k) : RemoveAt(s, k)[i].blocks \cap s[k].blocks = {}
<1> DEFINE rest == RemoveAt(s, k)
<1>1. /\ rest \in Seq(Entries) /\ DOMAIN rest = 1..(Len(s) - 1)
      /\ \A i \in DOMAIN rest : rest[i] = IF i < k THEN s[i] ELSE s[i + 1]
  <2> DEFINE a == SubSeq(s, 1, k - 1)
             z == SubSeq(s, k + 1, Len(s))
  <2>1. /\ a \in Seq(Entries) /\ Len(a) = k - 1
        /\ \A i \in 1..(k - 1) : a[i] = s[i]
    BY SubSeqProperties
  <2>2. /\ z \in Seq(Entries) /\ Len(z) = Len(s) - k
        /\ \A i \in 1..(Len(s) - k) : z[i] = s[k + i]
    BY SubSeqProperties
  <2>3. rest = a \o z BY DEF RemoveAt
  <2> HIDE DEF a, z, rest
  <2>0. /\ Len(s) \in Nat /\ k \in 1..Len(s)
        /\ Len(a) + Len(z) = Len(s) - 1
    <3>1. Len(s) \in Nat /\ k \in 1..Len(s) OBVIOUS
    <3> QED BY <2>1, <2>2, <3>1
  <2>4. /\ rest \in Seq(Entries) /\ Len(rest) = Len(s) - 1
        /\ \A i \in 1..(Len(s) - 1) : rest[i] = IF i <= k - 1 THEN a[i] ELSE z[i - (k - 1)]
    <3>1. /\ a \o z \in Seq(Entries) /\ Len(a \o z) = Len(a) + Len(z)
          /\ \A i \in 1..Len(a) + Len(z) : (a \o z)[i] = IF i <= Len(a) THEN a[i] ELSE z[i - Len(a)]
      BY <2>1, <2>2, ConcatProperties
    <3> QED BY <2>0, <2>1, <2>3, <3>1
  <2>5. DOMAIN rest = 1..(Len(s) - 1) BY <2>4
  <2>6. ASSUME NEW i \in 1..(Len(s) - 1)
        PROVE  rest[i] = IF i < k THEN s[i] ELSE s[i + 1]
    <3>1. CASE i < k
      <4>1. i \in 1..(k - 1) /\ i <= k - 1 BY <2>0, <3>1
      <4> QED BY <2>1, <2>4, <3>1, <4>1
    <3>2. CASE ~(i < k)
      <4>1. i - (k - 1) \in 1..(Len(s) - k) /\ k + (i - (k - 1)) = i + 1 BY <2>0, <3>2
      <4>2. ~(i <= k - 1) BY <2>0, <3>2
      <4> QED BY <2>2, <2>4, <3>2, <4>1, <4>2
    <3> QED BY <3>1, <3>2
  <2> QED BY <2>4, <2>5, <2>6
<1>2. \A i \in DOMAIN rest : /\ i < k => i \in DOMAIN s \ {k}
                             /\ ~(i < k) => i + 1 \in DOMAIN s \ {k}
  BY <1>1
<1>3. Apart(rest)
  <2> SUFFICES ASSUME NEW i \in DOMAIN rest, NEW j \in DOMAIN rest, i # j
               PROVE  rest[i].blocks \cap rest[j].blocks = {}
    BY DEF Apart
  <2>1. PICK a \in DOMAIN s, b \in DOMAIN s : a # b /\ rest[i] = s[a] /\ rest[j] = s[b]
    <3> DEFINE from(x) == IF x < k THEN x ELSE x + 1
    <3>1. from(i) \in DOMAIN s /\ from(j) \in DOMAIN s /\ from(i) # from(j) BY <1>1, <1>2
    <3>2. rest[i] = s[from(i)] /\ rest[j] = s[from(j)] BY <1>1
    <3> QED BY <3>1, <3>2
  <2> QED BY <2>1 DEF Apart
<1>4. \A i \in DOMAIN rest : \E j \in DOMAIN s \ {k} : rest[i] = s[j] BY <1>1, <1>2
<1>5. \A i \in DOMAIN rest : rest[i].blocks \cap s[k].blocks = {} BY <1>4 DEF Apart
<1> QED BY <1>1, <1>3, <1>4, <1>5

\* And at the other end, one that has nothing of theirs.
LEMMA EntryAdded ==
  ASSUME NEW s \in Seq(Entries), Apart(s), NEW e \in Entries,
         \A i \in DOMAIN s : s[i].blocks \cap e.blocks = {}
  PROVE  /\ Append(s, e) \in Seq(Entries) /\ Apart(Append(s, e))
         /\ DOMAIN Append(s, e) = DOMAIN s \cup {Len(s) + 1}
         /\ \A i \in DOMAIN s : Append(s, e)[i] = s[i]
         /\ Append(s, e)[Len(s) + 1] = e
<1>1. /\ Append(s, e) \in Seq(Entries)
      /\ DOMAIN Append(s, e) = DOMAIN s \cup {Len(s) + 1}
      /\ \A i \in DOMAIN s : Append(s, e)[i] = s[i]
      /\ Append(s, e)[Len(s) + 1] = e
  OBVIOUS
<1>2. Apart(Append(s, e)) BY <1>1 DEF Apart
<1> QED BY <1>1, <1>2

\* An evicted entry: its blocks are the thread's to free (cache.py:295-296).
LEMMA EvictPopKeeps == ASSUME ThreadsInv, NEW t \in Threads, EvictPop(t) PROVE ThreadsInv'
<1> USE DEF At, Threads
<1>1. /\ th[t].at = "pop" /\ UNCHANGED <<free, owner, table, plan>>
      /\ DOMAIN th = Threads /\ \A u \in Threads : DOMAIN th[u] = Fields
      /\ th[t].hand = {} /\ th[t].giving = {} /\ (t = "worker" => Granted = << >>)
  BY DEF EvictPop, ThreadsInv, ThreadPlaces, pools
<1>2. CASE th[t].key \notin Keys BY <1>1, <1>2, RaiseKeeps DEF EvictPop, Quiet
<1>3. CASE th[t].key \in Keys
  <2> DEFINE k == Entry(th[t].key)
  <2>1. k \in DOMAIN prefixes BY <1>3 DEF Keys, Entry
  <2> HIDE DEF k
  <2>2. /\ prefixes' = RemoveAt(prefixes, k)
        /\ th' = [th EXCEPT ![t].at = "give", ![t].back = "evict", ![t].key = "none",
                     ![t].giving = prefixes[k].blocks]
    BY <1>3 DEF EvictPop, k
  <2>3. /\ DOMAIN th' = Threads /\ \A u \in Threads : DOMAIN th'[u] = Fields
        /\ \A u \in Threads : UNCHANGED <<th[u].req, th[u].hand, th[u].granted>>
        /\ th'[t].at = "give" /\ th'[t].back = "evict" /\ th'[t].giving = prefixes[k].blocks
        /\ \A u \in Threads \ {t} : th'[u] = th[u]
    BY <1>1, <2>2 DEF Fields
  <2>4. prefixes \in Seq(Entries) /\ Apart(prefixes) BY DEF ThreadsInv, EntriesApart, Entries, Apart
  <2>5. /\ prefixes' \in Seq(Entries) /\ Apart(prefixes')
        /\ \A i \in DOMAIN prefixes' : \E j \in DOMAIN prefixes \ {k} : prefixes'[i] = prefixes[j]
        /\ \A i \in DOMAIN prefixes' : prefixes'[i].blocks \cap prefixes[k].blocks = {}
    BY <2>1, <2>2, <2>4, EntryRemoved
  <2>6. /\ prefixes[k].blocks \subseteq OwnedBy(Cached)
        /\ \A u \in Threads : prefixes[k].blocks \cap th[u].giving = {}
        /\ At("loop", "insert") => prefixes[k].blocks \cap th["loop"].hand = {}
    BY <2>1 DEF ThreadsInv, EntriesApart
  <2>7. /\ (Dropping' <=> Dropping) /\ (Returning' <=> Returning)
        /\ t = "loop" => ~Dropping
        /\ t = "worker" => ~Returning
        /\ Granted' = Granted /\ Releasing' = Releasing /\ Planned' = Planned
    BY <1>1, <2>3 DEF Dropping, Returning, Granted, Releasing, Planned
  <2>8. ThreadPlaces' BY <1>1, <2>3 DEF ThreadsInv, ThreadPlaces, Granted, WorkerPlaces, LoopPlaces
  <2>9. PlansApart' BY <1>1, <2>3, <2>7 DEF ThreadsInv, PlansApart, Idle
  <2>10. BlocksApart' BY <1>1, <2>3, <2>6 DEF ThreadsInv, BlocksApart, Hand, OwnedBy
  <2>11. EntriesApart'
    <3>1. \A i \in DOMAIN prefixes' :
            /\ prefixes'[i].blocks \subseteq OwnedBy(Cached)
            /\ \A u \in Threads : prefixes'[i].blocks \cap th[u].giving = {}
            /\ At("loop", "insert") => prefixes'[i].blocks \cap th["loop"].hand = {}
      BY <2>5 DEF ThreadsInv, EntriesApart
    <3>2. OwnedBy(Cached)' = OwnedBy(Cached) BY <1>1 DEF OwnedBy
    <3> QED BY <1>1, <2>3, <2>5, <2>6, <2>7, <3>1, <3>2 DEF ThreadsInv, EntriesApart, Entries, Apart
  <2>12. TablesApart'
    <3>1. \A r \in DOMAIN table : ~(Dropping /\ r = Releasing) => table[r] \cap prefixes[k].blocks = {}
      BY <2>6, PlannedApart DEF ThreadsInv, TablesApart, OwnedBy
    <3> QED BY <1>1, <2>3, <2>7, <3>1 DEF ThreadsInv, TablesApart, OwnedBy
  <2> QED BY <2>8, <2>9, <2>10, <2>11, <2>12 DEF ThreadsInv
<1> QED BY <1>2, <1>3

\* The entry of the request's own prompt becomes the newest (cache.py:335-337).
LEMMA StoreMoveKeeps == ASSUME ThreadsInv, StoreMove PROVE ThreadsInv'
<1> USE DEF At, Threads
<1>1. /\ th["loop"].at = "move" /\ UNCHANGED <<free, owner, table, plan>>
      /\ DOMAIN th = Threads /\ \A u \in Threads : DOMAIN th[u] = Fields
      /\ th["loop"].hand = {} /\ "loop" \in Threads
  BY DEF StoreMove, ThreadsInv, ThreadPlaces, pools
<1>2. CASE Releasing \notin Keys BY <1>1, <1>2, RaiseKeeps DEF StoreMove, Quiet
<1>3. CASE Releasing \in Keys
  <2> DEFINE k == Entry(Releasing)
             rest == RemoveAt(prefixes, k)
  <2>1. k \in DOMAIN prefixes BY <1>3 DEF Keys, Entry
  <2>2. prefixes' = Append(rest, prefixes[k]) /\ th' = [th EXCEPT !["loop"].at = "scan"]
    BY <1>3 DEF StoreMove, Goto
  <2> HIDE DEF k
  <2>3. prefixes \in Seq(Entries) /\ Apart(prefixes) BY DEF ThreadsInv, EntriesApart, Entries, Apart
  <2>4. prefixes[k] \in Entries BY <2>1, <2>3
  <2>5. /\ rest \in Seq(Entries) /\ Apart(rest)
        /\ \A i \in DOMAIN rest : \E j \in DOMAIN prefixes \ {k} : rest[i] = prefixes[j]
        /\ \A i \in DOMAIN rest : rest[i].blocks \cap prefixes[k].blocks = {}
    BY <2>1, <2>3, EntryRemoved
  <2> HIDE DEF rest
  <2>6. /\ prefixes' \in Seq(Entries) /\ Apart(prefixes')
        /\ DOMAIN prefixes' = DOMAIN rest \cup {Len(rest) + 1}
        /\ \A i \in DOMAIN rest : prefixes'[i] = rest[i]
        /\ prefixes'[Len(rest) + 1] = prefixes[k]
    BY <2>2, <2>4, <2>5, EntryAdded
  <2>7. \A i \in DOMAIN prefixes' : \E j \in DOMAIN prefixes : prefixes'[i] = prefixes[j]
    BY <2>1, <2>5, <2>6
  <2>8. Moves("loop", "scan") BY <1>1, <2>2 DEF Moves, Holds, Fields
  <2>9. ThreadPlaces' BY <1>1, <2>8 DEF Moves, Holds, ThreadsInv, ThreadPlaces, Granted, WorkerPlaces, LoopPlaces
  <2>10. PlansApart' BY <1>1, <2>8 DEF Moves, Holds, ThreadsInv, PlansApart, Granted, Idle, Releasing, Planned
  <2>11. BlocksApart' BY <1>1, <2>8 DEF Moves, Holds, ThreadsInv, BlocksApart, Hand
  <2>12. EntriesApart'
    <3>1. /\ (Dropping' <=> Dropping) /\ (Returning' <=> Returning)
          /\ OwnedBy(Cached)' = OwnedBy(Cached) /\ ~At("loop", "insert")'
      BY <1>1, <2>8 DEF Moves, Holds, Dropping, Returning, OwnedBy
    <3>2. \A i \in DOMAIN prefixes' :
            /\ prefixes'[i].blocks \subseteq OwnedBy(Cached)
            /\ \A u \in Threads : prefixes'[i].blocks \cap th[u].giving = {}
      BY <2>7 DEF ThreadsInv, EntriesApart
    <3>3. \A u \in Threads : th'[u].giving = th[u].giving BY <2>8 DEF Moves, Holds
    <3> QED BY <2>6, <3>1, <3>2, <3>3 DEF ThreadsInv, EntriesApart, Entries, Apart
  <2>13. TablesApart'
    BY <1>1, <2>8 DEF Moves, Holds, ThreadsInv, TablesApart, Dropping, Returning, OwnedBy, Granted, Releasing, Planned
  <2> QED BY <2>9, <2>10, <2>11, <2>12, <2>13 DEF ThreadsInv
<1> QED BY <1>2, <1>3

\* The oldest entry goes for the new one (cache.py:342-344).
LEMMA StorePopItemKeeps == ASSUME ThreadsInv, StorePopItem PROVE ThreadsInv'
<1> USE DEF At, Threads
<1>1. /\ th["loop"].at = "popitem" /\ UNCHANGED <<free, owner, table, plan>>
      /\ DOMAIN th = Threads /\ \A u \in Threads : DOMAIN th[u] = Fields
      /\ th["loop"].hand = {} /\ th["loop"].giving = {} /\ "loop" \in Threads
  BY DEF StorePopItem, ThreadsInv, ThreadPlaces, pools
<1>2. CASE prefixes = << >> BY <1>1, <1>2, RaiseKeeps DEF StorePopItem, Quiet
<1>3. CASE prefixes # << >>
  <2>1. /\ prefixes' = Tail(prefixes)
        /\ th' = [th EXCEPT !["loop"].at = "give", !["loop"].back = "trim",
                      !["loop"].giving = Head(prefixes).blocks,
                      !["loop"].cached = @ - Cardinality(Head(prefixes).blocks)]
    BY <1>3 DEF StorePopItem
  <2>2. prefixes \in Seq(Entries) /\ Apart(prefixes) BY DEF ThreadsInv, EntriesApart, Entries, Apart
  <2>3. /\ Head(prefixes) = prefixes[1] /\ 1 \in DOMAIN prefixes
        /\ prefixes' \in Seq(Entries)
        /\ \A i \in DOMAIN prefixes' : i + 1 \in DOMAIN prefixes \ {1} /\ prefixes'[i] = prefixes[i + 1]
        /\ \A i, j \in DOMAIN prefixes' : i # j => i + 1 # j + 1
    BY <1>3, <2>1, <2>2
  <2>4. /\ Apart(prefixes') /\ \A i \in DOMAIN prefixes' : prefixes'[i].blocks \cap prefixes[1].blocks = {}
    BY <2>2, <2>3 DEF Apart
  <2>5. /\ DOMAIN th' = Threads /\ \A u \in Threads : DOMAIN th'[u] = Fields
        /\ \A u \in Threads : UNCHANGED <<th[u].req, th[u].hand, th[u].granted>>
        /\ th'["loop"].at = "give" /\ th'["loop"].back = "trim" /\ th'["loop"].giving = prefixes[1].blocks
        /\ th'["worker"] = th["worker"]
    BY <1>1, <2>1, <2>3 DEF Fields
  <2>6. /\ prefixes[1].blocks \subseteq OwnedBy(Cached)
        /\ \A u \in Threads : prefixes[1].blocks \cap th[u].giving = {}
    BY <2>3 DEF ThreadsInv, EntriesApart
  <2>7. /\ ~Dropping /\ ~Dropping' /\ (Returning' <=> Returning) /\ OwnedBy(Cached)' = OwnedBy(Cached)
        /\ Granted' = Granted /\ Releasing' = Releasing /\ Planned' = Planned
    BY <1>1, <2>5 DEF Dropping, Returning, Granted, Releasing, Planned, OwnedBy
  <2>8. ThreadPlaces' BY <1>1, <2>5 DEF ThreadsInv, ThreadPlaces, Granted, WorkerPlaces, LoopPlaces
  <2>9. PlansApart' BY <1>1, <2>5, <2>7 DEF ThreadsInv, PlansApart, Idle
  <2>10. BlocksApart' BY <1>1, <2>5, <2>6 DEF ThreadsInv, BlocksApart, Hand, OwnedBy
  <2>11. EntriesApart'
    <3>1. \A i \in DOMAIN prefixes' :
            /\ prefixes'[i].blocks \subseteq OwnedBy(Cached)
            /\ \A u \in Threads : prefixes'[i].blocks \cap th[u].giving = {}
      BY <2>3 DEF ThreadsInv, EntriesApart
    <3> QED BY <1>1, <2>3, <2>4, <2>5, <2>6, <2>7, <3>1 DEF ThreadsInv, EntriesApart, Entries, Apart
  <2>12. TablesApart' BY <1>1, <2>5, <2>7 DEF ThreadsInv, TablesApart, OwnedBy
  <2> QED BY <2>8, <2>9, <2>10, <2>11, <2>12 DEF ThreadsInv
<1> QED BY <1>2, <1>3

\* The new entry, with the blocks that were copied into (cache.py:357).
LEMMA StoreInsertKeeps == ASSUME ThreadsInv, StoreInsert PROVE ThreadsInv'
<1> USE DEF At, Threads
<1>1. /\ th["loop"].at = "insert" /\ UNCHANGED <<free, owner, table, plan>>
      /\ DOMAIN th = Threads /\ \A u \in Threads : DOMAIN th[u] = Fields
      /\ th["loop"].giving = {}
  BY DEF StoreInsert, ThreadsInv, ThreadPlaces, pools, requests
<1> DEFINE e == [key |-> Releasing, blocks |-> th["loop"].hand]
<1>2. /\ prefixes' = Append(prefixes, e)
      /\ th' = [th EXCEPT !["loop"].at = "scan", !["loop"].hand = {}]
  BY DEF StoreInsert
<1>3. /\ DOMAIN th' = Threads /\ \A u \in Threads : DOMAIN th'[u] = Fields
      /\ \A u \in Threads : UNCHANGED <<th[u].req, th[u].back, th[u].giving, th[u].granted>>
      /\ th'["loop"].at = "scan" /\ th'["loop"].hand = {}
      /\ th'["worker"] = th["worker"]
  BY <1>1, <1>2 DEF Fields
<1>4. prefixes \in Seq(Entries) /\ Apart(prefixes) BY DEF ThreadsInv, EntriesApart, Entries, Apart
<1>5. e \in Entries
  <2>1. Releasing \in Reqs BY <1>1 DEF ThreadsInv, PlansApart, Idle
  <2>2. th["loop"].hand \subseteq Blocks BY DEF ThreadsInv, BlocksApart
  <2> QED BY <2>1, <2>2 DEF Entries
<1>6. /\ e.blocks = th["loop"].hand /\ e.blocks \subseteq OwnedBy(Cached) \ th["worker"].giving
      /\ \A i \in DOMAIN prefixes : prefixes[i].blocks \cap e.blocks = {}
  BY <1>1 DEF ThreadsInv, EntriesApart
<1> HIDE DEF e
<1>7. /\ prefixes' \in Seq(Entries) /\ Apart(prefixes')
      /\ DOMAIN prefixes' = DOMAIN prefixes \cup {Len(prefixes) + 1}
      /\ \A i \in DOMAIN prefixes : prefixes'[i] = prefixes[i]
      /\ prefixes'[Len(prefixes) + 1] = e
  BY <1>2, <1>4, <1>5, <1>6, EntryAdded
<1>8. ThreadPlaces' BY <1>1, <1>3 DEF ThreadsInv, ThreadPlaces, Granted, WorkerPlaces, LoopPlaces
<1>9. PlansApart' BY <1>1, <1>3 DEF ThreadsInv, PlansApart, Idle, Granted, Releasing, Planned
<1>10. BlocksApart' BY <1>1, <1>3 DEF ThreadsInv, BlocksApart, Hand
<1>11. EntriesApart'
  <2>1. \A i \in DOMAIN prefixes' :
          /\ prefixes'[i].blocks \subseteq OwnedBy(Cached)
          /\ \A u \in Threads : prefixes'[i].blocks \cap th[u].giving = {}
    BY <1>1, <1>6, <1>7 DEF ThreadsInv, EntriesApart
  <2>2. /\ (Dropping' <=> Dropping) /\ (Returning' <=> Returning) /\ OwnedBy(Cached)' = OwnedBy(Cached)
    BY <1>1, <1>3 DEF Dropping, Returning, OwnedBy
  <2> QED BY <1>3, <1>7, <2>1, <2>2 DEF ThreadsInv, EntriesApart, Entries, Apart
<1>12. TablesApart'
  BY <1>1, <1>3 DEF ThreadsInv, TablesApart, Dropping, Returning, OwnedBy, Granted, Releasing, Planned
<1> QED BY <1>8, <1>9, <1>10, <1>11, <1>12 DEF ThreadsInv

-----------------------------------------------------------------------------
(* Blocks get an owner, and tables their blocks.                                       *)

\* The blocks of a hand are owned (cache.py:126-128).
LEMMA OwnKeeps == ASSUME ThreadsInv, NEW t \in Threads, Own(t) PROVE ThreadsInv'
<1> USE DEF At, Threads
<1>1. /\ th[t].at = "own" /\ UNCHANGED <<free, table, prefixes, plan>>
      /\ DOMAIN th = Threads /\ \A u \in Threads : DOMAIN th[u] = Fields
      /\ th[t].giving = {} /\ th[t].hand \subseteq Blocks
      /\ th[t].hand \cap (free \cup DOMAIN owner) = {}
      /\ \A u \in Threads \ {t} : th[t].hand \cap Hand(u) = {}
  BY DEF Own, ThreadsInv, ThreadPlaces, BlocksApart, Hand, requests
<1> DEFINE o == OwnerName(t)
<1>2. /\ DOMAIN owner' = DOMAIN owner \cup th[t].hand
      /\ \A b \in th[t].hand : owner'[b] = o
      /\ \A b \in DOMAIN owner : b \notin th[t].hand /\ owner'[b] = owner[b]
  BY <1>1 DEF Own
<1>3. CASE t = "worker"
  <2>1. /\ th' = [th EXCEPT !["worker"].at = "allocate", !["worker"].hand = {},
                      !["worker"].granted = Append(@, th["worker"].hand)]
        /\ o = plan[Len(Granted) + 1].req
    BY <1>3 DEF Own, OwnerName, Turn, Granted
  <2>2. /\ Granted \in Seq(SUBSET Blocks) /\ Len(Granted) + 1 \in DOMAIN plan
        /\ o \in Planned
    BY <1>1, <1>3, <2>1 DEF ThreadsInv, PlansApart, Planned
  <2> HIDE DEF o
  <2>3. /\ Planned \subseteq DOMAIN table \ {Releasing} /\ DOMAIN table \subseteq Reqs
        /\ Cached \notin Planned
    BY PlannedApart DEF ThreadsInv
  <2>4. /\ DOMAIN th' = Threads /\ \A u \in Threads : DOMAIN th'[u] = Fields
        /\ th'["worker"].at = "allocate" /\ th'["worker"].hand = {} /\ th'["loop"] = th["loop"]
        /\ th'["worker"].giving = th["worker"].giving /\ th'["worker"].back = th["worker"].back
        /\ Granted' = Append(Granted, th["worker"].hand)
    BY <1>1, <2>1 DEF Fields, Granted
  <2>5. /\ Granted' \in Seq(SUBSET Blocks) /\ Len(Granted') = Len(Granted) + 1
        /\ DOMAIN Granted' = DOMAIN Granted \cup {Len(Granted) + 1}
        /\ \A i \in DOMAIN Granted : Granted'[i] = Granted[i]
        /\ Granted'[Len(Granted) + 1] = th["worker"].hand
    BY <1>1, <1>3, <2>2, <2>4
  <2>6. ThreadPlaces' BY <1>1, <1>3, <2>4 DEF ThreadsInv, ThreadPlaces, WorkerPlaces, LoopPlaces
  <2>7. PlansApart'
    BY <1>1, <1>3, <2>2, <2>4, <2>5 DEF ThreadsInv, PlansApart, Idle, Releasing, Planned
  <2>8. BlocksApart'
    BY <1>1, <1>2, <1>3, <2>2, <2>3, <2>4 DEF ThreadsInv, BlocksApart, Hand
  <2>9. /\ (Dropping' <=> Dropping) /\ ~Returning' /\ ~Returning
        /\ OwnedBy(Cached)' = OwnedBy(Cached) /\ OwnedBy(Releasing)' = OwnedBy(Releasing)
        /\ Releasing' = Releasing /\ Planned' = Planned
    <3>1. o # Cached /\ o # Releasing BY <2>2, <2>3
    <3>2. OwnedBy(Cached)' = OwnedBy(Cached) BY <1>2, <3>1 DEF OwnedBy
    <3>3. Releasing' = Releasing BY <2>4 DEF Releasing
    <3>4. OwnedBy(Releasing)' = OwnedBy(Releasing) BY <1>2, <3>1, <3>3 DEF OwnedBy
    <3>5. (Dropping' <=> Dropping) /\ ~Returning' /\ ~Returning /\ Planned' = Planned
      BY <1>1, <1>3, <2>4 DEF Dropping, Returning, Planned
    <3> QED BY <3>2, <3>3, <3>4, <3>5
  <2>10. EntriesApart' BY <1>1, <1>3, <2>4, <2>9 DEF ThreadsInv, EntriesApart
  <2>11. TablesApart'
    <3>1. \A r \in DOMAIN table : ~(Dropping /\ r = Releasing) => table[r] \subseteq OwnedBy(r)'
      BY <1>2 DEF ThreadsInv, TablesApart, OwnedBy
    <3>2. \A i \in DOMAIN Granted' : Granted'[i] \subseteq OwnedBy(plan[i].req)'
      BY <1>1, <1>2, <1>3, <2>1, <2>5 DEF ThreadsInv, TablesApart, OwnedBy, o
    <3>3. table[o] \subseteq DOMAIN owner
      BY <2>2, <2>3 DEF ThreadsInv, TablesApart, OwnedBy
    <3>4. \A i \in DOMAIN Granted' : Granted'[i] \cap table[plan[i].req] = {}
      BY <1>1, <1>2, <1>3, <2>1, <2>5, <3>3 DEF ThreadsInv, TablesApart, o
    <3>5. \A b \in DOMAIN owner' : owner'[b] \in Reqs =>
            /\ owner'[b] \in DOMAIN table
            /\ \/ b \in table[owner'[b]]
               \/ \E i \in DOMAIN Granted' : plan[i].req = owner'[b] /\ b \in Granted'[i]
               \/ Dropping /\ owner'[b] = Releasing
      <4> SUFFICES ASSUME NEW b \in DOMAIN owner', owner'[b] \in Reqs
                   PROVE  /\ owner'[b] \in DOMAIN table
                          /\ \/ b \in table[owner'[b]]
                             \/ \E i \in DOMAIN Granted' : plan[i].req = owner'[b] /\ b \in Granted'[i]
                             \/ Dropping /\ owner'[b] = Releasing
        OBVIOUS
      <4>1. CASE b \in th["worker"].hand BY <1>2, <1>3, <2>1, <2>2, <2>3, <2>5, <4>1 DEF o
      <4>2. CASE b \in DOMAIN owner
        BY <1>2, <2>5, <2>9, <4>2 DEF ThreadsInv, TablesApart
      <4> QED BY <1>2, <1>3, <4>1, <4>2
    <3> QED BY <1>1, <1>3, <2>4, <2>9, <3>1, <3>2, <3>4, <3>5 DEF ThreadsInv, TablesApart
  <2> QED BY <2>6, <2>7, <2>8, <2>10, <2>11 DEF ThreadsInv
<1>4. CASE t = "loop"
  <2>1. th' = [th EXCEPT !["loop"].at = "insert"] /\ o = Cached
    BY <1>4 DEF Own, OwnerName, Goto
  <2> HIDE DEF o
  <2>2. Moves("loop", "insert") BY <1>1, <2>1 DEF Moves, Holds, Fields
  <2>3. /\ Cached \notin Planned /\ Cached \notin Reqs /\ Cached # Releasing
    BY <1>1, <1>4, PlannedApart, ThreadsAssumption DEF ThreadsInv, PlansApart, Idle
  <2>4. ThreadPlaces' BY <1>1, <1>4, <2>2 DEF Moves, Holds, ThreadsInv, ThreadPlaces, Granted, WorkerPlaces, LoopPlaces
  <2>5. PlansApart'
    BY <1>1, <1>4, <2>2 DEF Moves, Holds, ThreadsInv, PlansApart, Idle, Granted, Releasing, Planned
  <2>6. BlocksApart'
    BY <1>1, <1>2, <1>4, <2>1, <2>2 DEF Moves, Holds, ThreadsInv, BlocksApart, Hand
  <2>7. /\ ~Dropping' /\ ~Dropping /\ (Returning' <=> Returning)
        /\ OwnedBy(Cached)' = OwnedBy(Cached) \cup th["loop"].hand
        /\ Granted' = Granted /\ Releasing' = Releasing /\ Planned' = Planned
    BY <1>1, <1>2, <1>4, <2>1, <2>2 DEF Moves, Holds, Dropping, Returning, OwnedBy, Granted, Releasing, Planned
  <2>8. EntriesApart'
    <3>1. /\ th["loop"].hand \cap th["worker"].giving = {}
          /\ \A i \in DOMAIN prefixes : prefixes[i].blocks \cap th["loop"].hand = {}
      BY <1>1, <1>4 DEF ThreadsInv, BlocksApart, EntriesApart, OwnedBy
    <3> QED BY <1>1, <2>2, <2>7, <3>1 DEF Moves, Holds, ThreadsInv, EntriesApart
  <2>9. TablesApart'
    BY <1>1, <1>2, <1>4, <2>1, <2>2, <2>3, <2>7 DEF Moves, Holds, ThreadsInv, TablesApart, BlocksApart, OwnedBy
  <2> QED BY <2>4, <2>5, <2>6, <2>8, <2>9 DEF ThreadsInv
<1> QED BY <1>3, <1>4

\* Every table of the plan grows by what was allocated for it (cache.py:391-392).
LEMMA ExtendKeeps == ASSUME ThreadsInv, ExtendTables PROVE ThreadsInv'
<1> USE DEF At, Threads
<1>1. /\ th["worker"].at = "extend" /\ UNCHANGED <<free, owner, prefixes, plan>>
      /\ DOMAIN th = Threads /\ \A u \in Threads : DOMAIN th[u] = Fields
      /\ th["worker"].giving = {} /\ th["worker"].hand = {}
      /\ th' = [th EXCEPT !["worker"].at = "grown"]
  BY DEF ExtendTables, Goto, ThreadsInv, ThreadPlaces, pools
<1>2. /\ DOMAIN table' = DOMAIN table
      /\ \A r \in DOMAIN table : table'[r] = table[r] \cup
            UNION {Granted[i] : i \in {j \in DOMAIN plan : plan[j].req = r}}
  BY DEF ExtendTables, Granted
<1>3. Moves("worker", "grown") BY <1>1 DEF Moves, Holds, Fields
<1>4. /\ DOMAIN Granted \subseteq DOMAIN plan
      /\ \A i \in DOMAIN plan : plan[i].req \in DOMAIN table \ {Releasing}
  BY PlannedApart DEF ThreadsInv, PlansApart, Planned
<1>5. ThreadPlaces' BY <1>1, <1>3 DEF Moves, Holds, ThreadsInv, ThreadPlaces, Granted, WorkerPlaces, LoopPlaces
<1>6. PlansApart' BY <1>1, <1>2, <1>3 DEF Moves, Holds, ThreadsInv, PlansApart, Granted, Idle, Releasing, Planned
<1>7. BlocksApart' BY <1>1, <1>3 DEF Moves, Holds, ThreadsInv, BlocksApart, Hand
<1>8. EntriesApart' BY <1>1, <1>3 DEF Moves, Holds, ThreadsInv, EntriesApart, Dropping, Returning, OwnedBy
<1>9. /\ (Dropping' <=> Dropping) /\ ~Returning' /\ ~Returning
      /\ Granted' = Granted /\ Releasing' = Releasing /\ Planned' = Planned
      /\ th'["worker"].giving = {} /\ th'["loop"].giving = th["loop"].giving
      /\ OwnedBy(Releasing)' = OwnedBy(Releasing)
  BY <1>1, <1>3 DEF Moves, Holds, Dropping, Returning, Granted, Releasing, Planned, OwnedBy
<1>10. \A r \in DOMAIN table : ~(Dropping /\ r = Releasing) => table'[r] \subseteq OwnedBy(r)
  <2> SUFFICES ASSUME NEW r \in DOMAIN table, ~(Dropping /\ r = Releasing), NEW b \in table'[r]
               PROVE  b \in OwnedBy(r)
    OBVIOUS
  <2>1. CASE b \in table[r] BY <2>1 DEF ThreadsInv, TablesApart
  <2>2. CASE b \notin table[r]
    <3>1. PICK i \in DOMAIN plan : plan[i].req = r /\ b \in Granted[i] BY <1>2, <2>2
    <3>2. i \in DOMAIN Granted BY <1>1 DEF ThreadsInv, PlansApart
    <3> QED BY <3>1, <3>2 DEF ThreadsInv, TablesApart
  <2> QED BY <2>1, <2>2
<1>11. \A i \in DOMAIN Granted : Granted[i] \subseteq table'[plan[i].req] BY <1>2, <1>4
<1>12. TablesApart'
  <2>1. \A r \in DOMAIN table : table[r] \subseteq table'[r] BY <1>2
  <2>2. \A r \in DOMAIN table' : ~(Dropping' /\ r = Releasing') =>
          table'[r] \subseteq (OwnedBy(r) \ th["worker"].giving)'
    BY <1>1, <1>2, <1>9, <1>10 DEF OwnedBy
  <2>3. \A i \in DOMAIN Granted : Granted[i] \subseteq OwnedBy(plan[i].req)'
    BY <1>1 DEF ThreadsInv, TablesApart, OwnedBy
  <2>4. \A b \in DOMAIN owner : owner[b] \in Reqs =>
         /\ owner[b] \in DOMAIN table
         /\ \/ b \in table'[owner[b]]
            \/ \E i \in DOMAIN Granted : plan[i].req = owner[b] /\ b \in Granted[i]
            \/ Dropping /\ owner[b] = Releasing
    BY <1>9, <2>1 DEF ThreadsInv, TablesApart
  <2>5. th'["worker"].at = "grown" BY <1>3 DEF Moves
  <2> QED BY <1>1, <1>2, <1>9, <1>11, <2>2, <2>3, <2>4, <2>5 DEF ThreadsInv, TablesApart
<1> QED BY <1>5, <1>6, <1>7, <1>8, <1>12 DEF ThreadsInv

-----------------------------------------------------------------------------
(* Requests come and go.                                                               *)

\* A release begins: of a request that is not in the plan (scheduler.py:646-649).
LEMMA ReleaseBeginsKeeps == ASSUME ThreadsInv, NEW r, ReleaseBegins(r) PROVE ThreadsInv'
<1> USE DEF At, Threads
<1>1. /\ th["loop"].at = "idle" /\ r \in DOMAIN table \ Planned
      /\ UNCHANGED <<free, owner, table, prefixes, plan>>
      /\ DOMAIN th = Threads /\ \A u \in Threads : DOMAIN th[u] = Fields
      /\ th["loop"].giving = {} /\ th["loop"].hand = {}
      /\ th' = [th EXCEPT !["loop"].at = "lookup", !["loop"].req = r]
  BY DEF ReleaseBegins, Idle, ThreadsInv, ThreadPlaces, pools, requests
<1>2. /\ DOMAIN th' = Threads /\ \A u \in Threads : DOMAIN th'[u] = Fields
      /\ th'["loop"].at = "lookup" /\ th'["loop"].req = r /\ th'["worker"] = th["worker"]
      /\ th'["loop"].giving = {} /\ th'["loop"].hand = {}
  BY <1>1 DEF Fields
<1>3. /\ ~Dropping /\ ~Dropping' /\ (Returning' <=> Returning)
      /\ Granted' = Granted /\ Planned' = Planned /\ Releasing' = r
  BY <1>1, <1>2 DEF Dropping, Returning, Granted, Planned, Releasing
<1>4. ThreadPlaces' BY <1>1, <1>2 DEF ThreadsInv, ThreadPlaces, Granted, WorkerPlaces, LoopPlaces
<1>5. PlansApart' BY <1>1, <1>2, <1>3 DEF ThreadsInv, PlansApart, Idle
<1>6. BlocksApart' BY <1>1, <1>2 DEF ThreadsInv, BlocksApart, Hand
<1>7. EntriesApart' BY <1>1, <1>2, <1>3 DEF ThreadsInv, EntriesApart, OwnedBy
<1>8. TablesApart' BY <1>1, <1>2, <1>3 DEF ThreadsInv, TablesApart, OwnedBy
<1> QED BY <1>4, <1>5, <1>6, <1>7, <1>8 DEF ThreadsInv

\* What the request owns is what is freed (cache.py:145-147).
LEMMA ScanEndsKeeps == ASSUME ThreadsInv, ScanEnds PROVE ThreadsInv'
<1> USE DEF At, Threads
<1>1. /\ th["loop"].at = "scanning" /\ UNCHANGED <<free, owner, table, prefixes, plan>>
      /\ DOMAIN th = Threads /\ \A u \in Threads : DOMAIN th[u] = Fields
      /\ th["loop"].giving = {} /\ th["loop"].hand = {} /\ "loop" \in Threads
  BY DEF ScanEnds, ThreadsInv, ThreadPlaces, pools
<1>2. CASE Raise("loop", "failed") BY <1>1, <1>2, RaiseKeeps DEF Quiet
<1>3. CASE ~Raise("loop", "failed")
  <2>1. th' = [th EXCEPT !["loop"].at = "give", !["loop"].back = "drop",
                  !["loop"].giving = OwnedBy(Releasing)]
    BY <1>3 DEF ScanEnds
  <2>2. /\ DOMAIN th' = Threads /\ \A u \in Threads : DOMAIN th'[u] = Fields
        /\ th'["loop"].at = "give" /\ th'["loop"].back = "drop" /\ th'["loop"].hand = {}
        /\ th'["loop"].req = th["loop"].req /\ th'["loop"].giving = OwnedBy(Releasing)
        /\ th'["worker"] = th["worker"]
    BY <1>1, <2>1 DEF Fields
  <2>3. /\ Dropping' /\ ~Dropping /\ (Returning' <=> Returning) /\ Releasing' = Releasing
        /\ Granted' = Granted /\ Planned' = Planned /\ OwnedBy(Releasing)' = OwnedBy(Releasing)
    BY <1>1, <2>2 DEF Dropping, Returning, Granted, Planned, Releasing, OwnedBy
  <2>4. Releasing \in DOMAIN table /\ Releasing \notin Planned /\ Releasing # Cached
    BY <1>1, ThreadsAssumption DEF ThreadsInv, PlansApart, Idle
  <2>5. ThreadPlaces' BY <1>1, <2>2 DEF ThreadsInv, ThreadPlaces, Granted, WorkerPlaces, LoopPlaces
  <2>6. PlansApart' BY <1>1, <2>2, <2>3 DEF ThreadsInv, PlansApart, Idle
  <2>7. \A b \in OwnedBy(Releasing) : b \notin th["worker"].giving /\ b \notin OwnedBy(Cached)
    BY <2>4 DEF ThreadsInv, EntriesApart, TablesApart, OwnedBy
  <2>8. BlocksApart' BY <1>1, <2>2, <2>7 DEF ThreadsInv, BlocksApart, Hand, OwnedBy
  <2>9. EntriesApart'
    <3>1. \A i \in DOMAIN prefixes : prefixes[i].blocks \cap OwnedBy(Releasing) = {}
      BY <2>7 DEF ThreadsInv, EntriesApart
    <3>2. OwnedBy(Cached)' = OwnedBy(Cached) BY <1>1 DEF OwnedBy
    <3> QED BY <1>1, <2>2, <2>3, <3>1, <3>2 DEF ThreadsInv, EntriesApart
  <2>10. TablesApart' BY <1>1, <2>2, <2>3 DEF ThreadsInv, TablesApart, OwnedBy
  <2> QED BY <2>5, <2>6, <2>8, <2>9, <2>10 DEF ThreadsInv
<1> QED BY <1>2, <1>3

\* The table goes with the last of its blocks (cache.py:497-501).
LEMMA DropTableKeeps == ASSUME ThreadsInv, DropTable PROVE ThreadsInv'
<1> USE DEF At, Threads
<1>1. /\ th["loop"].at = "drop" /\ UNCHANGED <<free, owner, prefixes, plan>>
      /\ DOMAIN th = Threads /\ \A u \in Threads : DOMAIN th[u] = Fields
      /\ th["loop"].giving = {} /\ th["loop"].hand = {}
      /\ table' = Restrict(table, DOMAIN table \ {Releasing})
      /\ th' = [th EXCEPT !["loop"] = AtRest]
  BY DEF DropTable, ThreadsInv, ThreadPlaces, pools
<1>2. th'["loop"] = AtRest /\ th'["worker"] = th["worker"] /\ DOMAIN th' = Threads BY <1>1
<1>3. /\ DOMAIN table' = DOMAIN table \ {Releasing}
      /\ \A r \in DOMAIN table' : table'[r] = table[r]
  BY <1>1 DEF Restrict
<1>4. /\ Dropping /\ ~Dropping' /\ (Returning' <=> Returning)
      /\ Granted' = Granted /\ Planned' = Planned /\ Releasing' = "none"
  BY <1>1, <1>2 DEF Dropping, Returning, Granted, Planned, Releasing, AtRest
<1>5. \A b \in DOMAIN owner : owner[b] # Releasing
  BY <1>1, <1>4 DEF ThreadsInv, TablesApart, OwnedBy
<1>6. /\ Planned \subseteq DOMAIN table \ {Releasing}
      /\ \A i \in DOMAIN plan : plan[i].req \in Planned
      /\ DOMAIN Granted \subseteq DOMAIN plan
  BY PlannedApart DEF ThreadsInv, Planned, PlansApart
<1>7. ThreadPlaces' BY <1>1, <1>2 DEF ThreadsInv, ThreadPlaces, Granted, WorkerPlaces, LoopPlaces, AtRest, Fields
<1>8. PlansApart'
  <2>1. IsFiniteSet(DOMAIN table') BY <1>3, FS_Subset DEF ThreadsInv, PlansApart
  <2> QED BY <1>1, <1>2, <1>3, <1>4, <1>6, <2>1 DEF ThreadsInv, PlansApart, Idle, AtRest
<1>9. BlocksApart' BY <1>1, <1>2 DEF ThreadsInv, BlocksApart, Hand, AtRest
<1>10. EntriesApart' BY <1>1, <1>2, <1>4 DEF ThreadsInv, EntriesApart, OwnedBy, AtRest
<1>11. TablesApart'
  <2>1. \A b \in DOMAIN owner : owner[b] \in Reqs => owner[b] \in DOMAIN table'
    BY <1>3, <1>5 DEF ThreadsInv, TablesApart
  <2>2. \A i \in DOMAIN Granted : table'[plan[i].req] = table[plan[i].req] BY <1>3, <1>6
  <2>3. \A r \in DOMAIN table' : table'[r] \subseteq OwnedBy(r)' \ th["worker"].giving
    BY <1>1, <1>3 DEF ThreadsInv, TablesApart, OwnedBy
  <2>4. \A i \in DOMAIN Granted :
          /\ Granted[i] \subseteq OwnedBy(plan[i].req)'
          /\ IF th["worker"].at = "grown" THEN Granted[i] \subseteq table'[plan[i].req]
                                          ELSE Granted[i] \cap table'[plan[i].req] = {}
    BY <1>1, <2>2 DEF ThreadsInv, TablesApart, OwnedBy
  <2>5. \A b \in DOMAIN owner : owner[b] \in Reqs =>
          \/ b \in table'[owner[b]]
          \/ \E i \in DOMAIN Granted : plan[i].req = owner[b] /\ b \in Granted[i]
          \/ Returning /\ b \in th["worker"].giving
    BY <1>3, <1>5, <2>1 DEF ThreadsInv, TablesApart
  <2>6. Returning => \A b \in th["worker"].giving : owner[b] \in Planned
    BY DEF ThreadsInv, TablesApart
  <2> QED BY <1>1, <1>2, <1>4, <2>1, <2>3, <2>4, <2>5, <2>6 DEF TablesApart
<1> QED BY <1>7, <1>8, <1>9, <1>10, <1>11 DEF ThreadsInv

\* A request gets its table, empty (cache.py:360-369).
LEMMA AdmitKeeps == ASSUME ThreadsInv, NEW r \in Reqs, AdmitTable(r) PROVE ThreadsInv'
<1> USE DEF At, Threads
<1>1. /\ UNCHANGED <<free, owner, prefixes, plan, th>> /\ r \notin DOMAIN table
      /\ th["worker"].at = "idle" /\ th["loop"].at = "idle"
      /\ DOMAIN table' = DOMAIN table \cup {r}
      /\ table'[r] = {} /\ \A x \in DOMAIN table : table'[x] = table[x]
  BY DEF AdmitTable, Idle, pools
<1>2. /\ Granted = << >> /\ Granted' = << >> /\ Releasing' = Releasing /\ Planned' = Planned
      /\ ~Dropping /\ ~Dropping' /\ ~Returning /\ ~Returning'
  BY <1>1 DEF ThreadsInv, ThreadPlaces, Granted, Releasing, Planned, Dropping, Returning
<1>3. ThreadPlaces' BY <1>1, <1>2 DEF ThreadsInv, ThreadPlaces
<1>4. PlansApart'
  <2>1. IsFiniteSet(DOMAIN table') BY <1>1, FS_AddElement DEF ThreadsInv, PlansApart
  <2> QED BY <1>1, <1>2, <2>1 DEF ThreadsInv, PlansApart, Idle
<1>5. BlocksApart' BY <1>1 DEF ThreadsInv, BlocksApart, Hand
<1>6. EntriesApart' BY <1>1, <1>2 DEF ThreadsInv, EntriesApart, OwnedBy
<1>7. TablesApart' BY <1>1, <1>2 DEF ThreadsInv, TablesApart, OwnedBy
<1> QED BY <1>3, <1>4, <1>5, <1>6, <1>7 DEF ThreadsInv

-----------------------------------------------------------------------------
(* Plans begin and end.                                                                *)

\* A plan for requests that have tables (scheduler.py:520-525).
LEMMA LaunchKeeps == ASSUME ThreadsInv, LaunchPlan PROVE ThreadsInv'
<1> USE DEF At, Threads
<1>1. /\ UNCHANGED <<free, owner, table, prefixes>>
      /\ th["worker"].at = "idle" /\ th["loop"].at = "idle"
      /\ DOMAIN th = Threads /\ \A u \in Threads : DOMAIN th[u] = Fields
  BY DEF LaunchPlan, Idle, pools, ThreadsInv, ThreadPlaces
<1>0. PICK S \in SUBSET (DOMAIN table \ leaked) \ {{}} :
        \E order \in SetToSeqs(S), need \in [S -> 0..MaxNeed] :
          /\ plan' = [i \in DOMAIN order |-> [req |-> order[i], need |-> need[order[i]]]]
          /\ th' = [th EXCEPT !["worker"] = [AtRest EXCEPT
                       !.at = "evict", !.needed = BlocksNeeded(plan')]]
  BY DEF LaunchPlan
<1>2. PICK order \in SetToSeqs(S), need \in [S -> 0..MaxNeed] :
        /\ plan' = [i \in DOMAIN order |-> [req |-> order[i], need |-> need[order[i]]]]
        /\ th' = [th EXCEPT !["worker"] = [AtRest EXCEPT
                     !.at = "evict", !.needed = BlocksNeeded(plan')]]
  BY <1>0
<1>3. /\ th'["loop"] = th["loop"] /\ DOMAIN th' = Threads /\ DOMAIN th'["worker"] = Fields
      /\ th'["worker"].at = "evict" /\ th'["worker"].giving = {}
      /\ th'["worker"].hand = {} /\ th'["worker"].granted = << >>
  BY <1>1, <1>2 DEF AtRest, Fields
<1>4. /\ Cardinality(S) \in Nat /\ order \in [1..Cardinality(S) -> S]
  <2>1. IsFiniteSet(S) BY FS_Subset DEF ThreadsInv, PlansApart
  <2> QED BY <2>1, FS_CardinalityType DEF SetToSeqs
<1>5. /\ plan' = [i \in 1..Cardinality(S) |-> [req |-> order[i], need |-> need[order[i]]]]
      /\ Len(plan') = Cardinality(S) /\ DOMAIN plan' = 1..Cardinality(S)
      /\ \A i \in DOMAIN plan' : plan'[i].req \in DOMAIN table
  BY <1>2, <1>4
<1>6. /\ Granted' = << >> /\ Granted = << >> /\ Releasing' = Releasing /\ Releasing = "none"
      /\ ~Dropping /\ ~Dropping' /\ ~Returning /\ ~Returning'
  BY <1>1, <1>3 DEF ThreadsInv, ThreadPlaces, PlansApart, Idle, Granted, Releasing, Dropping, Returning
<1>7. ThreadPlaces' BY <1>1, <1>3, <1>6 DEF ThreadsInv, ThreadPlaces, WorkerPlaces, LoopPlaces
<1>8. PlansApart'
  <2>1. Granted' \in Seq(SUBSET Blocks) /\ Len(Granted') = 0 BY <1>6
  <2> QED BY <1>1, <1>3, <1>4, <1>5, <1>6, <2>1 DEF ThreadsInv, PlansApart, Idle
<1>9. BlocksApart' BY <1>1, <1>3 DEF ThreadsInv, BlocksApart, Hand
<1>10. EntriesApart' BY <1>1, <1>3, <1>6 DEF ThreadsInv, EntriesApart, OwnedBy
<1>11. TablesApart' BY <1>1, <1>3, <1>6 DEF ThreadsInv, TablesApart, OwnedBy
<1> QED BY <1>7, <1>8, <1>9, <1>10, <1>11 DEF ThreadsInv

\* The worker is back, whatever became of its plan (scheduler.py:383-401).
LEMMA LandKeeps == ASSUME ThreadsInv, LandPlan PROVE ThreadsInv'
<1> USE DEF At, Threads
<1>1. /\ UNCHANGED <<free, owner, table, prefixes>> /\ plan' = << >>
      /\ th["worker"].at \in {"grown", "failed", "full"} /\ th["loop"].at = "idle"
      /\ DOMAIN th = Threads /\ \A u \in Threads : DOMAIN th[u] = Fields
      /\ th' = [th EXCEPT !["worker"] = AtRest]
  BY DEF LandPlan, Idle, pools, ThreadsInv, ThreadPlaces
<1>2. th'["worker"] = AtRest /\ th'["loop"] = th["loop"] /\ DOMAIN th' = Threads BY <1>1
<1>3. /\ Granted' = << >> /\ Releasing' = Releasing /\ Releasing = "none"
      /\ ~Dropping /\ ~Dropping' /\ ~Returning /\ ~Returning'
  BY <1>1, <1>2 DEF ThreadsInv, PlansApart, Idle, Granted, Releasing, Dropping, Returning, AtRest
<1>4. ThreadPlaces'
  BY <1>1, <1>2, <1>3 DEF ThreadsInv, ThreadPlaces, WorkerPlaces, LoopPlaces, AtRest, Fields
<1>5. PlansApart'
  <2>1. Granted' \in Seq(SUBSET Blocks) /\ Len(Granted') = 0 /\ Len(plan') = 0 /\ DOMAIN plan' = 1..0
    BY <1>1, <1>3
  <2> QED BY <1>1, <1>2, <1>3, <2>1 DEF ThreadsInv, PlansApart, Idle, AtRest
<1>6. BlocksApart' BY <1>1, <1>2 DEF ThreadsInv, BlocksApart, Hand, AtRest
<1>7. EntriesApart' BY <1>1, <1>2, <1>3 DEF ThreadsInv, EntriesApart, OwnedBy, AtRest
<1>8. TablesApart'
  <2>1. \A b \in DOMAIN owner : owner[b] \in Reqs => owner[b] \in DOMAIN table /\ b \in table[owner[b]]
    BY <1>1, <1>3 DEF ThreadsInv, ThreadPlaces, TablesApart
  <2> QED BY <1>1, <1>2, <1>3, <2>1 DEF ThreadsInv, TablesApart, OwnedBy, AtRest
<1> QED BY <1>4, <1>5, <1>6, <1>7, <1>8 DEF ThreadsInv

\* Every step of either thread keeps it.
LEMMA ThreadsKeep == ASSUME ThreadsInv, [ThreadsNext]_threadsVars PROVE ThreadsInv'
<1>1. CASE UNCHANGED <<free, owner, table, prefixes, plan, th>>
  <2>1. UNCHANGED <<Granted, Releasing, Planned, Dropping, Returning>>
    BY <1>1 DEF Granted, Releasing, Planned, Dropping, Returning, At
  <2> QED BY <1>1, <2>1 DEF ThreadsInv, ThreadPlaces, PlansApart, BlocksApart, EntriesApart, TablesApart,
                         At, Idle, Hand, OwnedBy
<1>2. CASE FlightsSpent \/ UNCHANGED threadsVars BY <1>1, <1>2 DEF FlightsSpent, threadsVars
<1>3. CASE ThreadsNext /\ ~FlightsSpent
  BY <1>3, LaunchKeeps, LandKeeps, ExtendKeeps, AdmitKeeps, ReleaseBeginsKeeps, TestsKeep,
     EvictPopKeeps, GiveKeeps, TakeKeeps, OwnKeeps, ReleaseTestsKeep, StoreMoveKeeps,
     StorePopItemKeeps, StoreInsertKeeps, ScanEndsKeeps, DropTableKeeps DEF ThreadsNext
<1> QED BY <1>2, <1>3

\* No block in two places (cache.py:85).
LEMMA ThreadsExclusive == ASSUME ThreadsInv PROVE Exclusive
BY PlannedApart DEF ThreadsInv, PlansApart, BlocksApart, EntriesApart, TablesApart, Exclusive, Hand, Threads,
   Dropping, At

\* A request owns what its table has (cache.py:240-242).
LEMMA ThreadsWhole == ASSUME ThreadsInv PROVE GrowthWhole
<1>1. SUFFICES ASSUME Idle("loop"), th["worker"].at \in {"idle", "grown", "failed", "full"},
                      NEW r \in DOMAIN table
               PROVE  OwnedBy(r) = table[r]
  BY DEF GrowthWhole
<1>2. ~Dropping /\ ~Returning BY <1>1 DEF Dropping, Returning, At, Idle
<1>3. r \in Reqs BY DEF ThreadsInv, PlansApart
<1>4. \A i \in DOMAIN Granted : Granted[i] \subseteq table[plan[i].req]
  BY <1>1 DEF ThreadsInv, ThreadPlaces, TablesApart, At
<1> QED BY <1>2, <1>3, <1>4 DEF ThreadsInv, TablesApart, OwnedBy

-------------------------------------------------------------------------------
(* The forward pass of the serial modes.  Each request has slots of its own in the     *)
(* cache, every position up to its length holds its own token, and between two steps   *)
(* the length is what the request has fed.                                             *)

CacheFields == {"places", "lengths", "store", "freePages"}

\* The slots of the requests are in the cache, and no slot is that of two positions.
PlacesApart(c) ==
    /\ \A r \in DOMAIN c.places : c.places[r] \in Seq(DOMAIN c.store)
    /\ \A r, q \in DOMAIN c.places : \A i \in DOMAIN c.places[r], j \in DOMAIN c.places[q] :
          c.places[r][i] = c.places[q][j] => r = q /\ i = j

\* Each position up to the length of a request holds its own token, in its own rotation.
HoldsOwn(c) ==
    /\ DOMAIN c.lengths = DOMAIN c.places
    /\ \A r \in DOMAIN c.places :
          /\ c.lengths[r] \in 0..Len(c.places[r])
          /\ \A p \in 0..c.lengths[r] - 1 : c.store[c.places[r][p + 1]] = <<r, p, p>>

\* A buffer of each request's own ...
BuffersOwn(c) == \A r \in DOMAIN c.places : \A i \in DOMAIN c.places[r] : c.places[r][i] = <<r, i>>

\* ... or whole pages, which are not free.
Pages == 1..PageCount
NoneTwice(s) == \A i, j \in DOMAIN s : s[i] = s[j] => i = j
PagesApart(c) ==
    \A r, q \in DOMAIN c.places : \A i \in DOMAIN BlockTable(c, r), j \in DOMAIN BlockTable(c, q) :
        BlockTable(c, r)[i] = BlockTable(c, q)[j] => r = q /\ i = j
PagesOwn(c) ==
    /\ DOMAIN c.store = Pages \X (0..PageTokens - 1)
    /\ c.freePages \in Seq(Pages) /\ NoneTwice(c.freePages)
    /\ \A r \in DOMAIN c.places :
          /\ BlockTable(c, r) \in Seq(Pages) /\ c.places[r] = SlotsOfPages(BlockTable(c, r))
          /\ \A j \in DOMAIN BlockTable(c, r), k \in DOMAIN c.freePages :
                BlockTable(c, r)[j] # c.freePages[k]
    /\ PagesApart(c)

CacheSound(c) ==
    /\ DOMAIN c = CacheFields
    /\ PlacesApart(c) /\ HoldsOwn(c)
    /\ IF mode \in Paged THEN PagesOwn(c) ELSE BuffersOwn(c)

ServingTypes ==
    /\ mode \in Paged \cup Buffered /\ serving \subseteq served
    /\ DOMAIN prompt = serving /\ DOMAIN limit = serving /\ DOMAIN stepped = serving
    /\ \A r \in serving : prompt[r] \in Nat \ {0} /\ limit[r] \in Nat /\ stepped[r] \in 0..limit[r]

\* What the cache knows of the requests between two steps.
ServingCached ==
    /\ DOMAIN cache.places = IF mode = Uncached THEN {} ELSE serving
    /\ mode # Uncached => \A r \in serving :
          /\ prompt[r] + limit[r] <= Len(cache.places[r])
          /\ cache.lengths[r] = IF stepped[r] = 0 THEN 0 ELSE prompt[r] + stepped[r] - 1

SawOwn(s) ==
    /\ DOMAIN s = {"req", "from", "rows", "whole"} /\ s.whole = TRUE
    /\ \A i \in DOMAIN s.rows : s.rows[i] = [p \in 0..s.from + i - 1 |-> <<s.req, p, p>>]

ServingInv == ServingTypes /\ CacheSound(cache) /\ ServingCached /\ SawOwn(saw)

-------------------------------------------------------------------------------
(* Arithmetic of pages.                                                                *)

\* Division with a remainder.
LEMMA Quotient ==
    ASSUME NEW B \in Nat, B > 0, NEW p \in Nat
    PROVE  p \div B \in Nat /\ p % B \in 0..B - 1 /\ p = B * (p \div B) + (p % B)
<1> DEFINE d == p \div B
           m == p - B * d
           r == p % B
<1>1. d \in Nat /\ B * d <= p /\ p - B * d < B OBVIOUS
<1> HIDE DEF d
<1>2. B * d \in Nat BY <1>1
<1>3. m \in 0..B - 1 /\ p = B * d + m BY <1>1, <1>2
<1> HIDE DEF m
<1>4. r = m BY <1>1, <1>3
<1> HIDE DEF r
<1>5. d \in Nat /\ r \in 0..B - 1 /\ p = B * d + r BY <1>1, <1>3, <1>4
<1> QED BY <1>5 DEF d, r

\* Of n blocks of B, the block of a position before n * B is one of them.
LEMMA QuotientBelow ==
    ASSUME NEW B \in Nat, B > 0, NEW n \in Nat, NEW p \in 0..n * B - 1
    PROVE  p \div B \in 0..n - 1
<1> DEFINE d == p \div B
<1>1. p \in Nat /\ n * B \in Nat OBVIOUS
<1>2. d \in Nat /\ B * d <= p BY <1>1, Quotient
<1> HIDE DEF d
<1>3. SUFFICES ASSUME d >= n PROVE FALSE BY <1>2 DEF d
<1>4. B * d >= B * n BY <1>2, <1>3
<1>5. B * n = n * B OBVIOUS
<1> QED BY <1>1, <1>2, <1>4, <1>5

\* The last position of the j-th block is in it.
LEMMA QuotientLast ==
    ASSUME NEW B \in Nat, B > 0, NEW j \in Nat \ {0}
    PROVE  j * B \in Nat \ {0} /\ (j * B - 1) \div B = j - 1 /\ (j * B) \div B = j
<1>1. j * B \in Nat \ {0} /\ j * B >= B OBVIOUS
<1>2. (j - 1) * B \in Nat /\ (j - 1) * B + B = j * B OBVIOUS
<1> DEFINE p == j * B - 1
           d == p \div B
<1>3. p \in Nat BY <1>1
<1>4. d \in Nat /\ B * d <= p /\ p < B * d + B BY <1>3, Quotient
<1>5. d = j - 1
  <2> HIDE DEF d
  <2>1. CASE d >= j
    <3>1. B * d >= B * j BY <2>1, <1>4
    <3> QED BY <3>1, <1>1, <1>4
  <2>2. CASE d <= j - 2
    <3>1. B * d + B = B * (d + 1) BY <1>4
    <3>2. d + 1 <= j - 1 BY <2>2, <1>4
    <3>3. B * (d + 1) <= B * (j - 1) BY <3>2, <1>4
    <3> QED BY <3>1, <3>3, <1>1, <1>2, <1>4
  <2> QED BY <2>1, <2>2, <1>4
<1> DEFINE e == (j * B) \div B
           m == (j * B) % B
<1>6. e \in Nat /\ m \in 0..B - 1 /\ j * B = B * e + m BY <1>1, Quotient
<1>7. e = j
  <2> HIDE DEF e, m
  <2>1. CASE e >= j + 1
    <3>1. B * e >= B * (j + 1) BY <2>1, <1>6
    <3> QED BY <3>1, <1>1, <1>6
  <2>2. CASE e <= j - 1
    <3>1. B * e <= B * (j - 1) BY <2>2, <1>6
    <3> QED BY <3>1, <1>1, <1>2, <1>6
  <2> QED BY <2>1, <2>2, <1>6
<1> QED BY <1>1, <1>5, <1>7

\* The slots of the pages t.
LEMMA SlotsAre ==
    ASSUME NEW t \in Seq(Pages)
    PROVE  /\ SlotsOfPages(t) \in Seq(Pages \X (0..PageTokens - 1))
           /\ Len(SlotsOfPages(t)) = Len(t) * PageTokens
           /\ \A p \in 0..Len(t) * PageTokens - 1 :
                 /\ p \div PageTokens + 1 \in DOMAIN t /\ p % PageTokens \in 0..PageTokens - 1
                 /\ SlotsOfPages(t)[p + 1] = <<t[p \div PageTokens + 1], p % PageTokens>>
<1> DEFINE B == PageTokens
           n == Len(t)
<1>1. B \in Nat /\ B > 0 /\ n \in Nat /\ n * B \in Nat /\ DOMAIN t = 1..n BY SerialForwardAssumption
<1>2. \A p \in 0..n * B - 1 : p \div B + 1 \in 1..n /\ p % B \in 0..B - 1
  <2> TAKE p \in 0..n * B - 1
  <2>1. p \in Nat BY <1>1
  <2>2. p \div B \in 0..n - 1 BY <1>1, QuotientBelow
  <2>3. p % B \in 0..B - 1 BY <1>1, <2>1, Quotient
  <2> HIDE DEF B
  <2> QED BY <2>2, <2>3, <1>1
<1>3. SlotsOfPages(t) = [i \in 1..n * B |-> <<t[(i - 1) \div B + 1], (i - 1) % B>>] BY DEF SlotsOfPages
<1> HIDE DEF B, n
<1> DEFINE S == SlotsOfPages(t)
<1>4. \A i \in 1..n * B : i - 1 \in 0..n * B - 1 BY <1>1
<1>5. \A i \in 1..n * B : S[i] \in Pages \X (0..B - 1) BY <1>1, <1>2, <1>3, <1>4
<1>6. DOMAIN S = 1..n * B BY <1>3
<1>7. S \in Seq(Pages \X (0..B - 1)) /\ Len(S) = n * B BY <1>1, <1>3, <1>5, <1>6
<1>8. ASSUME NEW p \in 0..n * B - 1 PROVE S[p + 1] = <<t[p \div B + 1], p % B>>
  <2>1. p + 1 \in 1..n * B /\ (p + 1) - 1 = p BY <1>1
  <2> QED BY <2>1, <1>3
<1> QED BY <1>1, <1>2, <1>7, <1>8 DEF B, n

\* The table of a request has the pages its slots were made of.
LEMMA TableIs ==
    ASSUME NEW c, NEW r, NEW t \in Seq(Pages), c.places[r] = SlotsOfPages(t)
    PROVE  BlockTable(c, r) = t
<1> DEFINE B == PageTokens
           n == Len(t)
           S == SlotsOfPages(t)
<1>1. B \in Nat /\ B > 0 /\ n \in Nat /\ n * B \in Nat /\ DOMAIN t = 1..n BY SerialForwardAssumption
<1>2. Len(S) = n * B BY SlotsAre
<1>3. Len(S) \div B = n
  <2>1. CASE n = 0
    <3>1. n * B = 0 BY <2>1, <1>1
    <3> QED BY <3>1, <2>1, <1>1, <1>2
  <2>2. CASE n # 0 BY <2>2, <1>1, <1>2, QuotientLast
  <2> QED BY <2>1, <2>2
<1>4. ASSUME NEW j \in 1..n PROVE S[j * B][1] = t[j]
  <2>1. j \in Nat \ {0} BY <1>1
  <2>2. j * B \in Nat \ {0} /\ (j * B - 1) \div B = j - 1 BY <1>1, <2>1, QuotientLast
  <2>3. j * B <= n * B BY <1>1
  <2> DEFINE p == j * B - 1
  <2>4. p \in 0..n * B - 1 /\ p + 1 = j * B BY <1>1, <2>2, <2>3
  <2>5. S[p + 1] = <<t[p \div B + 1], p % B>> BY <2>4, SlotsAre
  <2>6. p \div B + 1 = j BY <2>1, <2>2
  <2>7. S[j * B] = <<t[j], p % B>> BY <2>4, <2>5, <2>6
  <2> QED BY <2>7
<1>5. BlockTable(c, r) = [j \in 1..n |-> S[j * B][1]] BY <1>3 DEF BlockTable
<1>6. BlockTable(c, r) = [j \in 1..n |-> t[j]] BY <1>4, <1>5
<1> QED BY <1>1, <1>6

\* Pages for n tokens have room for them.
LEMMA PagesReach ==
    ASSUME NEW n \in Nat
    PROVE  PagesFor(n) \in Nat /\ n <= PagesFor(n) * PageTokens
<1> DEFINE B == PageTokens
           m == n + B - 1
           d == m \div B
<1>1. B \in Nat /\ B > 0 BY SerialForwardAssumption
<1>2. m \in Nat BY <1>1
<1>3. d \in Nat /\ m < B * d + B BY <1>1, <1>2, Quotient
<1>4. d = PagesFor(n) BY DEF PagesFor
<1> HIDE DEF d
<1>5. B * d \in Nat BY <1>1, <1>3
<1>6. n <= B * d BY <1>1, <1>3, <1>5
<1> QED BY <1>1, <1>3, <1>4, <1>6

-------------------------------------------------------------------------------
(* The caches.                                                                         *)

LEMMA MaxIs == ASSUME NEW m \in Nat, NEW n \in Nat PROVE Max({m, n}) = IF m >= n THEN m ELSE n
<1> DEFINE k == IF m >= n THEN m ELSE n
<1>1. k \in {m, n} /\ \A y \in {m, n} : k >= y OBVIOUS
<1>2. \A x \in {m, n} : (\A y \in {m, n} : x >= y) => x = k OBVIOUS
<1> HIDE DEF k
<1>3. Max({m, n}) = k BY <1>1, <1>2 DEF Max
<1> QED BY <1>3 DEF k

LEMMA MinIs == ASSUME NEW m \in Nat, NEW n \in Nat PROVE Min({m, n}) = IF m <= n THEN m ELSE n
<1> DEFINE k == IF m <= n THEN m ELSE n
<1>1. k \in {m, n} /\ \A y \in {m, n} : k <= y OBVIOUS
<1>2. \A x \in {m, n} : (\A y \in {m, n} : x <= y) => x = k OBVIOUS
<1> HIDE DEF k
<1>3. Min({m, n}) = k BY <1>1, <1>2 DEF Min
<1> QED BY <1>3 DEF k

\* d is c after the positions start .. start + n - 1 of r were written.
Appended(c, d, r, start, n) ==
    /\ DOMAIN d = CacheFields
    /\ d.places = c.places /\ d.freePages = c.freePages
    /\ DOMAIN d.lengths = DOMAIN c.lengths /\ \A q \in DOMAIN c.lengths \ {r} : d.lengths[q] = c.lengths[q]
    /\ d.lengths[r] = IF c.lengths[r] >= start + n THEN c.lengths[r] ELSE start + n
    /\ DOMAIN d.store = DOMAIN c.store
    /\ \A i \in 1..n : d.store[c.places[r][start + i]] = <<r, start + i - 1, start + i - 1>>
    /\ \A s \in DOMAIN c.store : (\A i \in 1..n : s # c.places[r][start + i]) => d.store[s] = c.store[s]

LEMMA AppendIs ==
    ASSUME NEW c, CacheSound(c), NEW r \in DOMAIN c.places, NEW start \in Nat, NEW n \in Nat,
           start + n <= Len(c.places[r])
    PROVE  Appended(c, AppendKV(c, r, start, start, n), r, start, n)
<1> DEFINE d == AppendKV(c, r, start, start, n)
           slot(i) == c.places[r][start + i]
           new == Rotated(r, start, start, n)
           at(s) == {i \in 1..n : slot(i) = s}
<1>1. DOMAIN c = CacheFields /\ DOMAIN c.lengths = DOMAIN c.places /\ c.lengths[r] \in Nat
  BY DEF CacheSound, HoldsOwn
<1>2. c.places[r] \in Seq(DOMAIN c.store) BY DEF CacheSound, PlacesApart
<1>3. \A i \in 1..n : start + i \in DOMAIN c.places[r] BY <1>2
<1>4. \A i \in 1..n : slot(i) \in DOMAIN c.store BY <1>2, <1>3
<1>5. \A i, j \in 1..n : slot(i) = slot(j) => i = j
  <2> TAKE i, j \in 1..n
  <2>1. slot(i) = slot(j) => start + i = start + j BY <1>3 DEF CacheSound, PlacesApart
  <2> QED BY <2>1
<1>6. \A i \in 1..n : new[i] = <<r, start + i - 1, start + i - 1>> BY DEF Rotated
<1>7. \A i \in 1..n : at(slot(i)) = {i} BY <1>5
<1>8. /\ d.store = [s \in DOMAIN c.store |-> IF at(s) = {} THEN c.store[s] ELSE new[CHOOSE i \in at(s) : TRUE]]
      /\ d.lengths = [c.lengths EXCEPT ![r] = Max({@, start + n})]
      /\ d.places = c.places /\ d.freePages = c.freePages /\ DOMAIN d = CacheFields
  BY <1>1 DEF AppendKV, CacheFields
<1> HIDE DEF d, new
<1>9. ASSUME NEW i \in 1..n PROVE d.store[slot(i)] = <<r, start + i - 1, start + i - 1>>
  <2>1. (CHOOSE j \in at(slot(i)) : TRUE) = i BY <1>7
  <2>2. at(slot(i)) # {} BY <1>7
  <2> HIDE DEF at, slot
  <2>3. d.store[slot(i)] = new[i] BY <1>4, <1>8, <2>1, <2>2
  <2> QED BY <2>3, <1>6
<1>10. \A s \in DOMAIN c.store : (\A i \in 1..n : s # slot(i)) => d.store[s] = c.store[s]
  <2> TAKE s \in DOMAIN c.store
  <2>1. (\A i \in 1..n : s # slot(i)) => at(s) = {} OBVIOUS
  <2> HIDE DEF at
  <2> QED BY <2>1, <1>8
<1>11. d.lengths[r] = IF c.lengths[r] >= start + n THEN c.lengths[r] ELSE start + n
  <2>1. start + n \in Nat OBVIOUS
  <2>2. d.lengths[r] = Max({c.lengths[r], start + n}) BY <1>1, <1>8
  <2> QED BY <2>1, <2>2, <1>1, MaxIs
<1>12. DOMAIN d.lengths = DOMAIN c.lengths /\ \A q \in DOMAIN c.lengths \ {r} : d.lengths[q] = c.lengths[q]
  BY <1>8
<1>13. DOMAIN d.store = DOMAIN c.store BY <1>8
<1> QED BY <1>8, <1>9, <1>10, <1>11, <1>12, <1>13 DEF Appended, d

LEMMA AppendSound ==
    ASSUME NEW c, CacheSound(c), NEW r \in DOMAIN c.places, NEW start \in Nat, NEW n \in Nat,
           start + n <= Len(c.places[r]), start <= c.lengths[r], NEW d, Appended(c, d, r, start, n)
    PROVE  CacheSound(d)
<1>1. PlacesApart(c) /\ HoldsOwn(c) /\ d.places = c.places /\ DOMAIN d.store = DOMAIN c.store
  BY DEF CacheSound, Appended
<1>2. PlacesApart(d) BY <1>1 DEF PlacesApart
<1>3. HoldsOwn(d)
  <2>1. DOMAIN d.lengths = DOMAIN d.places BY <1>1 DEF HoldsOwn, Appended
  <2>2. ASSUME NEW q \in DOMAIN d.places
        PROVE  /\ d.lengths[q] \in 0..Len(d.places[q])
               /\ \A p \in 0..d.lengths[q] - 1 : d.store[d.places[q][p + 1]] = <<q, p, p>>
    <3>1. /\ c.lengths[q] \in 0..Len(c.places[q])
          /\ \A p \in 0..c.lengths[q] - 1 : c.store[c.places[q][p + 1]] = <<q, p, p>>
      BY <1>1, <2>2 DEF HoldsOwn
    <3>2. c.places[q] \in Seq(DOMAIN c.store) /\ c.places[r] \in Seq(DOMAIN c.store)
      BY <1>1, <2>2 DEF PlacesApart
    <3>3. Len(c.places[q]) \in Nat /\ DOMAIN c.places[q] = 1..Len(c.places[q])
          /\ DOMAIN c.places[r] = 1..Len(c.places[r]) BY <3>2
    <3>4. ASSUME NEW p \in 0..c.lengths[q] - 1, q = r => p < start \/ p >= start + n
          PROVE  d.store[c.places[q][p + 1]] = <<q, p, p>>
      <4>1. p \in Nat /\ p + 1 \in DOMAIN c.places[q]
        <5>1. c.lengths[q] \in Nat /\ c.lengths[q] <= Len(c.places[q]) BY <3>1, <3>3
        <5>2. p \in Nat /\ p + 1 \in 1..Len(c.places[q]) BY <5>1, <3>3
        <5> QED BY <5>2, <3>3
      <4>2. \A i \in 1..n : c.places[q][p + 1] # c.places[r][start + i]
        <5> TAKE i \in 1..n
        <5>1. start + i \in DOMAIN c.places[r] BY <3>2, <3>3
        <5>2. c.places[q][p + 1] = c.places[r][start + i] => q = r /\ p + 1 = start + i
          BY <1>1, <2>2, <4>1, <5>1 DEF PlacesApart
        <5> QED BY <5>2, <3>4, <4>1
      <4>3. c.places[q][p + 1] \in DOMAIN c.store BY <4>1, <3>2
      <4> QED BY <4>2, <4>3, <3>1 DEF Appended
    <3>5. CASE q # r
      <4>1. d.lengths[q] = c.lengths[q] BY <3>5, <1>1, <2>1, <2>2 DEF Appended
      <4> QED BY <4>1, <3>1, <3>4, <3>5, <1>1
    <3>6. CASE q = r
      <4>1. d.lengths[r] = IF c.lengths[r] >= start + n THEN c.lengths[r] ELSE start + n BY DEF Appended
      <4>2. d.lengths[r] \in 0..Len(c.places[r]) BY <4>1, <3>1, <3>3, <3>6
      <4>3. ASSUME NEW p \in 0..d.lengths[r] - 1 PROVE d.store[c.places[r][p + 1]] = <<r, p, p>>
        <5>1. CASE p < start \/ p >= start + n
          <6>1. p \in 0..c.lengths[r] - 1 BY <5>1, <4>1, <3>1, <3>6
          <6> QED BY <6>1, <5>1, <3>4, <3>6
        <5>2. CASE ~(p < start \/ p >= start + n)
          <6> DEFINE i == p - start + 1
          <6>1. p \in Nat BY <4>2
          <6>2. i \in 1..n /\ start + i = p + 1 /\ start + i - 1 = p BY <6>1, <5>2
          <6> HIDE DEF i
          <6>3. d.store[c.places[r][start + i]] = <<r, start + i - 1, start + i - 1>> BY <6>2 DEF Appended
          <6> QED BY <6>2, <6>3
        <5> QED BY <5>1, <5>2
      <4> QED BY <4>2, <4>3, <3>6, <1>1
    <3> QED BY <3>5, <3>6
  <2> QED BY <2>1, <2>2 DEF HoldsOwn
<1>4. PagesOwn(c) => PagesOwn(d)
  <2>1. \A q : BlockTable(d, q) = BlockTable(c, q) BY <1>1 DEF BlockTable
  <2>2. PagesApart(c) => PagesApart(d) BY <1>1, <2>1 DEF PagesApart
  <2> QED BY <1>1, <2>1, <2>2 DEF PagesOwn, Appended
<1>5. BuffersOwn(c) => BuffersOwn(d) BY <1>1 DEF BuffersOwn
<1>6. DOMAIN d = CacheFields BY DEF Appended
<1> QED BY <1>2, <1>3, <1>4, <1>5, <1>6 DEF CacheSound

-------------------------------------------------------------------------------
(* Reserving and releasing.                                                            *)

\* c knows r as well, whose n places are empty yet; the others are as they were.
Reserved(c, d, r, n) ==
    /\ CacheSound(d) /\ DOMAIN d.places = DOMAIN c.places \cup {r}
    /\ \A q \in DOMAIN c.places : d.places[q] = c.places[q] /\ d.lengths[q] = c.lengths[q]
    /\ n <= Len(d.places[r]) /\ d.lengths[r] = 0

\* r gets the slots s, in which nobody else has a position.
Enters(c, d, r, s) ==
    /\ DOMAIN d = CacheFields
    /\ d.places = Put(c.places, r, s) /\ d.lengths = Put(c.lengths, r, 0)
    /\ s \in Seq(DOMAIN d.store)
    /\ \A x \in DOMAIN c.store : x \in DOMAIN d.store /\ d.store[x] = c.store[x]
    /\ \A i, j \in DOMAIN s : s[i] = s[j] => i = j
    /\ \A q \in DOMAIN c.places : \A i \in DOMAIN c.places[q], j \in DOMAIN s : c.places[q][i] # s[j]

\* The others keep what they have.
LEMMA EntersHolds ==
    ASSUME NEW c, CacheSound(c), NEW r, r \notin DOMAIN c.places, NEW d, NEW s, Enters(c, d, r, s)
    PROVE  /\ PlacesApart(d) /\ HoldsOwn(d) /\ DOMAIN d.places = DOMAIN c.places \cup {r}
           /\ \A q \in DOMAIN c.places : d.places[q] = c.places[q] /\ d.lengths[q] = c.lengths[q]
           /\ d.places[r] = s /\ d.lengths[r] = 0
<1>1. PlacesApart(c) /\ HoldsOwn(c) BY DEF CacheSound
<1>2. DOMAIN d.places = DOMAIN c.places \cup {r} /\ d.places[r] = s BY DEF Put, Enters
<1>3. DOMAIN d.lengths = DOMAIN c.places \cup {r} /\ d.lengths[r] = 0 BY <1>1 DEF Put, HoldsOwn, Enters
<1>4. \A q \in DOMAIN c.places : d.places[q] = c.places[q] /\ d.lengths[q] = c.lengths[q]
  BY <1>1 DEF Put, HoldsOwn, Enters
<1>5. PlacesApart(d)
  <2> USE DEF Enters
  <2>1. \A q \in DOMAIN c.places : d.places[q] \in Seq(DOMAIN d.store)
    <3> TAKE q \in DOMAIN c.places
    <3>1. c.places[q] \in Seq(DOMAIN c.store) BY <1>1 DEF PlacesApart
    <3>2. \A x \in DOMAIN c.store : x \in DOMAIN d.store BY DEF Enters
    <3> QED BY <3>1, <3>2, <1>4
  <2>2. ASSUME NEW q \in DOMAIN d.places, NEW o \in DOMAIN d.places, NEW i \in DOMAIN d.places[q],
               NEW j \in DOMAIN d.places[o], d.places[q][i] = d.places[o][j]
        PROVE  q = o /\ i = j
    <3>1. CASE q = r /\ o = r BY <3>1, <2>2, <1>2
    <3>2. CASE q # r /\ o = r
      <4>1. q \in DOMAIN c.places /\ d.places[q] = c.places[q] BY <3>2, <1>2, <1>4, <2>2
      <4> QED BY <4>1, <3>2, <2>2, <1>2
    <3>3. CASE q = r /\ o # r
      <4>1. o \in DOMAIN c.places /\ d.places[o] = c.places[o] BY <3>3, <1>2, <1>4, <2>2
      <4> QED BY <4>1, <3>3, <2>2, <1>2
    <3>4. CASE q # r /\ o # r
      <4>1. /\ q \in DOMAIN c.places /\ d.places[q] = c.places[q]
            /\ o \in DOMAIN c.places /\ d.places[o] = c.places[o] BY <3>4, <1>2, <1>4, <2>2
      <4> QED BY <4>1, <2>2, <1>1 DEF PlacesApart
    <3> QED BY <3>1, <3>2, <3>3, <3>4
  <2> QED BY <1>2, <2>1, <2>2 DEF PlacesApart
<1>6. HoldsOwn(d)
  <2>1. d.lengths[r] \in 0..Len(d.places[r]) /\ 0..d.lengths[r] - 1 = {} BY <1>2, <1>3
  <2>2. ASSUME NEW q \in DOMAIN c.places
        PROVE  /\ d.lengths[q] \in 0..Len(d.places[q])
               /\ \A p \in 0..d.lengths[q] - 1 : d.store[d.places[q][p + 1]] = <<q, p, p>>
    <3>1. /\ c.lengths[q] \in 0..Len(c.places[q])
          /\ \A p \in 0..c.lengths[q] - 1 : c.store[c.places[q][p + 1]] = <<q, p, p>>
      BY <1>1 DEF HoldsOwn
    <3>2. \A p \in 0..c.lengths[q] - 1 : c.places[q][p + 1] \in DOMAIN c.store
      <4> TAKE p \in 0..c.lengths[q] - 1
      <4>1. c.places[q] \in Seq(DOMAIN c.store) BY <1>1 DEF PlacesApart
      <4>2. c.lengths[q] \in Nat /\ c.lengths[q] <= Len(c.places[q]) /\ Len(c.places[q]) \in Nat BY <3>1, <4>1
      <4>3. p + 1 \in 1..Len(c.places[q]) BY <4>2
      <4> QED BY <4>1, <4>3
    <3> QED BY <3>1, <3>2, <1>4 DEF Enters
  <2> QED BY <1>2, <1>3, <2>1, <2>2 DEF HoldsOwn
<1> QED BY <1>2, <1>3, <1>4, <1>5, <1>6

\* t is the last m of f, from its end, and h what is left of it.
Topped(P, f, m, t, h) ==
    /\ t \in Seq(P) /\ Len(t) = m /\ NoneTwice(t)
    /\ h \in Seq(P) /\ NoneTwice(h)
    /\ \A j \in DOMAIN t : \E k \in DOMAIN f : t[j] = f[k]
    /\ \A j \in DOMAIN t, k \in DOMAIN h : t[j] # h[k]
    /\ \A k \in DOMAIN h : k \in DOMAIN f /\ h[k] = f[k]

LEMMA TopOf ==
    ASSUME NEW P, NEW f \in Seq(P), NoneTwice(f), NEW m \in 0..Len(f)
    PROVE  Topped(P, f, m, Reverse(SubSeq(f, Len(f) - m + 1, Len(f))), SubSeq(f, 1, Len(f) - m))
<1> DEFINE N == Len(f)
           left == N - m
           g == SubSeq(f, left + 1, N)
           h == SubSeq(f, 1, left)
           t == Reverse(SubSeq(f, Len(f) - m + 1, Len(f)))
<1>1. N \in Nat /\ m \in 0..N /\ left = N - m /\ DOMAIN f = 1..N /\ left \in Nat /\ left <= N
      /\ \A k \in 1..N : f[k] \in P OBVIOUS
<1>2. g = [i \in 1..m |-> f[left + i]] BY <1>1
<1>3. h = [i \in 1..left |-> f[i]] BY <1>1
<1> HIDE DEF g, h
<1>4. Len(g) = m BY <1>1, <1>2
<1>5. t = [i \in 1..m |-> g[(m - i) + 1]] BY <1>4 DEF Reverse, g
<1> HIDE DEF t, left
<1>6. \A i \in 1..m : (m - i) + 1 \in 1..m /\ left + ((m - i) + 1) = N + 1 - i BY <1>1
<1>7. ASSUME NEW i \in 1..m PROVE t[i] = f[N + 1 - i]
  <2> DEFINE k == (m - i) + 1
  <2>1. k \in 1..m /\ left + k = N + 1 - i BY <1>6
  <2>2. t[i] = g[k] BY <1>5
  <2> HIDE DEF k
  <2>3. g[k] = f[left + k] BY <1>2, <2>1
  <2> QED BY <2>1, <2>2, <2>3
<1>8. \A i \in 1..m : N + 1 - i \in 1..N /\ N + 1 - i > left BY <1>1
<1>9. DOMAIN t = 1..m BY <1>5
<1> HIDE DEF N
<1>10. t \in Seq(P) /\ Len(t) = m
  <2>1. \A i \in 1..m : t[i] \in P BY <1>1, <1>7, <1>8
  <2> QED BY <1>1, <1>5, <1>9, <2>1
<1>11. NoneTwice(t)
  <2> SUFFICES ASSUME NEW i \in 1..m, NEW j \in 1..m, t[i] = t[j] PROVE i = j BY <1>9 DEF NoneTwice
  <2>1. f[N + 1 - i] = f[N + 1 - j] BY <1>7
  <2>2. N + 1 - i = N + 1 - j BY <2>1, <1>1, <1>8 DEF NoneTwice
  <2> QED BY <2>2, <1>1
<1>12. h \in Seq(P) /\ DOMAIN h = 1..left /\ \A k \in 1..left : k \in 1..N /\ h[k] = f[k] BY <1>1, <1>3
<1>13. NoneTwice(h) BY <1>12, <1>1 DEF NoneTwice
<1>14. ASSUME NEW j \in 1..m, NEW k \in 1..left PROVE t[j] # h[k]
  <2>1. SUFFICES ASSUME f[N + 1 - j] = f[k] PROVE FALSE BY <1>7, <1>12
  <2>2. N + 1 - j = k BY <2>1, <1>1, <1>8, <1>12 DEF NoneTwice
  <2> QED BY <2>2, <1>8, <1>1
<1>15. \A j \in 1..m : \E k \in 1..N : t[j] = f[k] BY <1>7, <1>8
<1> QED BY <1>1, <1>9, <1>10, <1>11, <1>12, <1>13, <1>14, <1>15 DEF Topped, h, t, left, N

\* A slot belongs to one page, and to one place of its table.
LEMMA SlotsApart ==
    ASSUME NEW t \in Seq(Pages)
    PROVE  /\ \A i \in DOMAIN SlotsOfPages(t) : \E j \in DOMAIN t : SlotsOfPages(t)[i][1] = t[j]
           /\ NoneTwice(t) => \A i, j \in DOMAIN SlotsOfPages(t) :
                                 SlotsOfPages(t)[i] = SlotsOfPages(t)[j] => i = j
<1> DEFINE B == PageTokens
           S == SlotsOfPages(t)
           N == Len(t) * B
<1>1. B \in Nat /\ B > 0 /\ Len(t) \in Nat BY SerialForwardAssumption
<1>2. N \in Nat BY <1>1
<1>3. S \in Seq(Pages \X (0..B - 1)) /\ Len(S) = N BY SlotsAre
<1>4. \A p \in 0..N - 1 : /\ p \div B + 1 \in DOMAIN t /\ p % B \in 0..B - 1
                          /\ S[p + 1] = <<t[p \div B + 1], p % B>>
  BY SlotsAre
<1> HIDE DEF S, N
<1>5. DOMAIN S = 1..N /\ \A i \in 1..N : i - 1 \in 0..N - 1 /\ (i - 1) + 1 = i BY <1>2, <1>3
<1>6. \A i \in 1..N : (i - 1) \div B + 1 \in DOMAIN t /\ S[i] = <<t[(i - 1) \div B + 1], (i - 1) % B>>
  BY <1>4, <1>5
<1>7. ASSUME NoneTwice(t), NEW i \in 1..N, NEW j \in 1..N, S[i] = S[j] PROVE i = j
  <2> DEFINE p == i - 1
             q == j - 1
  <2>1. p \in Nat /\ q \in Nat /\ i = p + 1 /\ j = q + 1 BY <1>2
  <2>2. t[p \div B + 1] = t[q \div B + 1] /\ p % B = q % B BY <1>6, <1>7
  <2>3. p \div B + 1 = q \div B + 1 BY <2>2, <1>6, <1>7 DEF NoneTwice
  <2>4. p \div B \in Nat /\ p = B * (p \div B) + (p % B) BY <1>1, <2>1, Quotient
  <2>5. q \div B \in Nat /\ q = B * (q \div B) + (q % B) BY <1>1, <2>1, Quotient
  <2> HIDE DEF p, q
  <2>6. p \div B = q \div B BY <2>3, <2>4, <2>5
  <2>7. p = q BY <2>2, <2>4, <2>5, <2>6
  <2> QED BY <2>1, <2>7
<1>8. \A i \in 1..N : \E j \in DOMAIN t : S[i][1] = t[j] BY <1>6
<1> QED BY <1>5, <1>7, <1>8 DEF S

LEMMA ReserveSound ==
    ASSUME NEW c, CacheSound(c), NEW r, r \notin DOMAIN c.places, NEW n \in Nat, MayReserve(c, n)
    PROVE  Reserved(c, Reserve(c, r, n), r, n)
<1> DEFINE d == Reserve(c, r, n)
<1>1. DOMAIN c = CacheFields BY DEF CacheSound
<1>2. CASE mode \in Paged
  <2> DEFINE f == c.freePages
             left == Len(f) - PagesFor(n)
             t == Reverse(SubSeq(f, left + 1, Len(f)))
             s == SlotsOfPages(t)
             m == PagesFor(n)
  <2>1. PagesOwn(c) /\ f \in Seq(Pages) /\ NoneTwice(f) BY <1>2 DEF CacheSound, PagesOwn
  <2>2. /\ d.places = Put(c.places, r, s) /\ d.lengths = Put(c.lengths, r, 0)
        /\ d.store = c.store /\ d.freePages = SubSeq(f, 1, left) /\ DOMAIN d = CacheFields
    BY <1>1, <1>2 DEF Reserve, CacheFields
  <2>3. m \in 0..Len(f) /\ n <= m * PageTokens /\ PagesFor(n) \in Nat
    BY <1>2, <2>1, PagesReach DEF MayReserve
  <2> DEFINE h == SubSeq(f, 1, left)
  <2>4. /\ t \in Seq(Pages) /\ Len(t) = m /\ NoneTwice(t)
        /\ h \in Seq(Pages) /\ NoneTwice(h)
        /\ \A j \in DOMAIN t : \E k \in DOMAIN f : t[j] = f[k]
        /\ \A j \in DOMAIN t, k \in DOMAIN h : t[j] # h[k]
        /\ \A k \in DOMAIN h : k \in DOMAIN f /\ h[k] = f[k]
    <3>1. Topped(Pages, f, m, t, h)
      <4> HIDE DEF f, m, t, h, left
      <4>1. Topped(Pages, f, m, Reverse(SubSeq(f, Len(f) - m + 1, Len(f))), SubSeq(f, 1, Len(f) - m))
        BY <2>1, <2>3, TopOf
      <4> QED BY <4>1 DEF t, h, left, m
    <3> HIDE DEF t, h, f, m
    <3> QED BY <3>1 DEF Topped
  <2> HIDE DEF d, t, h, left, f, m
  <2>5. s \in Seq(DOMAIN c.store) /\ Len(s) = m * PageTokens /\ DOMAIN c.store = Pages \X (0..PageTokens - 1)
    BY <2>1, <2>4, SlotsAre DEF PagesOwn
  <2>6. BlockTable(d, r) = t
    <3>1. d.places[r] = s BY <2>2 DEF Put
    <3> QED BY <3>1, <2>4, TableIs
  <2>7. ASSUME NEW q \in DOMAIN c.places, NEW i \in DOMAIN c.places[q], NEW j \in DOMAIN s
        PROVE  c.places[q][i] # s[j]
    <3> DEFINE u == BlockTable(c, q)
    <3>1. u \in Seq(Pages) /\ c.places[q] = SlotsOfPages(u)
          /\ \A x \in DOMAIN u, k \in DOMAIN f : u[x] # f[k] BY <2>1, <2>7 DEF PagesOwn, f
    <3> HIDE DEF u
    <3>2. PICK x \in DOMAIN u : c.places[q][i][1] = u[x] BY <3>1, <2>7, SlotsApart
    <3>3. PICK y \in DOMAIN t : s[j][1] = t[y] BY <2>4, <2>7, SlotsApart
    <3>4. PICK k \in DOMAIN f : t[y] = f[k] BY <2>4, <3>3
    <3> QED BY <3>1, <3>2, <3>3, <3>4
  <2>8. \A i, j \in DOMAIN s : s[i] = s[j] => i = j BY <2>4, SlotsApart
  <2> HIDE DEF s
  <2>9. /\ PlacesApart(d) /\ HoldsOwn(d) /\ DOMAIN d.places = DOMAIN c.places \cup {r}
        /\ \A q \in DOMAIN c.places : d.places[q] = c.places[q] /\ d.lengths[q] = c.lengths[q]
        /\ d.places[r] = s /\ d.lengths[r] = 0
    <3>1. Enters(c, d, r, s) BY <2>2, <2>5, <2>7, <2>8 DEF Enters
    <3> QED BY <3>1, EntersHolds
  <2>10. PagesOwn(d)
    <3>1. /\ DOMAIN d.store = Pages \X (0..PageTokens - 1) /\ d.freePages \in Seq(Pages) /\ NoneTwice(d.freePages)
      BY <2>2, <2>4, <2>5 DEF h
    <3>2. /\ BlockTable(d, r) \in Seq(Pages) /\ d.places[r] = SlotsOfPages(BlockTable(d, r))
          /\ \A j \in DOMAIN BlockTable(d, r), k \in DOMAIN d.freePages : BlockTable(d, r)[j] # d.freePages[k]
      BY <2>2, <2>4, <2>6, <2>9 DEF h, s
    <3>3. ASSUME NEW q \in DOMAIN c.places
          PROVE  /\ BlockTable(d, q) \in Seq(Pages) /\ d.places[q] = SlotsOfPages(BlockTable(d, q))
                 /\ \A j \in DOMAIN BlockTable(d, q), k \in DOMAIN d.freePages : BlockTable(d, q)[j] # d.freePages[k]
      <4>1. BlockTable(d, q) = BlockTable(c, q) BY <2>9, <3>3 DEF BlockTable
      <4>2. \A k \in DOMAIN d.freePages : k \in DOMAIN f /\ d.freePages[k] = f[k] BY <2>2, <2>4 DEF h
      <4> QED BY <4>1, <4>2, <2>1, <2>9, <3>3 DEF PagesOwn, f
    <3>4. ASSUME NEW o \in DOMAIN d.places, NEW q \in DOMAIN d.places, NEW i \in DOMAIN BlockTable(d, o),
                 NEW j \in DOMAIN BlockTable(d, q), BlockTable(d, o)[i] = BlockTable(d, q)[j]
          PROVE  o = q /\ i = j
      <4>1. ASSUME NEW x \in DOMAIN c.places
            PROVE  BlockTable(d, x) = BlockTable(c, x)
                   /\ \A k \in DOMAIN BlockTable(c, x), l \in DOMAIN t : BlockTable(c, x)[k] # t[l]
        <5>1. BlockTable(d, x) = BlockTable(c, x) BY <2>9, <4>1 DEF BlockTable
        <5>2. \A k \in DOMAIN BlockTable(c, x), m1 \in DOMAIN f : BlockTable(c, x)[k] # f[m1]
          BY <2>1, <4>1 DEF PagesOwn, f
        <5> QED BY <5>1, <5>2, <2>4
      <4>2. CASE o = r /\ q = r BY <4>2, <3>4, <2>4, <2>6 DEF NoneTwice
      <4>3. CASE o # r /\ q = r BY <4>3, <4>1, <3>4, <2>6, <2>9
      <4>4. CASE o = r /\ q # r BY <4>4, <4>1, <3>4, <2>6, <2>9
      <4>5. CASE o # r /\ q # r
        <5>1. /\ o \in DOMAIN c.places /\ BlockTable(d, o) = BlockTable(c, o)
              /\ q \in DOMAIN c.places /\ BlockTable(d, q) = BlockTable(c, q) BY <4>5, <4>1, <3>4, <2>9
        <5> QED BY <5>1, <3>4, <2>1 DEF PagesOwn, PagesApart
      <4> QED BY <4>2, <4>3, <4>4, <4>5
    <3>5. PagesApart(d) BY <3>4 DEF PagesApart
    <3> QED BY <3>1, <3>2, <3>3, <3>5, <2>9 DEF PagesOwn
  <2>11. n <= Len(d.places[r]) BY <2>3, <2>5, <2>9
  <2>12. CacheSound(d) BY <1>2, <2>2, <2>9, <2>10 DEF CacheSound
  <2> QED BY <2>9, <2>11, <2>12 DEF Reserved, d
<1>3. CASE mode \notin Paged
  <2> DEFINE s == [i \in 1..n |-> <<r, i>>]
  <2>1. BuffersOwn(c) BY <1>3 DEF CacheSound
  <2>2. /\ d.places = Put(c.places, r, s) /\ d.lengths = Put(c.lengths, r, 0) /\ DOMAIN d = CacheFields
        /\ d.store = [x \in DOMAIN c.store \cup {<<r, i>> : i \in 1..n} |->
                         IF x \in DOMAIN c.store THEN c.store[x] ELSE Empty]
    BY <1>1, <1>3 DEF Reserve, CacheFields
  <2> HIDE DEF d
  <2>3. DOMAIN d.store = DOMAIN c.store \cup {<<r, i>> : i \in 1..n} BY <2>2
  <2>4. s \in Seq(DOMAIN d.store) /\ Len(s) = n /\ DOMAIN s = 1..n BY <2>3
  <2>5. \A i, j \in DOMAIN s : s[i] = s[j] => i = j OBVIOUS
  <2>6. ASSUME NEW q \in DOMAIN c.places, NEW i \in DOMAIN c.places[q], NEW j \in DOMAIN s
        PROVE  c.places[q][i] # s[j]
    <3>1. c.places[q][i] = <<q, i>> /\ s[j] = <<r, j>> /\ q # r BY <2>1, <2>6 DEF BuffersOwn
    <3> QED BY <3>1
  <2>7. \A x \in DOMAIN c.store : x \in DOMAIN d.store /\ d.store[x] = c.store[x] BY <2>2
  <2>8. \A i \in DOMAIN s : s[i] = <<r, i>> OBVIOUS
  <2> HIDE DEF s
  <2>9. /\ PlacesApart(d) /\ HoldsOwn(d) /\ DOMAIN d.places = DOMAIN c.places \cup {r}
        /\ \A q \in DOMAIN c.places : d.places[q] = c.places[q] /\ d.lengths[q] = c.lengths[q]
        /\ d.places[r] = s /\ d.lengths[r] = 0
    <3>1. Enters(c, d, r, s) BY <2>2, <2>4, <2>5, <2>6, <2>7 DEF Enters
    <3> QED BY <3>1, EntersHolds
  <2>10. BuffersOwn(d) BY <2>1, <2>8, <2>9 DEF BuffersOwn
  <2> QED BY <1>3, <2>2, <2>4, <2>9, <2>10 DEF Reserved, CacheSound, d
<1> QED BY <1>2, <1>3

\* Two lists that have nothing in common, joined.
LEMMA JoinApart ==
    ASSUME NEW P, NEW s \in Seq(P), NEW t \in Seq(P), NoneTwice(s), NoneTwice(t),
           \A i \in DOMAIN s, j \in DOMAIN t : s[i] # t[j]
    PROVE  /\ s \o t \in Seq(P) /\ NoneTwice(s \o t)
           /\ \A k \in DOMAIN (s \o t) :
                 (k \in DOMAIN s /\ (s \o t)[k] = s[k]) \/ \E j \in DOMAIN t : (s \o t)[k] = t[j]
<1> DEFINE u == s \o t
           m == Len(s)
           n == Len(t)
<1>1. m \in Nat /\ n \in Nat /\ DOMAIN s = 1..m /\ DOMAIN t = 1..n OBVIOUS
<1>2. /\ u \in Seq(P) /\ DOMAIN u = 1..m + n
      /\ \A i \in 1..m + n : u[i] = IF i <= m THEN s[i] ELSE t[i - m]
  <2>1. u \in Seq(P) /\ Len(u) = m + n /\ \A i \in 1..m + n : u[i] = IF i <= m THEN s[i] ELSE t[i - m]
    BY ConcatProperties
  <2> HIDE DEF u
  <2> QED BY <2>1
<1> HIDE DEF u, m, n
<1>3. \A i \in 1..m + n : (i \in 1..m /\ i <= m) \/ (~(i <= m) /\ i - m \in 1..n) BY <1>1
<1>4. ASSUME NEW i \in 1..m + n, NEW j \in 1..m + n, u[i] = u[j] PROVE i = j
  <2>1. CASE i \in 1..m /\ j \in 1..m
    <3>1. s[i] = s[j] BY <2>1, <1>1, <1>2, <1>4
    <3> QED BY <3>1, <2>1, <1>1 DEF NoneTwice
  <2>2. CASE i \in 1..m /\ j \notin 1..m
    <3>1. u[i] = s[i] /\ u[j] = t[j - m] /\ j - m \in 1..n BY <2>2, <1>2, <1>3, <1>1
    <3> QED BY <3>1, <2>2, <1>1, <1>4
  <2>3. CASE i \notin 1..m /\ j \in 1..m
    <3>1. u[j] = s[j] /\ u[i] = t[i - m] /\ i - m \in 1..n BY <2>3, <1>2, <1>3, <1>1
    <3> QED BY <3>1, <2>3, <1>1, <1>4
  <2>4. CASE i \notin 1..m /\ j \notin 1..m
    <3>1. u[i] = t[i - m] /\ i - m \in 1..n /\ u[j] = t[j - m] /\ j - m \in 1..n BY <2>4, <1>2, <1>3, <1>1
    <3>2. i - m = j - m BY <3>1, <1>1, <1>4 DEF NoneTwice
    <3> QED BY <3>2, <1>1
  <2> QED BY <2>1, <2>2, <2>3, <2>4
<1>5. \A k \in 1..m + n : (k \in 1..m /\ u[k] = s[k]) \/ \E j \in 1..n : u[k] = t[j] BY <1>2, <1>3
<1>6. NoneTwice(u) BY <1>2, <1>4 DEF NoneTwice
<1> QED BY <1>1, <1>2, <1>5, <1>6 DEF u

\* c no longer knows r.
Gone(c, d, r) ==
    /\ CacheSound(d) /\ DOMAIN d.places = DOMAIN c.places \ {r}
    /\ \A q \in DOMAIN c.places \ {r} : d.places[q] = c.places[q] /\ d.lengths[q] = c.lengths[q]

LEMMA ReleaseSound ==
    ASSUME NEW c, CacheSound(c), NEW r
    PROVE  Gone(c, Release(c, r), r)
<1> DEFINE d == Release(c, r)
<1>1. DOMAIN c = CacheFields /\ PlacesApart(c) /\ HoldsOwn(c) BY DEF CacheSound
<1>2. CASE r \notin DOMAIN c.places
  <2>1. d = c BY <1>2 DEF Release
  <2> QED BY <2>1, <1>2 DEF Gone
<1>3. CASE r \in DOMAIN c.places
  <2>1. /\ d.places = Without(c.places, {r}) /\ d.lengths = Without(c.lengths, {r}) /\ DOMAIN d = CacheFields
        /\ d.store = IF mode \in Paged THEN c.store ELSE Without(c.store, ToSet(c.places[r]))
        /\ d.freePages = IF mode \in Paged THEN c.freePages \o BlockTable(c, r) ELSE c.freePages
    BY <1>1, <1>3 DEF Release, CacheFields
  <2> HIDE DEF d
  <2>2. DOMAIN d.places = DOMAIN c.places \ {r} /\ DOMAIN d.lengths = DOMAIN d.places
    BY <2>1, <1>1 DEF Without, HoldsOwn
  <2>3. \A q \in DOMAIN d.places : d.places[q] = c.places[q] /\ d.lengths[q] = c.lengths[q]
    BY <2>1, <1>1 DEF Without, HoldsOwn
  <2>4. ASSUME NEW q \in DOMAIN d.places, NEW i \in DOMAIN c.places[q]
        PROVE  c.places[q][i] \in DOMAIN d.store /\ d.store[c.places[q][i]] = c.store[c.places[q][i]]
    <3> DEFINE s == c.places[q][i]
    <3>1. q \in DOMAIN c.places /\ q # r BY <2>2, <2>4
    <3>2. s \in DOMAIN c.store
      <4>1. c.places[q] \in Seq(DOMAIN c.store) BY <3>1, <1>1 DEF PlacesApart
      <4> QED BY <4>1, <2>4
    <3>3. s \notin ToSet(c.places[r])
      <4> SUFFICES ASSUME NEW j \in DOMAIN c.places[r], s = c.places[r][j] PROVE FALSE BY DEF ToSet
      <4> QED BY <3>1, <1>1, <1>3, <2>4 DEF PlacesApart
    <3> QED BY <2>1, <3>2, <3>3 DEF Without
  <2>5. PlacesApart(d)
    <3>1. \A q \in DOMAIN d.places : d.places[q] \in Seq(DOMAIN d.store)
      <4> TAKE q \in DOMAIN d.places
      <4>1. c.places[q] \in Seq(DOMAIN c.store) BY <1>1, <2>2 DEF PlacesApart
      <4>2. /\ Len(c.places[q]) \in Nat /\ DOMAIN c.places[q] = 1..Len(c.places[q])
            /\ c.places[q] = [i \in 1..Len(c.places[q]) |-> c.places[q][i]] BY <4>1
      <4>3. \A i \in 1..Len(c.places[q]) : c.places[q][i] \in DOMAIN d.store BY <2>4, <4>2
      <4>4. c.places[q] \in Seq(DOMAIN d.store) BY <4>2, <4>3
      <4> QED BY <4>4, <2>3
    <3>2. \A q, o \in DOMAIN d.places : \A i \in DOMAIN d.places[q], j \in DOMAIN d.places[o] :
             d.places[q][i] = d.places[o][j] => q = o /\ i = j
      BY <1>1, <2>2, <2>3 DEF PlacesApart
    <3> QED BY <3>1, <3>2 DEF PlacesApart
  <2>6. HoldsOwn(d)
    <3> SUFFICES ASSUME NEW q \in DOMAIN d.places
                 PROVE  /\ d.lengths[q] \in 0..Len(d.places[q])
                        /\ \A p \in 0..d.lengths[q] - 1 : d.store[d.places[q][p + 1]] = <<q, p, p>>
      BY <2>2 DEF HoldsOwn
    <3>1. /\ c.lengths[q] \in 0..Len(c.places[q])
          /\ \A p \in 0..c.lengths[q] - 1 : c.store[c.places[q][p + 1]] = <<q, p, p>>
      BY <1>1, <2>2 DEF HoldsOwn
    <3>2. ASSUME NEW p \in 0..c.lengths[q] - 1 PROVE d.store[c.places[q][p + 1]] = <<q, p, p>>
      <4>1. c.places[q] \in Seq(DOMAIN c.store) BY <1>1, <2>2 DEF PlacesApart
      <4>2. c.lengths[q] \in Nat /\ c.lengths[q] <= Len(c.places[q]) /\ Len(c.places[q]) \in Nat BY <3>1, <4>1
      <4>3. p + 1 \in 1..Len(c.places[q]) BY <4>2
      <4>4. p + 1 \in DOMAIN c.places[q] BY <4>1, <4>3
      <4> QED BY <4>4, <2>4, <3>1, <3>2
    <3> QED BY <3>1, <3>2, <2>3
  <2>7. CASE mode \in Paged
    <3> DEFINE u == BlockTable(c, r)
               f == c.freePages
    <3>1. PagesOwn(c) /\ f \in Seq(Pages) /\ NoneTwice(f) BY <2>7 DEF CacheSound, PagesOwn
    <3>2. /\ u \in Seq(Pages) /\ c.places[r] = SlotsOfPages(u)
          /\ \A j \in DOMAIN u, k \in DOMAIN f : u[j] # f[k] BY <3>1, <1>3 DEF PagesOwn
    <3>3. d.freePages = f \o u /\ d.store = c.store BY <2>1, <2>7
    <3> HIDE DEF u, f
    <3>4. NoneTwice(u)
      <4>1. \A i, j \in DOMAIN BlockTable(c, r) : BlockTable(c, r)[i] = BlockTable(c, r)[j] => i = j
        BY <3>1, <1>3 DEF PagesOwn, PagesApart
      <4> QED BY <4>1 DEF NoneTwice, u
    <3>5. /\ f \o u \in Seq(Pages) /\ NoneTwice(f \o u)
          /\ \A k \in DOMAIN (f \o u) :
                (k \in DOMAIN f /\ (f \o u)[k] = f[k]) \/ \E j \in DOMAIN u : (f \o u)[k] = u[j]
      BY <3>1, <3>2, <3>4, JoinApart
    <3>6. \A q \in DOMAIN d.places : BlockTable(d, q) = BlockTable(c, q) BY <2>3 DEF BlockTable
    <3>7. ASSUME NEW q \in DOMAIN d.places
          PROVE  /\ BlockTable(d, q) \in Seq(Pages) /\ d.places[q] = SlotsOfPages(BlockTable(d, q))
                 /\ \A j \in DOMAIN BlockTable(d, q), k \in DOMAIN d.freePages :
                       BlockTable(d, q)[j] # d.freePages[k]
      <4> DEFINE w == BlockTable(c, q)
      <4>1. q \in DOMAIN c.places /\ q # r BY <2>2
      <4>2. /\ w \in Seq(Pages) /\ c.places[q] = SlotsOfPages(w)
            /\ \A j \in DOMAIN w, k \in DOMAIN f : w[j] # f[k] BY <3>1, <4>1 DEF PagesOwn, f
      <4>3. \A j \in DOMAIN w, i \in DOMAIN u : w[j] # u[i] BY <3>1, <4>1, <1>3 DEF PagesOwn, PagesApart, u
      <4>4. BlockTable(d, q) = w BY <3>6
      <4> HIDE DEF w
      <4>5. \A j \in DOMAIN w, k \in DOMAIN d.freePages : w[j] # d.freePages[k] BY <3>3, <3>5, <4>2, <4>3
      <4> QED BY <4>2, <4>4, <4>5, <2>3
    <3>8. PagesApart(d)
      BY <3>1, <3>6, <2>2 DEF PagesOwn, PagesApart
    <3>9. DOMAIN d.store = Pages \X (0..PageTokens - 1) /\ d.freePages \in Seq(Pages) /\ NoneTwice(d.freePages)
      BY <3>1, <3>3, <3>5 DEF PagesOwn
    <3>10. PagesOwn(d) BY <3>7, <3>8, <3>9 DEF PagesOwn
    <3> QED BY <2>1, <2>2, <2>3, <2>5, <2>6, <2>7, <3>10 DEF Gone, CacheSound, d
  <2>8. CASE mode \notin Paged
    <3>1. BuffersOwn(d) BY <2>8, <2>2, <2>3 DEF CacheSound, BuffersOwn
    <3> QED BY <2>1, <2>2, <2>3, <2>5, <2>6, <2>8, <3>1 DEF Gone, CacheSound, d
  <2> QED BY <2>7, <2>8
<1> QED BY <1>2, <1>3

-------------------------------------------------------------------------------
(* A call of the model.                                                                *)

\* What came of the calls before: the first n positions of r are now in the cache old.
FilledTo(acc, old, r, n) ==
    /\ DOMAIN acc = {"cache", "saw", "kernel"} /\ CacheSound(acc.cache) /\ SawOwn(acc.saw)
    /\ DOMAIN acc.cache.places = DOMAIN old.places
    /\ \A q \in DOMAIN old.places : acc.cache.places[q] = old.places[q]
    /\ \A q \in DOMAIN old.places \ {r} : acc.cache.lengths[q] = old.lengths[q]
    /\ r \in DOMAIN old.places /\ acc.cache.lengths[r] = n

\* What the queries of the positions start .. start + n - 1 gather.
GathersOwn(c, r, start, i) == Gathered(c, r, start, i) = [p \in 0..start + i - 1 |-> <<r, p, p>>]
LEMMA GatherIs ==
    ASSUME NEW c, CacheSound(c), NEW r \in DOMAIN c.places, NEW start \in Nat, NEW n \in Nat,
           c.lengths[r] = start + n, NEW i \in 1..n
    PROVE  GathersOwn(c, r, start, i)
<1>1. HoldsOwn(c) BY DEF CacheSound
<1>2. Min({c.lengths[r], start + i}) = start + i
  <2>1. start + n \in Nat /\ start + i \in Nat /\ start + i <= start + n OBVIOUS
  <2> QED BY <2>1, MinIs
<1> DEFINE end == start + i
<1>3. \A p \in 0..end - 1 : c.store[c.places[r][p + 1]] = <<r, p, p>>
  <2>1. \A p \in 0..end - 1 : p \in 0..c.lengths[r] - 1 OBVIOUS
  <2> QED BY <1>1, <2>1 DEF HoldsOwn
<1>4. Gathered(c, r, start, i) = [p \in 0..end - 1 |-> c.store[c.places[r][p + 1]]]
  <2>1. Min({c.lengths[r], start + i}) = end BY <1>2
  <2> HIDE DEF end
  <2> QED BY <2>1 DEF Gathered
<1>5. Gathered(c, r, start, i) = [p \in 0..end - 1 |-> <<r, p, p>>]
  <2> HIDE DEF end
  <2> QED BY <1>3, <1>4
<1> QED BY <1>5 DEF GathersOwn

\* What the kernel reads by the block table.
LEMMA KernelIs ==
    ASSUME NEW c, CacheSound(c), NEW r \in DOMAIN c.places, mode \in Paged
    PROVE  ByKernel(c, r) = [p \in 0..c.lengths[r] - 1 |-> <<r, p, p>>]
<1> DEFINE t == BlockTable(c, r)
<1>1. HoldsOwn(c) /\ PagesOwn(c) BY DEF CacheSound
<1>2. t \in Seq(Pages) /\ c.places[r] = SlotsOfPages(t) BY <1>1 DEF PagesOwn
<1>3. ASSUME NEW p \in 0..c.lengths[r] - 1
      PROVE  c.store[<<t[p \div PageTokens + 1], p % PageTokens>>] = <<r, p, p>>
  <2> HIDE DEF t
  <2> DEFINE N == Len(t) * PageTokens
  <2>1. Len(c.places[r]) = N BY <1>2, SlotsAre
  <2>2. N \in Nat BY <1>2, SerialForwardAssumption
  <2>3. c.lengths[r] \in 0..Len(c.places[r]) /\ c.store[c.places[r][p + 1]] = <<r, p, p>>
    BY <1>1, <1>3 DEF HoldsOwn
  <2>4. p \in 0..N - 1
    <3> HIDE DEF N
    <3>1. c.lengths[r] \in Nat /\ c.lengths[r] <= N BY <2>1, <2>2, <2>3
    <3> QED BY <3>1, <2>2
  <2>5. SlotsOfPages(t)[p + 1] = <<t[p \div PageTokens + 1], p % PageTokens>> BY <1>2, <2>4, SlotsAre
  <2> QED BY <1>2, <2>3, <2>5
<1> QED BY <1>3 DEF ByKernel

\* It appends what it is given behind what the cache knows, and attends to all of it.
LEMMA ForwardOwn ==
    ASSUME NEW acc, NEW old, NEW r, NEW start \in Nat, NEW n \in Nat \ {0}, NEW decode \in BOOLEAN,
           FilledTo(acc, old, r, start), start + n <= Len(old.places[r]), decode => n = 1,
           NEW upto, upto = start + n
    PROVE  FilledTo(Forward(acc, r, start, start, n, decode), old, r, upto)
<1> DEFINE b == acc.cache
           c == AppendKV(b, r, start, start, n)
           d == AppendKV(c, r, start, start, n)
           direct == mode = "triton" /\ decode /\ acc.kernel /\ KernelTakes(c, r)
           out == Forward(acc, r, start, start, n, decode)
           end == IF mode = "triton" /\ ~direct THEN d ELSE c
           rows == [i \in 1..n |-> IF direct THEN ByKernel(c, r) ELSE Gathered(c, r, start, i)]
           saw1 == [req |-> r, from |-> start, whole |-> TRUE, rows |-> rows]
<1>1. /\ CacheSound(b) /\ r \in DOMAIN b.places /\ b.lengths[r] = start /\ acc.saw.whole
      /\ start + n <= Len(b.places[r]) /\ DOMAIN acc = {"cache", "saw", "kernel"}
  BY DEF FilledTo, SawOwn
<1>2. out = [acc EXCEPT !.cache = end, !.saw = saw1]
  <2>1. HasRoom(b, r, start, n) BY <1>1 DEF HasRoom
  <2> QED BY <1>1, <2>1 DEF Forward
<1>3. DOMAIN out = {"cache", "saw", "kernel"} /\ out.cache = end /\ out.saw = saw1
  <2> HIDE DEF end, saw1, out
  <2> QED BY <1>1, <1>2
<1> HIDE DEF out, b
<1>4. Appended(b, c, r, start, n) BY <1>1, AppendIs
<1> HIDE DEF c
<1>5. CacheSound(c)
  <2>1. start <= b.lengths[r] BY <1>1
  <2> QED BY <1>1, <1>4, <2>1, AppendSound
<1>6. c.places = b.places /\ c.lengths[r] = start + n
  <2>1. c.lengths[r] = IF b.lengths[r] >= start + n THEN b.lengths[r] ELSE start + n BY <1>4 DEF Appended
  <2>2. ~(start >= start + n) OBVIOUS
  <2> QED BY <1>1, <1>4, <2>1, <2>2 DEF Appended
<1>7. Appended(c, d, r, start, n) BY <1>1, <1>5, <1>6, AppendIs
<1> HIDE DEF d
<1>8. CacheSound(d)
  <2>1. start <= c.lengths[r] BY <1>6
  <2> QED BY <1>1, <1>5, <1>6, <1>7, <2>1, AppendSound
<1>9. d.places = b.places /\ d.lengths[r] = start + n
  <2>1. d.lengths[r] = IF c.lengths[r] >= start + n THEN c.lengths[r] ELSE start + n BY <1>7 DEF Appended
  <2> QED BY <1>6, <1>7, <2>1 DEF Appended
<1>10. CacheSound(end) /\ end.places = b.places /\ end.lengths[r] = start + n BY <1>5, <1>6, <1>8, <1>9
<1>11. \A q \in DOMAIN b.places \ {r} : end.lengths[q] = b.lengths[q]
  <2>1. DOMAIN b.lengths = DOMAIN b.places /\ DOMAIN c.lengths = DOMAIN b.lengths
    BY <1>1, <1>4 DEF CacheSound, HoldsOwn, Appended
  <2>2. \A q \in DOMAIN b.places \ {r} : c.lengths[q] = b.lengths[q] /\ d.lengths[q] = c.lengths[q]
    BY <2>1, <1>4, <1>7 DEF Appended
  <2> QED BY <2>2
<1>12. ASSUME NEW i \in 1..n PROVE rows[i] = [p \in 0..start + i - 1 |-> <<r, p, p>>]
  <2>1. CASE direct
    <3>1. n = 1 /\ i = 1 BY <2>1, <1>12
    <3>2. mode \in Paged BY <2>1 DEF Paged
    <3>3. ByKernel(c, r) = [p \in 0..c.lengths[r] - 1 |-> <<r, p, p>>] BY <1>1, <1>5, <1>6, <3>2, KernelIs
    <3>4. c.lengths[r] = start + i BY <1>6, <3>1
    <3>5. rows[i] = ByKernel(c, r) BY <2>1
    <3> HIDE DEF rows
    <3> QED BY <3>3, <3>4, <3>5
  <2>2. CASE ~direct
    <3>1. rows[i] = Gathered(c, r, start, i) BY <2>2
    <3> HIDE DEF rows
    <3>2. n \in Nat /\ r \in DOMAIN c.places /\ c.lengths[r] = start + n BY <1>1, <1>6
    <3>3. GathersOwn(c, r, start, i)
      <4> HIDE DEF direct, saw1, end
      <4> QED BY <3>2, <1>5, GatherIs
    <3> QED BY <3>1, <3>3 DEF GathersOwn
  <2> HIDE DEF direct
  <2> QED BY <2>1, <2>2
<1>13. SawOwn(saw1)
  <2>1. DOMAIN rows = 1..n OBVIOUS
  <2> HIDE DEF rows
  <2> QED BY <1>12, <2>1 DEF SawOwn
<1> HIDE DEF end, saw1
<1> QED BY <1>3, <1>10, <1>13, <1>11 DEF FilledTo, out, b

-------------------------------------------------------------------------------
(* The runners.                                                                        *)

\* A set of numbers that is not empty has a least one.
LEMMA LeastNumber ==
    ASSUME NEW T, T \subseteq Nat, T # {}
    PROVE  \E n \in T : \A m \in Nat : m < n => m \notin T
<1>1. PICK n \in T : \A m \in T : ~(<<m, n>> \in OpToRel(<, Nat)) BY NatLessThanWellFounded, WFMin
<1>2. \A m \in Nat : m < n => <<m, n>> \in OpToRel(<, Nat) BY DEF OpToRel
<1> QED BY <1>1, <1>2

\* Induction up to N, over the set of the numbers for which something holds.
LEMMA Upto ==
    ASSUME NEW N \in Nat, NEW G, 0 \in G, \A n \in 1..N : n - 1 \in G => n \in G
    PROVE  \A n \in 0..N : n \in G
<1> DEFINE T == {n \in 0..N : n \notin G}
<1> SUFFICES ASSUME T # {} PROVE FALSE OBVIOUS
<1>1. T \subseteq Nat OBVIOUS
<1>2. PICK n \in T : \A m \in Nat : m < n => m \notin T
  <2> HIDE DEF T
  <2> QED BY <1>1, LeastNumber
<1>3. n \in 1..N /\ n \notin G BY <1>2
<1>4. n - 1 \in Nat /\ n - 1 < n /\ n - 1 \in 0..N BY <1>3
<1>5. n - 1 \in G BY <1>2, <1>4
<1> QED BY <1>3, <1>5

\* What has come of the prompt of m tokens and of each of the N tokens behind it.
Replayed(f, acc, r, m, N) ==
    f = [k \in 0..N |-> IF k = 0 THEN Forward(acc, r, 0, 0, m, FALSE)
                        ELSE Forward(f[k - 1], r, m + k - 1, m + k - 1, 1, TRUE)]

LEMMA ReplayExists ==
    ASSUME NEW acc, NEW r, NEW m \in Nat, NEW N \in Nat
    PROVE  \E f : Replayed(f, acc, r, m, N)
<1> DEFINE G == {k \in 0..N : \E f : Replayed(f, acc, r, m, k)}
<1>1. 0 \in G
  <2> DEFINE f == [k \in 0..0 |-> Forward(acc, r, 0, 0, m, FALSE)]
  <2>1. f = [k \in 0..0 |-> IF k = 0 THEN Forward(acc, r, 0, 0, m, FALSE)
                            ELSE Forward(f[k - 1], r, m + k - 1, m + k - 1, 1, TRUE)]
    <3>1. \A k \in 0..0 : k = 0 OBVIOUS
    <3> QED BY <3>1
  <2> HIDE DEF f
  <2>2. Replayed(f, acc, r, m, 0) BY <2>1 DEF Replayed
  <2> QED BY <2>2
<1>2. ASSUME NEW n \in 1..N, n - 1 \in G PROVE n \in G
  <2>1. PICK f : Replayed(f, acc, r, m, n - 1) BY <1>2
  <2> DEFINE last == Forward(f[n - 1], r, m + n - 1, m + n - 1, 1, TRUE)
             g == [k \in 0..n |-> IF k = n THEN last ELSE f[k]]
             F(k) == IF k = 0 THEN Forward(acc, r, 0, 0, m, FALSE)
                     ELSE Forward(g[k - 1], r, m + k - 1, m + k - 1, 1, TRUE)
  <2>2. ASSUME NEW k \in 0..n PROVE g[k] = F(k)
    <3>1. CASE k = n
      <4>1. n # 0 /\ n \in 0..n /\ n - 1 \in 0..n /\ n - 1 # n OBVIOUS
      <4>2. g[n - 1] = f[n - 1] BY <4>1
      <4>3. g[n] = last
        <5> HIDE DEF last
        <5> QED BY <4>1
      <4> HIDE DEF g
      <4> QED BY <3>1, <4>1, <4>2, <4>3
    <3>2. CASE k # n /\ k = 0
      <4>1. 0 \in 0..n - 1 OBVIOUS
      <4>2. f[0] = Forward(acc, r, 0, 0, m, FALSE) BY <2>1, <4>1 DEF Replayed
      <4> QED BY <3>2, <4>2
    <3>3. CASE k # n /\ k # 0
      <4>1. k \in 0..n - 1 /\ k - 1 \in 0..n /\ k - 1 # n BY <3>3
      <4>2. f[k] = Forward(f[k - 1], r, m + k - 1, m + k - 1, 1, TRUE) BY <2>1, <3>3, <4>1 DEF Replayed
      <4>3. g[k - 1] = f[k - 1] /\ g[k] = f[k] BY <3>3, <4>1
      <4> HIDE DEF g
      <4> QED BY <3>3, <4>2, <4>3
    <3> QED BY <3>1, <3>2, <3>3
  <2>3. DOMAIN g = 0..n /\ g = [k \in 0..n |-> g[k]] OBVIOUS
  <2> HIDE DEF g
  <2>4. g = [k \in 0..n |-> F(k)]
    <3> HIDE DEF F
    <3> QED BY <2>2, <2>3
  <2>5. Replayed(g, acc, r, m, n) BY <2>4 DEF Replayed
  <2> QED BY <2>5
<1> HIDE DEF G
<1>3. \A n \in 0..N : n \in G BY <1>1, <1>2, Upto
<1>4. N \in G BY <1>3
<1> QED BY <1>4 DEF G

\* The prompt and then token after token: all of it is in the cache.
LEMMA ReplayOwn ==
    ASSUME NEW acc, NEW old, NEW r, NEW m \in Nat \ {0}, NEW N \in Nat, FilledTo(acc, old, r, 0),
           m + N <= Len(old.places[r]), Len(old.places[r]) \in Nat, NEW f, Replayed(f, acc, r, m, N)
    PROVE  FilledTo(f[N], old, r, m + N)
<1> DEFINE G == {n \in 0..N : FilledTo(f[n], old, r, m + n)}
<1>1. 0 \in G
  <2>1. f[0] = Forward(acc, r, 0, 0, m, FALSE) BY DEF Replayed
  <2> DEFINE upto == m + 0
  <2>2. upto = 0 + m /\ 0 + m <= Len(old.places[r]) /\ 0 \in 0..N OBVIOUS
  <2> HIDE DEF upto
  <2>3. FilledTo(Forward(acc, r, 0, 0, m, FALSE), old, r, upto) BY <2>2, ForwardOwn
  <2>4. FilledTo(f[0], old, r, upto) BY <2>1, <2>3
  <2> QED BY <2>2, <2>4 DEF upto
<1>2. ASSUME NEW n \in 1..N, n - 1 \in G PROVE n \in G
  <2> DEFINE start == m + n - 1
             upto == m + n
             last == m + (n - 1)
             b == f[n - 1]
  <2>0. n \in 0..N /\ n # 0 OBVIOUS
  <2>1. f[n] = Forward(b, r, start, start, 1, TRUE)
    <3> HIDE DEF b, start
    <3> QED BY <2>0 DEF Replayed, b, start
  <2>2. last = start /\ start \in Nat /\ upto = start + 1 /\ start + 1 <= Len(old.places[r])
        /\ 1 \in Nat \ {0} /\ n \in 0..N OBVIOUS
  <2>3. FilledTo(b, old, r, last) BY <1>2
  <2> HIDE DEF start, last, upto, b
  <2>4. FilledTo(b, old, r, start) BY <2>2, <2>3
  <2>5. FilledTo(Forward(b, r, start, start, 1, TRUE), old, r, upto) BY <2>2, <2>4, ForwardOwn
  <2>6. FilledTo(f[n], old, r, upto) BY <2>1, <2>5
  <2> QED BY <2>2, <2>6 DEF upto
<1> HIDE DEF G
<1>3. \A n \in 0..N : n \in G BY <1>1, <1>2, Upto
<1>4. N \in G BY <1>3
<1> QED BY <1>4 DEF G

\* The forward pass before the first call.
Before(c, k) == [cache |-> c, saw |-> Unseen, kernel |-> k]
LEMMA NothingSeen == SawOwn(Unseen)
BY DEF SawOwn, Unseen

\* What a request of the cached runner has fed is in the cache.
LEMMA CachedOwn ==
    ASSUME ServingInv, mode # Uncached, NEW r \in serving, stepped[r] < limit[r], NEW k \in BOOLEAN
    PROVE  FilledTo(CachedStep(r, k), cache, r, prompt[r] + stepped[r])
<1> DEFINE acc == Before(cache, k)
           out == CachedStep(r, k)
           start == prompt[r] + stepped[r] - 1
           upto == prompt[r] + stepped[r]
<1>1. /\ CacheSound(cache) /\ r \in DOMAIN cache.places /\ prompt[r] + limit[r] <= Len(cache.places[r])
      /\ cache.lengths[r] = IF stepped[r] = 0 THEN 0 ELSE start
  BY DEF ServingInv, ServingCached
<1>2. prompt[r] \in Nat \ {0} /\ limit[r] \in Nat /\ stepped[r] \in Nat BY DEF ServingInv, ServingTypes
<1>3. Len(cache.places[r]) \in Nat
  <2>1. cache.places[r] \in Seq(DOMAIN cache.store) BY <1>1 DEF CacheSound, PlacesApart
  <2> QED BY <2>1
<1>4. /\ DOMAIN acc = {"cache", "saw", "kernel"} /\ acc.cache = cache /\ acc.saw = Unseen
      /\ acc = [cache |-> cache, saw |-> Unseen, kernel |-> k] BY DEF Before
<1> HIDE DEF acc
<1>5. CASE stepped[r] = 0
  <2>1. FilledTo(acc, cache, r, 0) BY <1>1, <1>4, <1>5, NothingSeen DEF FilledTo
  <2>2. out = Forward(acc, r, 0, 0, prompt[r], FALSE) BY <1>4, <1>5 DEF CachedStep
  <2>3. upto = 0 + prompt[r] /\ 0 + prompt[r] <= Len(cache.places[r]) BY <1>1, <1>2, <1>3, <1>5
  <2> HIDE DEF out, upto
  <2>4. FilledTo(out, cache, r, upto) BY <2>1, <2>2, <2>3, <1>2, ForwardOwn
  <2> QED BY <2>4 DEF out, upto
<1>6. CASE stepped[r] # 0
  <2>1. FilledTo(acc, cache, r, start) BY <1>1, <1>4, <1>6, NothingSeen DEF FilledTo
  <2>2. out = Forward(acc, r, start, start, 1, TRUE) BY <1>4, <1>6 DEF CachedStep, Start
  <2>3. start \in Nat /\ upto = start + 1 /\ start + 1 <= Len(cache.places[r]) /\ 1 \in Nat \ {0}
    BY <1>1, <1>2, <1>3, <1>6
  <2> HIDE DEF out, upto, start
  <2>4. FilledTo(out, cache, r, upto) BY <2>1, <2>2, <2>3, ForwardOwn
  <2> QED BY <2>4 DEF out, upto
<1> QED BY <1>5, <1>6

\* The whole history under the causal mask.
LEMMA NaiveOwn ==
    ASSUME NEW r, prompt[r] + stepped[r] \in Nat
    PROVE  NaiveForward(r).cache = cache /\ SawOwn(NaiveForward(r).saw)
<1> DEFINE n == prompt[r] + stepped[r]
           rows == [i \in 1..n |-> [p \in 0..i - 1 |-> Rotated(r, 0, 0, n)[p + 1]]]
           seen == [req |-> r, from |-> 0, whole |-> TRUE, rows |-> rows]
<1>1. NaiveForward(r) = [cache |-> cache, saw |-> seen] BY DEF NaiveForward
<1> HIDE DEF n
<1>2. n \in Nat BY DEF n
<1>3. ASSUME NEW i \in 1..n PROVE rows[i] = [p \in 0..0 + i - 1 |-> <<r, p, p>>]
  <2>1. \A p \in 0..i - 1 : Rotated(r, 0, 0, n)[p + 1] = <<r, p, p>>
    <3> TAKE p \in 0..i - 1
    <3>1. p + 1 \in 1..n /\ 0 + (p + 1) - 1 = p BY <1>2
    <3> QED BY <3>1 DEF Rotated
  <2>2. rows[i] = [p \in 0..i - 1 |-> Rotated(r, 0, 0, n)[p + 1]] OBVIOUS
  <2>3. rows[i] = [p \in 0..i - 1 |-> <<r, p, p>>]
    <3> HIDE DEF rows
    <3> QED BY <2>1, <2>2
  <2>4. 0 + i - 1 = i - 1 BY <1>2
  <2> HIDE DEF rows
  <2> QED BY <2>3, <2>4
<1>4. DOMAIN rows = 1..n OBVIOUS
<1> HIDE DEF rows
<1>5. SawOwn(seen) BY <1>3, <1>4 DEF SawOwn
<1> HIDE DEF seen
<1> QED BY <1>1, <1>5

\* The replay attends to the same, and gives back the cache it has filled.
LEMMA ReplayGivesBack ==
    ASSUME CacheSound(cache), NEW r, r \notin DOMAIN cache.places, mode \notin Paged,
           NEW m \in Nat \ {0}, m = prompt[r], NEW N \in Nat, N = stepped[r]
    PROVE  Gone(cache, CanonicalReplay(r).cache, r) /\ SawOwn(CanonicalReplay(r).saw)
<1> DEFINE c == Reserve(cache, r, prompt[r] + stepped[r])
           acc == Before(c, FALSE)
           after == CHOOSE f : Replayed(f, acc, r, m, N)
           last == after[N]
           out == CanonicalReplay(r)
<1>1. out = [last EXCEPT !.cache = Release(@, r)]
  <2>1. after = CHOOSE f : f = [k \in 0..stepped[r] |->
                   IF k = 0 THEN Forward(acc, r, 0, 0, prompt[r], FALSE)
                   ELSE Forward(f[k - 1], r, prompt[r] + k - 1, prompt[r] + k - 1, 1, TRUE)]
    BY DEF Replayed
  <2> QED BY <2>1 DEF CanonicalReplay, Before
<1>2. Reserved(cache, c, r, m + N)
  <2>1. m + N \in Nat /\ c = Reserve(cache, r, m + N) /\ MayReserve(cache, m + N) BY DEF MayReserve
  <2> HIDE DEF c
  <2> QED BY <2>1, ReserveSound
<1> HIDE DEF c
<1>3. FilledTo(acc, c, r, 0)
  BY <1>2, NothingSeen DEF FilledTo, Reserved, Before
<1>4. Len(c.places[r]) \in Nat /\ m + N <= Len(c.places[r])
  <2>1. c.places[r] \in Seq(DOMAIN c.store) BY <1>2 DEF Reserved, CacheSound, PlacesApart
  <2> QED BY <2>1, <1>2 DEF Reserved
<1> HIDE DEF acc
<1>5. Replayed(after, acc, r, m, N) BY ReplayExists
<1> HIDE DEF after
<1>6. FilledTo(last, c, r, m + N) BY <1>3, <1>4, <1>5, ReplayOwn
<1> HIDE DEF last, out
<1>7. DOMAIN last = {"cache", "saw", "kernel"} /\ CacheSound(last.cache) /\ SawOwn(last.saw) BY <1>6 DEF FilledTo
<1>8. out.cache = Release(last.cache, r) /\ out.saw = last.saw BY <1>1, <1>7
<1>9. Gone(last.cache, Release(last.cache, r), r) BY <1>7, ReleaseSound
<1>10. Gone(cache, Release(last.cache, r), r)
  <2> DEFINE d == Release(last.cache, r)
  <2>1. DOMAIN last.cache.places = DOMAIN cache.places \cup {r} BY <1>2, <1>6 DEF FilledTo, Reserved
  <2>2. \A q \in DOMAIN cache.places : /\ last.cache.places[q] = cache.places[q]
                                      /\ last.cache.lengths[q] = cache.lengths[q]
    BY <1>2, <1>6 DEF FilledTo, Reserved
  <2> HIDE DEF d
  <2> QED BY <1>9, <2>1, <2>2 DEF Gone, d
<1> QED BY <1>7, <1>8, <1>10 DEF out

-------------------------------------------------------------------------------
(* The steps.                                                                          *)

LEMMA SoundNext == ASSUME CacheSound(cache'), UNCHANGED mode PROVE CacheSound(cache)'
BY DEF CacheSound, PlacesApart, HoldsOwn, PagesOwn, PagesApart, BuffersOwn, BlockTable, SlotsOfPages,
       NoneTwice, Paged, CacheFields, Pages

LEMMA SawNext == ASSUME SawOwn(saw') PROVE SawOwn(saw)'
BY DEF SawOwn

\* It holds at the start.
LEMMA ServingStart == ASSUME SerialInit PROVE ServingInv
<1>1. ServingTypes BY DEF SerialInit, ServingTypes
<1>2. cache.places = << >> /\ cache.lengths = << >> /\ DOMAIN cache = CacheFields
  BY DEF SerialInit, CacheFields
<1>3. DOMAIN cache.places = {} /\ DOMAIN cache.lengths = {} BY <1>2
<1>4. PlacesApart(cache) /\ HoldsOwn(cache) BY <1>3 DEF PlacesApart, HoldsOwn
<1>5. CASE mode \in Paged
  <2>1. /\ cache.store = [s \in Pages \X (0..PageTokens - 1) |-> Empty]
        /\ cache.freePages = [i \in 1..PageCount |-> i] BY <1>5 DEF SerialInit, Pages
  <2>2. DOMAIN cache.store = Pages \X (0..PageTokens - 1) BY <2>1
  <2>3. PageCount \in Nat BY SerialForwardAssumption
  <2>4. cache.freePages \in Seq(Pages) /\ NoneTwice(cache.freePages) BY <2>1, <2>3 DEF Pages, NoneTwice
  <2>5. PagesOwn(cache) BY <1>3, <2>2, <2>4 DEF PagesOwn, PagesApart
  <2>6. CacheSound(cache) BY <1>2, <1>4, <1>5, <2>5 DEF CacheSound
  <2> QED BY <1>1, <1>3, <2>6, NothingSeen DEF ServingInv, ServingCached, SerialInit
<1>6. CASE mode \notin Paged
  <2>1. BuffersOwn(cache) BY <1>3 DEF BuffersOwn
  <2>2. CacheSound(cache) BY <1>2, <1>4, <1>6, <2>1 DEF CacheSound
  <2> QED BY <1>1, <1>3, <2>2, NothingSeen DEF ServingInv, ServingCached, SerialInit
<1> QED BY <1>5, <1>6

LEMMA AdmitServedKeeps == ASSUME ServingInv, NEW r, AdmitServed(r) PROVE ServingInv'
<1>1. PICK p \in PromptSizes, m \in OutputSizes :
         /\ mode # Uncached => MayReserve(cache, p + m)
         /\ prompt' = Put(prompt, r, p) /\ limit' = Put(limit, r, m) /\ stepped' = Put(stepped, r, 0)
         /\ cache' = IF mode = Uncached THEN cache ELSE Reserve(cache, r, p + m)
  BY DEF AdmitServed
<1>2. p \in Nat \ {0} /\ m \in Nat \ {0} /\ p + m \in Nat BY SerialForwardAssumption
<1>3. r \notin serving /\ serving' = serving \cup {r} /\ served' = served \cup {r} /\ UNCHANGED <<mode, saw>>
  BY DEF AdmitServed, ServingInv, ServingTypes
<1>4. ServingTypes'
  <2>1. /\ DOMAIN prompt' = serving' /\ DOMAIN limit' = serving' /\ DOMAIN stepped' = serving'
        /\ prompt'[r] = p /\ limit'[r] = m /\ stepped'[r] = 0
        /\ \A q \in serving : prompt'[q] = prompt[q] /\ limit'[q] = limit[q] /\ stepped'[q] = stepped[q]
    BY <1>1, <1>3 DEF Put, ServingInv, ServingTypes
  <2>2. mode' \in Paged \cup Buffered /\ serving' \subseteq served' BY <1>3 DEF ServingInv, ServingTypes
  <2>3. ASSUME NEW q \in serving'
        PROVE  prompt'[q] \in Nat \ {0} /\ limit'[q] \in Nat /\ stepped'[q] \in 0..limit'[q]
    <3>1. CASE q = r BY <3>1, <2>1, <1>2
    <3>2. CASE q # r BY <3>2, <2>1, <1>3 DEF ServingInv, ServingTypes
    <3> QED BY <3>1, <3>2
  <2> QED BY <2>1, <2>2, <2>3 DEF ServingTypes, Paged, Buffered, Uncached
<1>5. SawOwn(saw)' BY <1>3, SawNext DEF ServingInv
<1>6. CASE mode = Uncached
  <2>1. cache' = cache BY <1>1, <1>6
  <2>2. CacheSound(cache)' BY <2>1, <1>3, SoundNext DEF ServingInv
  <2>3. ServingCached' BY <2>1, <1>3, <1>6 DEF ServingInv, ServingCached
  <2> QED BY <1>4, <1>5, <2>2, <2>3 DEF ServingInv
<1>7. CASE mode # Uncached
  <2>1. cache' = Reserve(cache, r, p + m) /\ MayReserve(cache, p + m) BY <1>1, <1>7
  <2>2. r \notin DOMAIN cache.places BY <1>3, <1>7 DEF ServingInv, ServingCached
  <2>3. Reserved(cache, cache', r, p + m)
    <3>1. CacheSound(cache) BY DEF ServingInv
    <3> QED BY <1>2, <2>1, <2>2, <3>1, ReserveSound
  <2>4. CacheSound(cache)' BY <2>3, <1>3, SoundNext DEF Reserved
  <2>5. ServingCached'
    <3>1. /\ DOMAIN cache'.places = serving'
          /\ \A q \in serving : cache'.places[q] = cache.places[q] /\ cache'.lengths[q] = cache.lengths[q]
          /\ p + m <= Len(cache'.places[r]) /\ cache'.lengths[r] = 0
      BY <2>3, <1>3, <1>7 DEF Reserved, ServingInv, ServingCached
    <3>2. /\ prompt'[r] = p /\ limit'[r] = m /\ stepped'[r] = 0
          /\ \A q \in serving : prompt'[q] = prompt[q] /\ limit'[q] = limit[q] /\ stepped'[q] = stepped[q]
      BY <1>1, <1>3 DEF Put, ServingInv, ServingTypes
    <3>3. ASSUME NEW q \in serving'
          PROVE  /\ prompt'[q] + limit'[q] <= Len(cache'.places[q])
                 /\ cache'.lengths[q] = IF stepped'[q] = 0 THEN 0 ELSE prompt'[q] + stepped'[q] - 1
      <4>1. CASE q = r BY <4>1, <3>1, <3>2
      <4>2. CASE q # r
        <5>1. q \in serving BY <4>2, <1>3
        <5>2. /\ prompt[q] + limit[q] <= Len(cache.places[q])
              /\ cache.lengths[q] = IF stepped[q] = 0 THEN 0 ELSE prompt[q] + stepped[q] - 1
          BY <5>1, <1>7 DEF ServingInv, ServingCached
        <5> QED BY <5>1, <5>2, <3>1, <3>2
      <4> QED BY <4>1, <4>2
    <3> QED BY <3>1, <3>3, <1>3, <1>7 DEF ServingCached, Uncached
  <2> QED BY <1>4, <1>5, <2>4, <2>5 DEF ServingInv
<1> QED BY <1>6, <1>7

LEMMA StepKeeps == ASSUME ServingInv, NEW r, Step(r) PROVE ServingInv'
<1>1. /\ r \in serving /\ stepped[r] < limit[r] /\ stepped' = [stepped EXCEPT ![r] = @ + 1]
      /\ UNCHANGED <<mode, serving, served, prompt, limit>>
  BY DEF Step
<1>2. prompt[r] \in Nat \ {0} /\ limit[r] \in Nat /\ stepped[r] \in Nat /\ DOMAIN stepped = serving
  BY <1>1 DEF ServingInv, ServingTypes
<1>3. stepped'[r] = stepped[r] + 1 /\ DOMAIN stepped' = serving /\ \A q \in serving \ {r} : stepped'[q] = stepped[q]
  BY <1>1, <1>2
<1>4. ServingTypes'
  <2>1. \A q \in serving : stepped'[q] \in 0..limit[q]
    <3> TAKE q \in serving
    <3>1. CASE q = r BY <3>1, <1>1, <1>2, <1>3
    <3>2. CASE q # r BY <3>2, <1>3 DEF ServingInv, ServingTypes
    <3> QED BY <3>1, <3>2
  <2> QED BY <2>1, <1>1, <1>3 DEF ServingInv, ServingTypes, Paged, Buffered, Uncached
<1>5. CASE mode # Uncached
  <2>1. PICK k \in BOOLEAN : cache' = CachedStep(r, k).cache /\ saw' = CachedStep(r, k).saw BY <1>5 DEF Step
  <2> DEFINE out == CachedStep(r, k)
  <2>2. FilledTo(out, cache, r, prompt[r] + stepped[r]) BY <1>1, <1>5, CachedOwn
  <2> HIDE DEF out
  <2>3. CacheSound(cache)' /\ SawOwn(saw)'
    <3>1. CacheSound(cache') /\ SawOwn(saw') BY <2>1, <2>2 DEF FilledTo, out
    <3> QED BY <3>1, <1>1, SoundNext, SawNext
  <2>4. ServingCached'
    <3>1. /\ DOMAIN cache.places = serving /\ DOMAIN cache'.places = serving
          /\ \A q \in serving : cache'.places[q] = cache.places[q]
          /\ \A q \in serving \ {r} : cache'.lengths[q] = cache.lengths[q]
          /\ cache'.lengths[r] = prompt[r] + stepped[r]
      BY <2>1, <2>2, <1>5 DEF FilledTo, out, ServingInv, ServingCached
    <3>2. ASSUME NEW q \in serving
          PROVE  /\ prompt[q] + limit[q] <= Len(cache'.places[q])
                 /\ cache'.lengths[q] = IF stepped'[q] = 0 THEN 0 ELSE prompt[q] + stepped'[q] - 1
      <4>1. /\ prompt[q] + limit[q] <= Len(cache.places[q])
            /\ cache.lengths[q] = IF stepped[q] = 0 THEN 0 ELSE prompt[q] + stepped[q] - 1
        BY <1>5 DEF ServingInv, ServingCached
      <4>2. CASE q = r
        <5>1. stepped'[r] # 0 /\ prompt[r] + stepped'[r] - 1 = prompt[r] + stepped[r] BY <1>2, <1>3
        <5> QED BY <4>1, <4>2, <3>1, <5>1
      <4>3. CASE q # r BY <4>1, <4>3, <3>1, <1>3
      <4> QED BY <4>2, <4>3
    <3> QED BY <3>1, <3>2, <1>1, <1>5 DEF ServingCached, Uncached
  <2> QED BY <1>4, <2>3, <2>4 DEF ServingInv
<1>6. CASE mode = Uncached
  <2>1. DOMAIN cache.places = {} /\ CacheSound(cache) /\ mode \notin Paged
    BY <1>6 DEF ServingInv, ServingCached, Paged, Uncached
  <2>2. CacheSound(cache') /\ SawOwn(saw') /\ DOMAIN cache'.places = {}
    <3>1. CASE cache' = CanonicalReplay(r).cache /\ saw' = CanonicalReplay(r).saw
      <4>1. Gone(cache, CanonicalReplay(r).cache, r) /\ SawOwn(CanonicalReplay(r).saw)
        BY <2>1, <1>2, ReplayGivesBack
      <4> QED BY <3>1, <4>1, <2>1 DEF Gone
    <3>2. CASE cache' = NaiveForward(r).cache /\ saw' = NaiveForward(r).saw
      BY <3>2, <2>1, <1>2, NaiveOwn
    <3> QED BY <3>1, <3>2, <1>6 DEF Step
  <2>3. CacheSound(cache)' /\ SawOwn(saw)' BY <2>2, <1>1, SoundNext, SawNext
  <2>4. ServingCached' BY <2>2, <1>1, <1>6 DEF ServingCached, Uncached
  <2> QED BY <1>4, <2>3, <2>4 DEF ServingInv
<1> QED BY <1>5, <1>6

LEMMA DepartKeeps == ASSUME ServingInv, NEW r, Depart(r) PROVE ServingInv'
<1>1. /\ r \in serving /\ serving' = serving \ {r} /\ saw' = Unseen /\ UNCHANGED <<mode, served>>
      /\ prompt' = Without(prompt, {r}) /\ limit' = Without(limit, {r}) /\ stepped' = Without(stepped, {r})
  BY DEF Depart
<1>2. /\ DOMAIN prompt' = serving' /\ DOMAIN limit' = serving' /\ DOMAIN stepped' = serving'
      /\ \A q \in serving' : prompt'[q] = prompt[q] /\ limit'[q] = limit[q] /\ stepped'[q] = stepped[q]
  BY <1>1 DEF Without, ServingInv, ServingTypes
<1>3. ServingTypes'
  <2>1. \A q \in serving' : prompt'[q] \in Nat \ {0} /\ limit'[q] \in Nat /\ stepped'[q] \in 0..limit'[q]
    BY <1>1, <1>2 DEF ServingInv, ServingTypes
  <2> QED BY <2>1, <1>1, <1>2 DEF ServingInv, ServingTypes, Paged, Buffered, Uncached
<1>4. PICK c : /\ CacheSound(c) /\ cache' = Release(c, r) /\ DOMAIN c.places = DOMAIN cache.places
               /\ \A q \in DOMAIN cache.places : c.places[q] = cache.places[q]
               /\ \A q \in DOMAIN cache.places \ {r} : c.lengths[q] = cache.lengths[q]
  <2>1. CASE cache' = Release(cache, r) BY <2>1 DEF ServingInv
  <2>2. CASE /\ mode # Uncached /\ stepped[r] < limit[r]
             /\ cache' = Release(CachedStep(r, TRUE).cache, r)
    <3> DEFINE out == CachedStep(r, TRUE)
    <3>1. FilledTo(out, cache, r, prompt[r] + stepped[r]) BY <1>1, <2>2, CachedOwn
    <3>2. cache' = Release(out.cache, r) BY <2>2
    <3> HIDE DEF out
    <3> QED BY <3>1, <3>2 DEF FilledTo
  <2> QED BY <2>1, <2>2 DEF Depart
<1>5. Gone(c, cache', r) BY <1>4, ReleaseSound
<1>6. CacheSound(cache)' /\ SawOwn(saw)' BY <1>1, <1>5, SoundNext, SawNext, NothingSeen DEF Gone
<1>7. /\ DOMAIN cache'.places = DOMAIN cache.places \ {r}
      /\ \A q \in DOMAIN cache'.places : cache'.places[q] = cache.places[q] /\ cache'.lengths[q] = cache.lengths[q]
  BY <1>4, <1>5 DEF Gone
<1>8. ServingCached'
  <2>1. DOMAIN cache'.places = IF mode = Uncached THEN {} ELSE serving'
    BY <1>1, <1>7 DEF ServingInv, ServingCached
  <2>2. ASSUME mode # Uncached, NEW q \in serving'
        PROVE  /\ prompt'[q] + limit'[q] <= Len(cache'.places[q])
               /\ cache'.lengths[q] = IF stepped'[q] = 0 THEN 0 ELSE prompt'[q] + stepped'[q] - 1
    <3>1. /\ prompt[q] + limit[q] <= Len(cache.places[q])
          /\ cache.lengths[q] = IF stepped[q] = 0 THEN 0 ELSE prompt[q] + stepped[q] - 1
      BY <1>1, <2>2 DEF ServingInv, ServingCached
    <3> QED BY <3>1, <1>2, <1>7, <2>1, <2>2
  <2> QED BY <2>1, <2>2, <1>1 DEF ServingCached, Uncached
<1> QED BY <1>3, <1>6, <1>8 DEF ServingInv

\* Every step keeps it.
LEMMA ServingKeep == ASSUME ServingInv, [SerialNext]_serialVars PROVE ServingInv'
<1>1. CASE UNCHANGED serialVars
  <2>1. CacheSound(cache)' /\ SawOwn(saw)' BY <1>1, SoundNext, SawNext DEF ServingInv, serialVars
  <2> QED BY <1>1, <2>1 DEF ServingInv, ServingTypes, ServingCached, serialVars, Paged, Buffered, Uncached
<1> QED BY <1>1, AdmitServedKeeps, StepKeeps, DepartKeeps DEF SerialNext, AllServed

\* A query attends to its own history up to its position.
LEMMA ServingOwn == ASSUME ServingInv PROVE StepAttendsOwn
BY DEF ServingInv, SawOwn, StepAttendsOwn

-------------------------------------------------------------------------------
(* The forward pass of the ragged engine.                                              *)

\* The blocks of the tables are neither in two of them nor free.
BlocksOwn(fr, ts) ==
    /\ fr \in Seq(Pool) /\ NoneTwice(fr)
    /\ DOMAIN ts = Sequents /\ \A r \in Sequents : ts[r] \in Seq(Pool)
    /\ \A r \in Sequents : \A j \in DOMAIN ts[r], k \in DOMAIN fr : ts[r][j] # fr[k]
    /\ \A r, q \in Sequents : \A i \in DOMAIN ts[r], j \in DOMAIN ts[q] : ts[r][i] = ts[q][j] => r = q /\ i = j

\* A table covers position p; the slot it has for it.
Covers(t, p) == p \div BlockTokens + 1 \in DOMAIN t
SlotOf(t, p) == <<BlockOf(t, p), p % BlockTokens>>

\* Every position that was fed is covered, and its slot holds its token.
FedOwn(pl, ts, fd) ==
    \A r \in Sequents : \A p \in 0..fd[r] - 1 :
        Covers(ts[r], p) /\ pl[BlockOf(ts[r], p)][p % BlockTokens] = <<r, p>>

SequentTypes ==
    /\ warm \in BOOLEAN
    /\ sequents \in Seq(Sequents) /\ NoneTwice(sequents) /\ Len(sequents) <= MaxActive
    /\ fed \in [Sequents -> Nat] /\ known \in [Sequents -> Nat]

NotYetWarm ==
    ~warm => /\ sequents = << >>
             /\ freeList = [i \in 1..PoolBlocks |-> i - 1]
             /\ \A r \in Sequents : tables[r] = << >> /\ fed[r] = 0

\* Each graph has logits for its rows, and one was captured for each size of the warm-up.
SizedTo(s, n) == DOMAIN s = 1..n /\ Len(s) = n
GraphsSized ==
    /\ \A n \in DOMAIN static : SizedTo(static[n].logits, n)
    /\ warm /\ kernel = "graphs" => WarmSizes \subseteq DOMAIN static

TablesOwn == BlocksOwn(freeList, tables)
PoolOwn == FedOwn(pool, tables, fed)

ForwardInv == SequentTypes /\ NotYetWarm /\ GraphsSized /\ TablesOwn /\ PoolOwn /\ AttendsOwn

LEMMA TablesNext == ASSUME BlocksOwn(freeList', tables') PROVE TablesOwn'
BY DEF TablesOwn, BlocksOwn

LEMMA PoolNext == ASSUME FedOwn(pool', tables', fed') PROVE PoolOwn'
BY DEF PoolOwn, FedOwn

-------------------------------------------------------------------------------
(* Positions, blocks and slots.                                                        *)

\* Blocks for n tokens cover the positions below n.
LEMMA BlocksCover ==
    ASSUME NEW n \in Nat
    PROVE  BlocksOfLength(n) \in Nat /\ \A p \in 0..n - 1 : p \div BlockTokens + 1 \in 1..BlocksOfLength(n)
<1> DEFINE B == BlockTokens
           m == n + B - 1
           d == m \div B
<1>1. B \in Nat /\ B > 0 BY ForwardAssumption
<1>2. m \in Nat BY <1>1
<1>3. d \in Nat /\ m < B * d + B BY <1>1, <1>2, Quotient
<1>4. d = BlocksOfLength(n) BY DEF BlocksOfLength
<1> HIDE DEF d
<1>5. B * d \in Nat /\ d * B = B * d BY <1>1, <1>3
<1>6. n <= d * B BY <1>1, <1>3, <1>5
<1>7. ASSUME NEW p \in 0..n - 1 PROVE p \div B + 1 \in 1..d
  <2>1. p \in 0..d * B - 1 BY <1>5, <1>6
  <2>2. p \div B \in 0..d - 1 BY <2>1, <1>1, <1>3, QuotientBelow
  <2> HIDE DEF B
  <2> QED BY <2>2, <1>3
<1> QED BY <1>3, <1>4, <1>7

\* No two positions have the same block and the same offset.
LEMMA SlotIsOf ==
    ASSUME NEW p \in Nat, NEW s \in Nat,
           p \div BlockTokens = s \div BlockTokens, p % BlockTokens = s % BlockTokens
    PROVE  p = s
<1> DEFINE B == BlockTokens
<1>1. B \in Nat /\ B > 0 BY ForwardAssumption
<1>2. p = B * (p \div B) + (p % B) /\ s = B * (s \div B) + (s % B) BY <1>1, Quotient
<1> QED BY <1>2

\* Nor have two positions of two requests the same slot.
LEMMA SlotsDiffer ==
    ASSUME NEW fr, NEW ts, BlocksOwn(fr, ts), NEW r \in Sequents, NEW q \in Sequents,
           NEW p \in Nat, NEW s \in Nat, Covers(ts[r], p), Covers(ts[q], s),
           SlotOf(ts[r], p) = SlotOf(ts[q], s)
    PROVE  r = q /\ p = s
<1> DEFINE i == p \div BlockTokens
           j == s \div BlockTokens
<1>0. i \in Nat /\ j \in Nat BY ForwardAssumption, Quotient
<1>1. ts[r][i + 1] = ts[q][j + 1] /\ p % BlockTokens = s % BlockTokens BY DEF SlotOf, BlockOf
<1>2. i + 1 \in DOMAIN ts[r] /\ j + 1 \in DOMAIN ts[q] BY DEF Covers
<1> HIDE DEF i, j
<1>3. r = q /\ i + 1 = j + 1 BY <1>1, <1>2 DEF BlocksOwn
<1>4. i = j BY <1>0, <1>3
<1> QED BY <1>1, <1>3, <1>4, SlotIsOf DEF i, j

\* The slot of a covered position is one of the pool's.
LEMMA SlotInPool ==
    ASSUME NEW fr, NEW ts, BlocksOwn(fr, ts), NEW r \in Sequents, NEW p \in Nat, Covers(ts[r], p)
    PROVE  BlockOf(ts[r], p) \in Pool /\ p % BlockTokens \in 0..BlockTokens - 1
<1>1. ts[r] \in Seq(Pool) BY DEF BlocksOwn
<1>2. BlockOf(ts[r], p) \in Pool BY <1>1 DEF Covers, BlockOf
<1> QED BY <1>2, ForwardAssumption, Quotient

-------------------------------------------------------------------------------
(* What a batch writes.                                                                *)

\* A row has the token of a request's position, and the slot its table has for it.
RowOwn(row, ts, r, p) == row.token = <<r, p>> /\ Covers(ts[r], p) /\ row.slot = SlotOf(ts[r], p)
RowsOwn(rows, ts) ==
    /\ Len(rows) \in Nat /\ DOMAIN rows = 1..Len(rows)
    /\ \A i \in DOMAIN rows : \E r \in Sequents, p \in Nat : RowOwn(rows[i], ts, r, p)
Fed(rows, r, p) == \E i \in DOMAIN rows : rows[i].token = <<r, p>>

\* A set of numbers up to n that is not empty has a greatest one.
LEMMA GreatestOf ==
    ASSUME NEW n \in Nat, NEW T, T \subseteq 0..n, T # {}
    PROVE  Max(T) \in T
<1> DEFINE D == {n - m : m \in T}
<1>0. \A m \in T : m \in Nat /\ m <= n /\ n - m \in Nat OBVIOUS
<1>1. D \subseteq Nat /\ D # {} BY <1>0
<1>2. PICK d \in D : \A k \in Nat : k < d => k \notin D
  <2> HIDE DEF D
  <2> QED BY <1>1, LeastNumber
<1>3. PICK m \in T : d = n - m BY <1>2
<1>4. ASSUME NEW k \in T PROVE m >= k
  <2>1. n - k \in D /\ n - k \in Nat /\ k \in Nat /\ m \in Nat BY <1>0
  <2> QED BY <2>1, <1>2, <1>3
<1>5. \E x \in T : \A k \in T : x >= k BY <1>4
<1> QED BY <1>5 DEF Max

\* A position that was fed, or that had its token, has it afterwards.
LEMMA WrittenOwn ==
    ASSUME NEW fr, NEW ts, BlocksOwn(fr, ts), NEW rows, RowsOwn(rows, ts),
           NEW r \in Sequents, NEW p \in Nat, Covers(ts[r], p),
           Fed(rows, r, p) \/ pool[BlockOf(ts[r], p)][p % BlockTokens] = <<r, p>>
    PROVE  Written(rows)[BlockOf(ts[r], p)][p % BlockTokens] = <<r, p>>
<1> DEFINE b == BlockOf(ts[r], p)
           o == p % BlockTokens
           here == {i \in DOMAIN rows : rows[i].slot = <<b, o>>}
<1>1. b \in Pool /\ o \in 0..BlockTokens - 1 BY SlotInPool
<1>2. Written(rows)[b][o] = IF here = {} THEN pool[b][o] ELSE rows[Max(here)].token
  <2> HIDE DEF b, o
  <2> QED BY <1>1 DEF Written
<1>3. ASSUME NEW i \in here PROVE rows[i].token = <<r, p>>
  <2>1. PICK q \in Sequents, s \in Nat : RowOwn(rows[i], ts, q, s) BY <1>3 DEF RowsOwn
  <2>2. SlotOf(ts[r], p) = SlotOf(ts[q], s) BY <1>3, <2>1 DEF RowOwn, SlotOf
  <2>3. r = q /\ p = s
    <3>1. Covers(ts[q], s) BY <2>1 DEF RowOwn
    <3> QED BY <2>2, <3>1, SlotsDiffer
  <2> QED BY <2>1, <2>3 DEF RowOwn
<1>4. ASSUME NEW i \in DOMAIN rows, rows[i].token = <<r, p>> PROVE i \in here
  <2>1. PICK q \in Sequents, s \in Nat : RowOwn(rows[i], ts, q, s) BY <1>4 DEF RowsOwn
  <2>2. q = r /\ s = p BY <1>4, <2>1 DEF RowOwn
  <2> QED BY <2>1, <2>2 DEF RowOwn, SlotOf
<1>5. CASE here = {}
  <2>1. ~Fed(rows, r, p) BY <1>4, <1>5 DEF Fed
  <2> QED BY <1>2, <1>5, <2>1
<1>6. CASE here # {}
  <2>1. Max(here) \in here
    <3>1. here \subseteq 0..Len(rows) /\ Len(rows) \in Nat BY DEF RowsOwn
    <3> HIDE DEF here
    <3> QED BY <3>1, <1>6, GreatestOf
  <2> HIDE DEF here
  <2> QED BY <1>2, <1>3, <1>6, <2>1
<1> QED BY <1>5, <1>6

-------------------------------------------------------------------------------
(* Packing.                                                                            *)

\* What can be packed: each item has positions to feed, which the tables cover.
ItemOwn(x, ts) ==
    /\ x.req \in Sequents /\ x.start \in Nat /\ x.end \in Nat /\ x.start < x.end /\ x.end <= Longest
    /\ x.sample \in BOOLEAN
    /\ \A p \in 0..x.end - 1 : Covers(ts[x.req], p)
ItemsOwn(items, ts) ==
    /\ Len(items) \in Nat /\ DOMAIN items = 1..Len(items) /\ \A i \in 1..Len(items) : ItemOwn(items[i], ts)

RowSet == [token : Sequents \X Nat, pos : Nat, slot : Pool \X (0..BlockTokens - 1), seq : Nat]

\* The first n items have been packed into acc: every position to feed has a row ...
RowsPacked(rows, items, ts, n) ==
    /\ rows \in Seq(RowSet)
    /\ \A k \in DOMAIN rows :
          /\ rows[k].seq \in 1..n /\ rows[k].pos < items[rows[k].seq].end
          /\ RowOwn(rows[k], ts, items[rows[k].seq].req, rows[k].pos)
    /\ \A i \in 1..n : \A p \in items[i].start..items[i].end - 1 : Fed(rows, items[i].req, p)

\* ... every item its table ...
TablesPacked(tabs, items, ts, n) ==
    /\ tabs \in Seq(Seq(Pool)) /\ Len(tabs) = n
    /\ \A i \in 1..n : tabs[i] = Filled(ts[items[i].req])

\* ... and every sampled one the number of its last row.
LastRow(row, items, n, r) ==
    \E i \in 1..n : items[i].sample /\ items[i].req = r /\ row.seq = i /\ row.pos = items[i].end - 1
SampledPacked(acc, items, n) ==
    /\ acc.logits \in Seq(Nat) /\ acc.sampled \in Seq(Sequents) /\ Len(acc.logits) = Len(acc.sampled)
    /\ Len(acc.sampled) <= n /\ ((\A i \in 1..n : items[i].sample) => Len(acc.sampled) = n)
    /\ \A k \in DOMAIN acc.sampled :
          acc.logits[k] \in DOMAIN acc.rows /\ LastRow(acc.rows[acc.logits[k]], items, n, acc.sampled[k])

\* Of items of one position each, the n-th has the n-th row, and so have the logits of the n-th of the
\* sampled ones, if all but the last of the items are sampled.
OneEach(items, n) == \A i \in 1..n : items[i].end = items[i].start + 1
RowEach(acc, n) == Len(acc.rows) = n /\ \A k \in 1..n : acc.rows[k].seq = k
Settled(items, n) == OneEach(items, n) /\ \A i \in 1..n : i # n => items[i].sample
InPlace(acc) == \A k \in DOMAIN acc.sampled : acc.logits[k] = k

PackedOwn(acc, items, ts, n) ==
    /\ RowsPacked(acc.rows, items, ts, n) /\ TablesPacked(acc.tables, items, ts, n)
    /\ SampledPacked(acc, items, n)
    /\ OneEach(items, n) => RowEach(acc, n)
    /\ Settled(items, n) => InPlace(acc)

\* The rows of an item.
RowsAre(rs, x, i, ts) ==
    /\ rs \in Seq(RowSet) /\ Len(rs) = x.end - x.start
    /\ \A k \in 1..x.end - x.start :
          /\ rs[k].pos = x.start + k - 1 /\ rs[k].seq = i
          /\ RowOwn(rs[k], ts, x.req, x.start + k - 1)

LEMMA RowsOfAre ==
    ASSUME NEW fr, NEW ts, BlocksOwn(fr, ts), NEW items, NEW i \in Nat, ItemOwn(items[i], ts)
    PROVE  RowsAre(RowsOf(items, i, ts), items[i], i, ts)
<1> DEFINE x == items[i]
           n == x.end - x.start
           r == x.req
           row(k) == [token |-> <<r, x.start + k - 1>>, pos |-> x.start + k - 1,
                      slot |-> SlotOf(ts[r], x.start + k - 1), seq |-> i]
           rs == RowsOf(items, i, ts)
<1>1. r \in Sequents /\ x.start \in Nat /\ x.end \in Nat /\ n \in Nat \ {0} BY DEF ItemOwn
<1>2. rs = [k \in 1..n |-> row(k)] BY DEF RowsOf, SlotOf
<1>3. ASSUME NEW k \in 1..n
      PROVE  /\ row(k) \in RowSet /\ row(k).pos = x.start + k - 1 /\ row(k).seq = i
             /\ RowOwn(row(k), ts, r, x.start + k - 1)
  <2> DEFINE p == x.start + k - 1
  <2>1. p \in Nat /\ p \in 0..x.end - 1 BY <1>1
  <2> HIDE DEF p
  <2>2. Covers(ts[r], p) BY <2>1 DEF ItemOwn
  <2>3. SlotOf(ts[r], p) \in Pool \X (0..BlockTokens - 1) BY <1>1, <2>1, <2>2, SlotInPool DEF SlotOf
  <2>4. row(k) = [token |-> <<r, p>>, pos |-> p, slot |-> SlotOf(ts[r], p), seq |-> i] BY DEF p
  <2> HIDE DEF row
  <2>5. row(k) \in RowSet BY <1>1, <2>1, <2>3, <2>4 DEF RowSet
  <2>6. row(k).pos = p /\ row(k).seq = i /\ RowOwn(row(k), ts, r, p) BY <2>2, <2>4 DEF RowOwn
  <2> QED BY <2>5, <2>6 DEF p
<1> HIDE DEF n, row, rs, r
<1>4. rs \in Seq(RowSet) /\ Len(rs) = n /\ \A k \in 1..n : rs[k] = row(k) BY <1>1, <1>2, <1>3
<1> QED BY <1>3, <1>4 DEF RowsAre, n, r, rs

\* One item more.
LEMMA ExtendedOwn ==
    ASSUME NEW fr, NEW ts, BlocksOwn(fr, ts), NEW items, ItemsOwn(items, ts), NEW n \in 1..Len(items),
           NEW acc, PackedOwn(acc, items, ts, n - 1)
    PROVE  PackedOwn(Extended(acc, items, n, ts), items, ts, n)
<1> DEFINE x == items[n]
           rs == RowsOf(items, n, ts)
           out == Extended(acc, items, n, ts)
           m == Len(acc.rows)
           l == x.end - x.start
           rows == acc.rows \o rs
<1>1. n \in Nat /\ n - 1 \in Nat /\ ItemOwn(x, ts) BY DEF ItemsOwn
<1>2. RowsAre(rs, x, n, ts) BY <1>1, RowsOfAre
<1>3. x.start \in Nat /\ x.end \in Nat /\ l \in Nat \ {0} /\ x.sample \in BOOLEAN /\ x.req \in Sequents
  BY <1>1 DEF ItemOwn
<1>4. /\ out.rows = rows /\ out.tables = Append(acc.tables, Filled(ts[x.req]))
      /\ out.logits = IF x.sample THEN Append(acc.logits, Len(rows)) ELSE acc.logits
      /\ out.sampled = IF x.sample THEN Append(acc.sampled, x.req) ELSE acc.sampled
  BY DEF Extended
<1> HIDE DEF rs, out, rows
<1>5. RowsPacked(acc.rows, items, ts, n - 1) /\ acc.rows \in Seq(RowSet) /\ m \in Nat BY DEF PackedOwn, RowsPacked
<1> HIDE DEF x, l, m
<1>6. /\ rows \in Seq(RowSet) /\ Len(rows) = m + l /\ DOMAIN rows = 1..m + l
      /\ \A k \in 1..m : k \in DOMAIN rows /\ rows[k] = acc.rows[k]
      /\ \A k \in 1..l : m + k \in DOMAIN rows /\ rows[m + k] = rs[k]
  <2>1. rs \in Seq(RowSet) /\ Len(rs) = l BY <1>2 DEF RowsAre, l
  <2>2. /\ rows \in Seq(RowSet) /\ Len(rows) = m + l
        /\ \A k \in 1..m + l : rows[k] = IF k <= m THEN acc.rows[k] ELSE rs[k - m]
    BY <2>1, <1>5, ConcatProperties DEF rows, m
  <2>3. DOMAIN rows = 1..m + l BY <2>2
  <2>4. \A k \in 1..m : k \in 1..m + l /\ k <= m BY <1>3, <1>5
  <2>5. \A k \in 1..l : m + k \in 1..m + l /\ ~(m + k <= m) /\ (m + k) - m = k BY <1>3, <1>5
  <2> QED BY <2>2, <2>3, <2>4, <2>5
<1>7. \A k \in DOMAIN rows : k \in 1..m \/ \E j \in 1..l : k = m + j
  <2> TAKE k \in DOMAIN rows
  <2>1. k \in 1..m \/ (k - m \in 1..l /\ k = m + (k - m)) BY <1>3, <1>5, <1>6
  <2> QED BY <2>1
<1>8. RowsPacked(rows, items, ts, n)
  <2>1. ASSUME NEW k \in DOMAIN rows
        PROVE  /\ rows[k].seq \in 1..n /\ rows[k].pos < items[rows[k].seq].end
               /\ RowOwn(rows[k], ts, items[rows[k].seq].req, rows[k].pos)
    <3>1. CASE k \in 1..m
      <4>1. k \in DOMAIN acc.rows /\ rows[k] = acc.rows[k] BY <3>1, <1>5, <1>6 DEF m
      <4>2. /\ rows[k].seq \in 1..n - 1 /\ rows[k].pos < items[rows[k].seq].end
            /\ RowOwn(rows[k], ts, items[rows[k].seq].req, rows[k].pos)
        BY <4>1, <1>5 DEF RowsPacked
      <4> QED BY <4>2, <1>1
    <3>2. CASE \E j \in 1..l : k = m + j
      <4>1. PICK j \in 1..l : k = m + j BY <3>2
      <4>2. rows[k] = rs[j] BY <4>1, <1>6
      <4>3. rs[j].pos = x.start + j - 1 /\ rs[j].seq = n /\ RowOwn(rs[j], ts, x.req, x.start + j - 1)
        BY <1>2 DEF RowsAre, l
      <4>4. x.start + j - 1 < x.end BY <1>3 DEF l
      <4>5. n \in 1..n BY <1>1
      <4> QED BY <4>2, <4>3, <4>4, <4>5 DEF x
    <3> QED BY <3>1, <3>2, <1>7
  <2>2. ASSUME NEW i \in 1..n, NEW p \in items[i].start..items[i].end - 1 PROVE Fed(rows, items[i].req, p)
    <3>1. CASE i = n
      <4> DEFINE k == p - x.start + 1
      <4>1. p \in x.start..x.end - 1 BY <3>1, <2>2 DEF x
      <4>2. k \in 1..l /\ x.start + k - 1 = p BY <4>1, <1>3 DEF l
      <4> HIDE DEF k
      <4>3. RowOwn(rs[k], ts, x.req, x.start + k - 1) BY <4>2, <1>2 DEF RowsAre, l
      <4>4. rows[m + k].token = <<x.req, p>> /\ m + k \in DOMAIN rows BY <4>2, <4>3, <1>6 DEF RowOwn
      <4> QED BY <4>4, <3>1 DEF Fed, x
    <3>2. CASE i # n
      <4>1. i \in 1..n - 1 BY <3>2, <1>1
      <4>2. Fed(acc.rows, items[i].req, p) BY <4>1, <2>2, <1>5 DEF RowsPacked
      <4>3. \A k \in DOMAIN acc.rows : k \in DOMAIN rows /\ rows[k] = acc.rows[k] BY <1>5, <1>6 DEF m
      <4> QED BY <4>2, <4>3 DEF Fed
    <3> QED BY <3>1, <3>2
  <2> QED BY <2>1, <2>2, <1>6 DEF RowsPacked
<1>9. TablesPacked(out.tables, items, ts, n)
  <2>1. Filled(ts[x.req]) \in Seq(Pool)
    <3>1. ts[x.req] \in Seq(Pool) BY <1>3 DEF BlocksOwn
    <3>2. 0 \in Pool BY ForwardAssumption DEF Pool
    <3>3. Width \in Nat
      <4>1. Longest \in Nat BY ForwardAssumption
      <4> QED BY <4>1, BlocksCover DEF Width, BlocksOfLength
    <3> HIDE DEF x
    <3> DEFINE t == ts[x.req]
    <3>4. \A j \in 1..Width : (IF j <= Len(t) THEN t[j] ELSE 0) \in Pool BY <3>1, <3>2
    <3>5. Filled(t) = [j \in 1..Width |-> IF j <= Len(t) THEN t[j] ELSE 0] BY DEF Filled
    <3> HIDE DEF t
    <3>6. Filled(t) \in Seq(Pool) BY <3>3, <3>4, <3>5
    <3> QED BY <3>6 DEF t
  <2>2. acc.tables \in Seq(Seq(Pool)) /\ Len(acc.tables) = n - 1
        /\ \A i \in 1..n - 1 : acc.tables[i] = Filled(ts[items[i].req]) BY DEF PackedOwn, TablesPacked
  <2> DEFINE e == Filled(ts[x.req])
  <2>3. /\ out.tables \in Seq(Seq(Pool)) /\ Len(out.tables) = n /\ out.tables[n] = e
        /\ \A i \in 1..n - 1 : out.tables[i] = acc.tables[i]
    <3> HIDE DEF e
    <3>1. out.tables = Append(acc.tables, e) /\ e \in Seq(Pool) BY <2>1, <1>4 DEF e
    <3>2. Len(acc.tables) + 1 = n BY <2>2, <1>1
    <3> QED BY <3>1, <3>2, <2>2, <1>1
  <2>4. \A i \in 1..n : i = n \/ i \in 1..n - 1 BY <1>1
  <2> QED BY <2>2, <2>3, <2>4 DEF TablesPacked, x
<1>10. SampledPacked(acc, items, n - 1) BY DEF PackedOwn
<1>11. \A k \in DOMAIN acc.rows : k \in DOMAIN rows /\ rows[k] = acc.rows[k] BY <1>5, <1>6 DEF m
<1>12. \A row, r : LastRow(row, items, n - 1, r) => LastRow(row, items, n, r)
  <2>1. \A i \in 1..n - 1 : i \in 1..n BY <1>1
  <2> QED BY <2>1 DEF LastRow
<1>13. ASSUME NEW k \in DOMAIN acc.sampled
       PROVE  acc.logits[k] \in DOMAIN rows /\ LastRow(rows[acc.logits[k]], items, n, acc.sampled[k])
  <2>1. acc.logits[k] \in DOMAIN acc.rows /\ LastRow(acc.rows[acc.logits[k]], items, n - 1, acc.sampled[k])
    BY <1>10 DEF SampledPacked
  <2> QED BY <2>1, <1>11, <1>12
<1>14. LastRow(rows[m + l], items, n, x.req) \/ ~x.sample
  <2>1. l \in 1..l /\ x.start + l - 1 = x.end - 1 BY <1>3 DEF l
  <2>2. rows[m + l] = rs[l] /\ rs[l].pos = x.start + l - 1 /\ rs[l].seq = n
    BY <2>1, <1>2, <1>6 DEF RowsAre, l
  <2>3. n \in 1..n BY <1>1
  <2> QED BY <2>1, <2>2, <2>3 DEF LastRow, x
<1>15. SampledPacked(out, items, n)
  <2>1. CASE ~x.sample
    <3>1. out.logits = acc.logits /\ out.sampled = acc.sampled BY <2>1, <1>4
    <3>2. Len(acc.sampled) <= n - 1 /\ Len(acc.sampled) \in Nat BY <1>10 DEF SampledPacked
    <3>3. Len(acc.sampled) <= n BY <3>2, <1>1
    <3>4. ~ \A i \in 1..n : items[i].sample
      <4>1. n \in 1..n BY <1>1
      <4> QED BY <2>1, <4>1 DEF x
    <3> QED BY <3>1, <3>3, <3>4, <1>4, <1>10, <1>13 DEF SampledPacked
  <2>2. CASE x.sample
    <3> DEFINE j == Len(acc.sampled)
               e == Len(rows)
    <3>1. out.logits = Append(acc.logits, e) /\ out.sampled = Append(acc.sampled, x.req) BY <2>2, <1>4
    <3>2. acc.logits \in Seq(Nat) /\ acc.sampled \in Seq(Sequents) /\ Len(acc.logits) = j /\ j \in Nat
      BY <1>10 DEF SampledPacked
    <3>3. e \in Nat /\ e \in DOMAIN rows /\ e = m + l BY <1>3, <1>5, <1>6
    <3> HIDE DEF e
    <3>4. /\ out.logits \in Seq(Nat) /\ Len(out.logits) = j + 1 /\ out.logits[j + 1] = e
          /\ \A k \in 1..j : out.logits[k] = acc.logits[k]
      <4> HIDE DEF j
      <4> QED BY <3>1, <3>2, <3>3
    <3>5. /\ out.sampled \in Seq(Sequents) /\ Len(out.sampled) = j + 1 /\ out.sampled[j + 1] = x.req
          /\ \A k \in 1..j : out.sampled[k] = acc.sampled[k]
      BY <3>1, <3>2, <1>3
    <3>6. DOMAIN acc.sampled = 1..j /\ DOMAIN out.sampled = 1..j + 1 BY <3>2, <3>5
    <3>7. \A k \in 1..j + 1 : k = j + 1 \/ k \in 1..j BY <3>2
    <3> HIDE DEF j
    <3>8. \A k \in DOMAIN out.sampled :
             out.logits[k] \in DOMAIN rows /\ LastRow(rows[out.logits[k]], items, n, out.sampled[k])
      BY <3>3, <3>4, <3>5, <3>6, <3>7, <2>2, <1>13, <1>14
    <3>9. /\ Len(out.sampled) <= n /\ ((\A i \in 1..n : items[i].sample) => Len(out.sampled) = n)
      <4>1. j <= n - 1 /\ ((\A i \in 1..n - 1 : items[i].sample) => j = n - 1) BY <1>10 DEF SampledPacked, j
      <4>2. \A i \in 1..n - 1 : i \in 1..n BY <1>1
      <4>3. j \in Nat BY <3>2
      <4>4. Len(out.sampled) = j + 1 BY <3>5
      <4> QED BY <4>1, <4>2, <4>3, <4>4, <1>1
    <3> QED BY <3>4, <3>5, <3>8, <3>9, <1>4 DEF SampledPacked
  <2> QED BY <2>1, <2>2, <1>3
<1>16. ASSUME OneEach(items, n) PROVE RowEach(out, n) /\ m = n - 1 /\ l = 1
  <2>1. OneEach(items, n - 1) BY <1>16, <1>1 DEF OneEach
  <2>2. RowEach(acc, n - 1) BY <2>1 DEF PackedOwn
  <2>3. n \in 1..n BY <1>1
  <2>4. x.end = x.start + 1 BY <1>16, <2>3 DEF OneEach, x
  <2>5. l = 1 /\ m = n - 1 BY <2>2, <2>4, <1>3 DEF RowEach, l, m
  <2>6. Len(rows) = n /\ rows[n].seq = n
    <3>1. 1 \in 1..l /\ m + 1 = n BY <2>5, <1>1
    <3>2. rows[m + 1] = rs[1] /\ rs[1].seq = n BY <3>1, <1>2, <1>6 DEF RowsAre, l
    <3> QED BY <3>1, <3>2, <2>5, <1>1, <1>6
  <2>7. \A k \in 1..n - 1 : rows[k].seq = k BY <2>2, <2>5, <1>6 DEF RowEach
  <2>8. \A k \in 1..n : k = n \/ k \in 1..n - 1 BY <1>1
  <2> QED BY <2>5, <2>6, <2>7, <2>8, <1>4 DEF RowEach
<1>17. ASSUME Settled(items, n) PROVE InPlace(out)
  <2>1. OneEach(items, n) /\ \A i \in 1..n : i # n => items[i].sample BY <1>17 DEF Settled
  <2>2. \A i \in 1..n - 1 : i \in 1..n /\ i # n BY <1>1
  <2>3. OneEach(items, n - 1) BY <2>1, <2>2 DEF OneEach
  <2>4. Settled(items, n - 1) BY <2>1, <2>2, <2>3 DEF Settled
  <2>5. InPlace(acc) BY <2>4 DEF PackedOwn
  <2>6. /\ acc.logits \in Seq(Nat) /\ acc.sampled \in Seq(Sequents)
        /\ Len(acc.logits) = n - 1 /\ Len(acc.sampled) = n - 1
    BY <2>1, <2>2, <1>10 DEF SampledPacked
  <2>7. DOMAIN acc.sampled = 1..n - 1 BY <2>6
  <2>8. CASE ~x.sample
    <3>1. out.logits = acc.logits /\ out.sampled = acc.sampled BY <2>8, <1>4
    <3> QED BY <3>1, <2>5 DEF InPlace
  <2>9. CASE x.sample
    <3>1. Len(rows) = n BY <2>1, <1>16, <1>4 DEF RowEach
    <3>2. out.logits = Append(acc.logits, n) /\ out.sampled = Append(acc.sampled, x.req) BY <2>9, <3>1, <1>4
    <3>3. (n - 1) + 1 = n BY <1>1
    <3>4. out.logits[n] = n /\ \A k \in 1..n - 1 : out.logits[k] = acc.logits[k] BY <3>2, <3>3, <2>6, <1>1
    <3>5. DOMAIN out.sampled = 1..n BY <3>2, <3>3, <2>6, <1>3
    <3>6. \A k \in 1..n : k = n \/ k \in 1..n - 1 BY <1>1
    <3> QED BY <3>4, <3>5, <3>6, <2>5, <2>7 DEF InPlace
  <2> QED BY <2>8, <2>9, <1>3
<1> QED BY <1>4, <1>8, <1>9, <1>15, <1>16, <1>17 DEF PackedOwn, out

\* What has come of the first items.
Packs(f, items, ts) ==
    f = [n \in 0..Len(items) |->
            IF n = 0 THEN [rows |-> << >>, tables |-> << >>, logits |-> << >>, sampled |-> << >>]
            ELSE Extended(f[n - 1], items, n, ts)]
PacksUpto(f, items, ts, m) ==
    /\ f = [n \in 0..m |-> f[n]]
    /\ f[0] = [rows |-> << >>, tables |-> << >>, logits |-> << >>, sampled |-> << >>]
    /\ \A n \in 1..m : f[n] = Extended(f[n - 1], items, n, ts)

LEMMA PacksExist ==
    ASSUME NEW items, Len(items) \in Nat, NEW ts
    PROVE  /\ Packs(CHOOSE f : Packs(f, items, ts), items, ts)
           /\ PacksUpto(CHOOSE f : Packs(f, items, ts), items, ts, Len(items))
<1> DEFINE N == Len(items)
           init == [rows |-> << >>, tables |-> << >>, logits |-> << >>, sampled |-> << >>]
           G == {m \in 0..N : \E f : PacksUpto(f, items, ts, m)}
<1> HIDE DEF N, init
<1>1. 0 \in G
  <2> DEFINE f == [k \in 0..0 |-> init]
  <2>1. PacksUpto(f, items, ts, 0) BY DEF PacksUpto, init
  <2> HIDE DEF f
  <2> QED BY <2>1 DEF N
<1>2. ASSUME NEW m \in 1..N, m - 1 \in G PROVE m \in G
  <2>1. PICK f : PacksUpto(f, items, ts, m - 1) BY <1>2
  <2> DEFINE last == Extended(f[m - 1], items, m, ts)
             g == [k \in 0..m |-> IF k = m THEN last ELSE f[k]]
  <2>2. m \in Nat \ {0} /\ N \in Nat BY DEF N
  <2>3. g[0] = f[0] /\ g = [n \in 0..m |-> g[n]] BY <2>2
  <2>4. ASSUME NEW n \in 1..m PROVE g[n] = Extended(g[n - 1], items, n, ts)
    <3>1. n - 1 \in 0..m /\ n - 1 # m /\ n \in 0..m BY <2>2
    <3>2. g[n - 1] = f[n - 1] BY <3>1
    <3>3. CASE n = m
      <4> HIDE DEF last
      <4>1. g[n] = last BY <3>1, <3>3
      <4> HIDE DEF g
      <4> QED BY <3>2, <3>3, <4>1 DEF last
    <3>4. CASE n # m
      <4>1. n \in 1..m - 1 BY <3>4, <2>2
      <4>2. f[n] = Extended(f[n - 1], items, n, ts) BY <4>1, <2>1 DEF PacksUpto
      <4>3. g[n] = f[n] BY <3>1, <3>4
      <4> HIDE DEF g
      <4> QED BY <3>2, <4>2, <4>3
    <3> QED BY <3>3, <3>4
  <2> HIDE DEF g
  <2>5. PacksUpto(g, items, ts, m) BY <2>1, <2>3, <2>4 DEF PacksUpto
  <2> QED BY <2>5
<1>3. N \in Nat BY DEF N
<1> HIDE DEF G
<1>4. \A n \in 0..N : n \in G BY <1>1, <1>2, <1>3, Upto
<1>5. N \in G BY <1>3, <1>4
<1>6. PICK f : PacksUpto(f, items, ts, N) BY <1>5 DEF G
<1>7. Packs(f, items, ts)
  <2> DEFINE F(n) == IF n = 0 THEN init ELSE Extended(f[n - 1], items, n, ts)
  <2>1. \A n \in 0..N : f[n] = F(n)
    <3> TAKE n \in 0..N
    <3>1. CASE n = 0 BY <3>1, <1>6 DEF PacksUpto, init
    <3>2. CASE n # 0
      <4>1. n \in 1..N BY <3>2, <1>3
      <4> QED BY <3>2, <4>1, <1>6 DEF PacksUpto
    <3> QED BY <3>1, <3>2
  <2>2. f = [n \in 0..N |-> f[n]] BY <1>6 DEF PacksUpto
  <2> HIDE DEF F
  <2>3. f = [n \in 0..N |-> F(n)] BY <2>1, <2>2
  <2> QED BY <2>3 DEF Packs, N, init, F
<1> DEFINE a == CHOOSE g : Packs(g, items, ts)
<1>8. Packs(a, items, ts) BY <1>7
<1> HIDE DEF a
<1>9. PacksUpto(a, items, ts, N)
  <2>1. 0 \in 0..N /\ \A n \in 1..N : n \in 0..N /\ n # 0 BY <1>3
  <2>2. a[0] = init BY <1>8, <2>1 DEF Packs, N, init
  <2>3. \A n \in 1..N : a[n] = Extended(a[n - 1], items, n, ts) BY <1>8, <2>1 DEF Packs, N
  <2>4. a = [n \in 0..N |-> a[n]] BY <1>8 DEF Packs, N
  <2> QED BY <2>2, <2>3, <2>4 DEF PacksUpto, init
<1> QED BY <1>8, <1>9 DEF a, N

\* All of them.
LEMMA PackedIs ==
    ASSUME NEW fr, NEW ts, BlocksOwn(fr, ts), NEW items, ItemsOwn(items, ts)
    PROVE  PackedOwn(Packed(items, ts), items, ts, Len(items))
<1> DEFINE N == Len(items)
           a == CHOOSE f : Packs(f, items, ts)
           G == {n \in 0..N : PackedOwn(a[n], items, ts, n)}
<1>1. Packed(items, ts) = a[N] BY DEF Packed, Packs
<1>2. N \in Nat BY DEF ItemsOwn
<1>3. PacksUpto(a, items, ts, N) BY <1>2, PacksExist
<1> HIDE DEF N, a
<1>4. 0 \in G
  <2>1. a[0] = [rows |-> << >>, tables |-> << >>, logits |-> << >>, sampled |-> << >>] BY <1>3 DEF PacksUpto
  <2> DEFINE b == a[0]
  <2> HIDE DEF b
  <2>2. b.rows = << >> /\ b.tables = << >> /\ b.logits = << >> /\ b.sampled = << >> BY <2>1 DEF b
  <2>3. RowsPacked(b.rows, items, ts, 0) BY <2>2 DEF RowsPacked
  <2>4. TablesPacked(b.tables, items, ts, 0) BY <2>2 DEF TablesPacked
  <2>5. SampledPacked(b, items, 0) BY <2>2 DEF SampledPacked
  <2>6. RowEach(b, 0) /\ InPlace(b) BY <2>2 DEF RowEach, InPlace
  <2>7. PackedOwn(b, items, ts, 0) BY <2>3, <2>4, <2>5, <2>6 DEF PackedOwn
  <2> QED BY <2>7, <1>2 DEF b
<1>5. ASSUME NEW n \in 1..N, n - 1 \in G PROVE n \in G
  <2> DEFINE b == a[n - 1]
  <2>1. a[n] = Extended(b, items, n, ts) BY <1>3 DEF PacksUpto
  <2>2. PackedOwn(b, items, ts, n - 1) BY <1>5
  <2> HIDE DEF b
  <2>3. PackedOwn(Extended(b, items, n, ts), items, ts, n) BY <2>2, ExtendedOwn DEF N
  <2>4. PackedOwn(a[n], items, ts, n) BY <2>1, <2>3
  <2> QED BY <2>4, <1>2
<1> HIDE DEF G
<1>6. \A n \in 0..N : n \in G BY <1>2, <1>4, <1>5, Upto
<1>7. N \in G BY <1>2, <1>6
<1> QED BY <1>1, <1>7 DEF G, N

\* There are as many logits as items, if all are sampled.
LEMMA PackedSized ==
    ASSUME NEW items, Len(items) \in Nat, NEW ts, \A n \in 1..Len(items) : items[n].sample = TRUE
    PROVE  SizedTo(Packed(items, ts).logits, Len(items))
<1> DEFINE N == Len(items)
           a == CHOOSE f : Packs(f, items, ts)
           Sized(s, n) == (\E T : s \in Seq(T)) /\ Len(s) = n
           G == {n \in 0..N : Sized(a[n].logits, n)}
<1>1. Packed(items, ts) = a[N] BY DEF Packed, Packs
<1>2. N \in Nat OBVIOUS
<1>3. PacksUpto(a, items, ts, N) BY <1>2, PacksExist
<1>4. \A n \in 1..N : items[n].sample OBVIOUS
<1> HIDE DEF N, a
<1>5. 0 \in G
  <2>1. a[0].logits = << >> BY <1>3 DEF PacksUpto
  <2>2. << >> \in Seq({}) /\ Len(<< >>) = 0 OBVIOUS
  <2>3. Sized(a[0].logits, 0) BY <2>1, <2>2
  <2> QED BY <2>3, <1>2
<1>6. ASSUME NEW n \in 1..N, n - 1 \in G PROVE n \in G
  <2> DEFINE s == a[n - 1].logits
             e == Len(a[n - 1].rows \o RowsOf(items, n, ts))
  <2>1. a[n].logits = Append(s, e)
    <3>1. a[n] = Extended(a[n - 1], items, n, ts) BY <1>3 DEF PacksUpto
    <3>2. items[n].sample BY <1>4
    <3> DEFINE b == a[n - 1]
    <3> HIDE DEF b
    <3>3. Extended(b, items, n, ts).logits = Append(b.logits, Len(b.rows \o RowsOf(items, n, ts)))
      BY <3>2 DEF Extended
    <3> QED BY <3>1, <3>3 DEF b
  <2>2. PICK T : s \in Seq(T) /\ Len(s) = n - 1 BY <1>6
  <2> HIDE DEF s, e
  <2>3. s \in Seq(T \cup {e})
    <3>1. s = [k \in 1..Len(s) |-> s[k]] /\ Len(s) \in Nat /\ \A k \in 1..Len(s) : s[k] \in T BY <2>2
    <3>2. \A k \in 1..Len(s) : s[k] \in T \cup {e} BY <3>1
    <3> QED BY <3>1, <3>2
  <2>4. Append(s, e) \in Seq(T \cup {e}) /\ Len(Append(s, e)) = Len(s) + 1 BY <2>3
  <2>5. Sized(a[n].logits, n) BY <2>1, <2>2, <2>4, <1>2
  <2> QED BY <2>5, <1>2
<1> HIDE DEF G
<1>7. \A n \in 0..N : n \in G BY <1>2, <1>5, <1>6, Upto
<1>8. N \in G BY <1>2, <1>7
<1> DEFINE s == a[N].logits
<1>9. PICK T : s \in Seq(T) /\ Len(s) = N BY <1>8 DEF G
<1> HIDE DEF s
<1>10. DOMAIN s = 1..N BY <1>9
<1> QED BY <1>1, <1>9, <1>10 DEF SizedTo, s, N

-------------------------------------------------------------------------------
(* The size of a graph.                                                                *)

\* The first powers of two.
Powers(f, m) ==
    /\ f = [k \in 0..m |-> f[k]]
    /\ f[0] = 1 /\ \A k \in 1..m : f[k] = 2 * f[k - 1]
DoublesOf(f, m) == f = [k \in 0..m |-> IF k = 0 THEN 1 ELSE 2 * f[k - 1]]

LEMMA PowersExist ==
    ASSUME NEW N \in Nat
    PROVE  \E f : Powers(f, N) /\ Doubles(N) = {f[k] : k \in 0..N}
<1> DEFINE G == {m \in 0..N : \E f : Powers(f, m)}
           a == CHOOSE f : DoublesOf(f, N)
<1>1. 0 \in G
  <2> DEFINE f == [k \in 0..0 |-> 1]
  <2>1. Powers(f, 0) BY DEF Powers
  <2> QED BY <2>1
<1>2. ASSUME NEW m \in 1..N, m - 1 \in G PROVE m \in G
  <2>1. PICK f : Powers(f, m - 1) BY <1>2
  <2> DEFINE last == 2 * f[m - 1]
             g == [k \in 0..m |-> IF k = m THEN last ELSE f[k]]
  <2>2. g[0] = f[0] /\ g = [k \in 0..m |-> g[k]] OBVIOUS
  <2>3. ASSUME NEW k \in 1..m PROVE g[k] = 2 * g[k - 1]
    <3>1. k - 1 \in 0..m /\ k - 1 # m /\ k \in 0..m OBVIOUS
    <3>2. g[k - 1] = f[k - 1] BY <3>1
    <3>3. CASE k = m
      <4> HIDE DEF last
      <4>1. g[k] = last BY <3>1, <3>3
      <4> HIDE DEF g
      <4> QED BY <3>2, <3>3, <4>1 DEF last
    <3>4. CASE k # m
      <4>1. k \in 1..m - 1 BY <3>4
      <4>2. f[k] = 2 * f[k - 1] BY <4>1, <2>1 DEF Powers
      <4>3. g[k] = f[k] BY <3>1, <3>4
      <4> HIDE DEF g
      <4> QED BY <3>2, <4>2, <4>3
    <3> QED BY <3>3, <3>4
  <2> HIDE DEF g
  <2>4. Powers(g, m) BY <2>1, <2>2, <2>3 DEF Powers
  <2> QED BY <2>4
<1> HIDE DEF G
<1>3. \A n \in 0..N : n \in G BY <1>1, <1>2, Upto
<1>4. N \in G BY <1>3
<1>5. PICK f : Powers(f, N) BY <1>4 DEF G
<1>6. DoublesOf(f, N)
  <2> DEFINE F(k) == IF k = 0 THEN 1 ELSE 2 * f[k - 1]
  <2>1. \A k \in 0..N : f[k] = F(k)
    <3> TAKE k \in 0..N
    <3>1. CASE k = 0 BY <3>1, <1>5 DEF Powers
    <3>2. CASE k # 0
      <4>1. k \in 1..N BY <3>2
      <4> QED BY <3>2, <4>1, <1>5 DEF Powers
    <3> QED BY <3>1, <3>2
  <2>2. f = [k \in 0..N |-> f[k]] BY <1>5 DEF Powers
  <2> HIDE DEF F
  <2>3. f = [k \in 0..N |-> F(k)] BY <2>1, <2>2
  <2> QED BY <2>3 DEF DoublesOf, F
<1>7. DoublesOf(a, N) BY <1>6
<1>8. Doubles(N) = {a[k] : k \in 0..N} BY DEF Doubles, DoublesOf
<1> HIDE DEF a
<1>9. Powers(a, N)
  <2>1. 0 \in 0..N /\ \A k \in 1..N : k \in 0..N /\ k # 0 OBVIOUS
  <2>2. a[0] = 1 BY <1>7, <2>1 DEF DoublesOf
  <2>3. \A k \in 1..N : a[k] = 2 * a[k - 1] BY <1>7, <2>1 DEF DoublesOf
  <2>4. a = [k \in 0..N |-> a[k]] BY <1>7 DEF DoublesOf
  <2> QED BY <2>2, <2>3, <2>4 DEF Powers
<1> QED BY <1>8, <1>9

LEMMA PowersAre ==
    ASSUME NEW N \in Nat, NEW f, Powers(f, N)
    PROVE  \A k \in 0..N : f[k] \in Nat /\ f[k] > k
<1> DEFINE G == {k \in 0..N : f[k] \in Nat /\ f[k] > k}
<1>1. 0 \in G BY DEF Powers
<1>2. ASSUME NEW n \in 1..N, n - 1 \in G PROVE n \in G
  <2>1. f[n] = 2 * f[n - 1] /\ f[n - 1] \in Nat /\ f[n - 1] > n - 1 BY <1>2 DEF Powers
  <2>2. f[n] \in Nat /\ f[n] > n BY <2>1
  <2> QED BY <2>2
<1> HIDE DEF G
<1>3. \A n \in 0..N : n \in G BY <1>1, <1>2, Upto
<1> QED BY <1>3 DEF G

\* A graph of the size exists, and has room for the batch.
LEMMA BucketIs ==
    ASSUME NEW n \in Nat \ {0}
    PROVE  GraphBucket(n) \in Nat /\ GraphBucket(n) >= n /\ GraphBucket(n) \in Doubles(n)
<1>1. PICK f : Powers(f, n) /\ Doubles(n) = {f[k] : k \in 0..n} BY PowersExist
<1>2. \A k \in 0..n : f[k] \in Nat /\ f[k] > k BY <1>1, PowersAre
<1> DEFINE T == {k \in 0..n : f[k] >= n}
<1>3. n \in T BY <1>2
<1>4. PICK k \in T : \A m \in Nat : m < k => m \notin T
  <2>1. T \subseteq Nat /\ T # {} BY <1>3
  <2> HIDE DEF T
  <2> QED BY <2>1, LeastNumber
<1>5. k \in 0..n /\ f[k] \in Nat /\ f[k] >= n BY <1>2, <1>4
<1>6. f[k] < 2 * n
  <2>1. CASE k = 0
    <3>1. f[k] = 1 BY <2>1, <1>1 DEF Powers
    <3> QED BY <3>1
  <2>2. CASE k # 0
    <3>1. k \in 1..n /\ k - 1 \in 0..n /\ k - 1 < k /\ k - 1 \in Nat BY <2>2, <1>5
    <3>2. k - 1 \notin T BY <1>4, <3>1
    <3>3. f[k - 1] \in Nat /\ f[k - 1] < n BY <3>1, <3>2, <1>2
    <3>4. f[k] = 2 * f[k - 1] BY <1>1, <3>1 DEF Powers
    <3> QED BY <3>3, <3>4
  <2> QED BY <2>1, <2>2
<1>7. \E b \in Doubles(n) : b >= n /\ b < 2 * n BY <1>1, <1>5, <1>6
<1>8. \A b \in Doubles(n) : b \in Nat BY <1>1, <1>2
<1> DEFINE c == CHOOSE b \in Doubles(n) : b >= n /\ b < 2 * n
<1>9. c \in Doubles(n) /\ c >= n BY <1>7
<1>10. GraphBucket(n) = c BY DEF GraphBucket
<1> HIDE DEF c
<1> QED BY <1>8, <1>9, <1>10

\* A batch that is not padded has the size of a graph of the warm-up.
LEMMA Unpadded ==
    ASSUME NEW n \in Nat \ {0}, n <= MaxActive, GraphBucket(n) = n
    PROVE  n \in WarmSizes
<1>1. MaxActive \in Nat BY ForwardAssumption
<1>2. PICK f : Powers(f, n) /\ Doubles(n) = {f[k] : k \in 0..n} BY PowersExist
<1>3. PICK g : Powers(g, MaxActive) /\ Doubles(MaxActive) = {g[k] : k \in 0..MaxActive} BY <1>1, PowersExist
<1> DEFINE G == {k \in 0..n : f[k] = g[k]}
<1>4. 0 \in G BY <1>2, <1>3 DEF Powers
<1>5. ASSUME NEW k \in 1..n, k - 1 \in G PROVE k \in G
  <2>1. k \in 1..MaxActive BY <1>1
  <2>2. f[k] = 2 * f[k - 1] /\ g[k] = 2 * g[k - 1] BY <2>1, <1>2, <1>3 DEF Powers
  <2> QED BY <2>2, <1>5
<1> HIDE DEF G
<1>6. \A k \in 0..n : k \in G BY <1>4, <1>5, Upto
<1>7. \A k \in 0..n : f[k] = g[k] /\ k \in 0..MaxActive BY <1>1, <1>6 DEF G
<1>8. n \in Doubles(n) BY BucketIs
<1>9. n \in Doubles(MaxActive) BY <1>2, <1>3, <1>7, <1>8
<1> QED BY <1>9 DEF WarmSizes

\* The sizes of the warm-up; there is a greatest one.
LEMMA WarmSizesAre ==
    /\ WarmSizes \subseteq 1..MaxActive /\ Max(WarmSizes) \in WarmSizes
<1>1. MaxActive \in Nat /\ MaxActive >= 1 BY ForwardAssumption
<1>2. PICK f : Powers(f, MaxActive) /\ Doubles(MaxActive) = {f[k] : k \in 0..MaxActive} BY <1>1, PowersExist
<1>3. \A k \in 0..MaxActive : f[k] \in Nat /\ f[k] > k BY <1>1, <1>2, PowersAre
<1>4. f[0] = 1 /\ 0 \in 0..MaxActive BY <1>1, <1>2 DEF Powers
<1>5. 1 \in WarmSizes BY <1>1, <1>2, <1>4 DEF WarmSizes
<1>6. WarmSizes \subseteq 1..MaxActive BY <1>1, <1>2, <1>3 DEF WarmSizes
<1>7. WarmSizes \subseteq 0..MaxActive BY <1>6
<1> QED BY <1>1, <1>5, <1>6, <1>7, GreatestOf

-------------------------------------------------------------------------------
(* Batches.                                                                            *)

\* A batch feeds all of the items, and the k-th logits are those of the last position of the k-th
\* sampled request, by its own table.
Answers(batch, k, r, items, ts) ==
    /\ batch.logits[k] \in DOMAIN batch.rows
    /\ \E i \in 1..Len(items) :
          /\ items[i].sample /\ items[i].req = r /\ batch.rows[batch.logits[k]].pos = items[i].end - 1
          /\ batch.tables[batch.rows[batch.logits[k]].seq] = Filled(ts[r])
Answered(batch, sampled, items, ts) == \A k \in DOMAIN sampled : Answers(batch, k, sampled[k], items, ts)
BatchFeeds(batch, items, ts) ==
    /\ RowsOwn(batch.rows, ts)
    /\ \A i \in 1..Len(items) : \A p \in items[i].start..items[i].end - 1 : Fed(batch.rows, items[i].req, p)
    /\ \A k \in DOMAIN batch.rows : batch.rows[k].seq \in DOMAIN batch.tables /\ batch.rows[k].pos < Longest

LEMMA PackedBatch ==
    ASSUME NEW ts, NEW items, ItemsOwn(items, ts), NEW b, PackedOwn(b, items, ts, Len(items))
    PROVE  BatchFeeds(b, items, ts) /\ Answered(b, b.sampled, items, ts)
<1> DEFINE N == Len(items)
<1>1. N \in Nat /\ \A i \in 1..N : ItemOwn(items[i], ts) BY DEF ItemsOwn
<1>2. RowsPacked(b.rows, items, ts, N) /\ TablesPacked(b.tables, items, ts, N) /\ SampledPacked(b, items, N)
  BY DEF PackedOwn
<1> HIDE DEF N
<1>3. ASSUME NEW k \in DOMAIN b.rows
      PROVE  /\ b.rows[k].seq \in DOMAIN b.tables /\ b.rows[k].pos < Longest
             /\ \E r \in Sequents, p \in Nat : RowOwn(b.rows[k], ts, r, p)
  <2> DEFINE row == b.rows[k]
             x == items[row.seq]
  <2>1. row.seq \in 1..N /\ row.pos < x.end /\ RowOwn(row, ts, x.req, row.pos) BY <1>2 DEF RowsPacked
  <2>2. row \in RowSet BY <1>2 DEF RowsPacked
  <2>3. row.pos \in Nat BY <2>2 DEF RowSet
  <2>4. x.req \in Sequents /\ x.end \in Nat /\ x.end <= Longest /\ Longest \in Nat
    BY <1>1, <2>1, ForwardAssumption DEF ItemOwn
  <2>5. DOMAIN b.tables = 1..N BY <1>2, <1>1 DEF TablesPacked
  <2> HIDE DEF row, x
  <2> QED BY <2>1, <2>3, <2>4, <2>5 DEF row
<1>4. RowsOwn(b.rows, ts)
  <2>1. b.rows \in Seq(RowSet) BY <1>2 DEF RowsPacked
  <2>2. Len(b.rows) \in Nat /\ DOMAIN b.rows = 1..Len(b.rows) BY <2>1
  <2> QED BY <1>3, <2>2 DEF RowsOwn
<1>5. ASSUME NEW k \in DOMAIN b.sampled PROVE Answers(b, k, b.sampled[k], items, ts)
  <2> DEFINE row == b.rows[b.logits[k]]
             r == b.sampled[k]
  <2>1. b.logits[k] \in DOMAIN b.rows /\ LastRow(row, items, N, r) BY <1>2 DEF SampledPacked
  <2>2. PICK i \in 1..N : items[i].sample /\ items[i].req = r /\ row.seq = i /\ row.pos = items[i].end - 1
    BY <2>1 DEF LastRow
  <2>3. b.tables[row.seq] = Filled(ts[r]) BY <1>2, <2>2 DEF TablesPacked
  <2> QED BY <2>1, <2>2, <2>3 DEF Answers, N
<1>6. \A i \in 1..Len(items) : \A p \in items[i].start..items[i].end - 1 : Fed(b.rows, items[i].req, p)
  BY <1>2 DEF RowsPacked, N
<1> QED BY <1>3, <1>4, <1>5, <1>6 DEF BatchFeeds, Answered

\* A batch is what it consists of.
Batch(b) == b = [rows |-> b.rows, tables |-> b.tables, logits |-> b.logits, sampled |-> b.sampled]

LEMMA PackedRecord == ASSUME NEW items, Len(items) \in Nat, NEW ts PROVE Batch(Packed(items, ts))
<1> DEFINE N == Len(items)
           a == CHOOSE f : Packs(f, items, ts)
<1>1. Packed(items, ts) = a[N] BY DEF Packed, Packs
<1>2. PacksUpto(a, items, ts, N) BY PacksExist
<1> HIDE DEF a
<1>3. CASE N = 0 BY <1>1, <1>2, <1>3 DEF PacksUpto, Batch
<1>4. CASE N # 0
  <2>1. N \in 1..N BY <1>4
  <2> DEFINE p == a[N - 1]
  <2>2. a[N] = Extended(p, items, N, ts) BY <1>2, <2>1 DEF PacksUpto
  <2> HIDE DEF p, N
  <2>3. Batch(Extended(p, items, N, ts)) BY DEF Extended, Batch
  <2> QED BY <1>1, <2>2, <2>3
<1> QED BY <1>3, <1>4

\* The last decode repeated is what it was.
PaddedOwn(c, b, items, ts) ==
    /\ BatchFeeds(c, items, ts)
    /\ InPlace(b) => Answered(c, b.sampled, items, ts)
    /\ Batch(c) /\ c.logits \in Seq(Nat) /\ Len(b.sampled) <= Len(c.logits)
    /\ SizedTo(c.logits, Len(c.rows)) \/ Len(c.rows) \in WarmSizes
    /\ Len(b.sampled) = Len(items) => SizedTo(c.logits, Len(c.rows))

LEMMA PaddedBatch ==
    ASSUME NEW ts, NEW items, ItemsOwn(items, ts), Len(items) # 0, Len(items) <= MaxActive, NEW b, Batch(b),
           PackedOwn(b, items, ts, Len(items)), OneEach(items, Len(items))
    PROVE  PaddedOwn(PadDecode(b), b, items, ts)
<1> DEFINE n == Len(b.rows)
           bucket == GraphBucket(n)
           c == PadDecode(b)
           from(i) == Min({i, n})
<1>0. RowEach(b, Len(items)) BY DEF PackedOwn
<1>1. n \in Nat \ {0} /\ n = Len(items) BY <1>0 DEF RowEach, ItemsOwn
<1>2. bucket \in Nat /\ bucket >= n BY <1>1, BucketIs
<1>3. BatchFeeds(b, items, ts) /\ Answered(b, b.sampled, items, ts) BY PackedBatch
<1>4. /\ b.logits \in Seq(Nat) /\ Len(b.logits) = Len(b.sampled) /\ b.sampled \in Seq(Sequents)
      /\ Len(b.sampled) \in Nat /\ Len(b.sampled) <= n
  BY <1>1 DEF PackedOwn, SampledPacked
<1>5. CASE bucket = n
  <2>1. c = b BY <1>5 DEF PadDecode
  <2>2. n \in WarmSizes BY <1>1, <1>5, Unpadded
  <2>3. Len(b.sampled) = Len(items) => SizedTo(b.logits, n)
    <3>1. DOMAIN b.logits = 1..Len(b.logits) BY <1>4
    <3> QED BY <3>1, <1>1, <1>4 DEF SizedTo
  <2> HIDE DEF c, n
  <2>4. PaddedOwn(c, b, items, ts) BY <2>1, <2>2, <2>3, <1>3, <1>4 DEF PaddedOwn, n
  <2> QED BY <2>4 DEF c
<1>6. CASE bucket # n
  <2> DEFINE row(i) == [b.rows[from(i)] EXCEPT !.seq = i]
             rs == [i \in 1..bucket |-> row(i)]
             tabs == [i \in 1..bucket |-> b.tables[from(i)]]
             lgs == [i \in 1..bucket |-> i]
  <2>1. c = [b EXCEPT !.rows = rs, !.tables = tabs, !.logits = lgs]
    <3>1. c = [b EXCEPT !.rows = [i \in 1..bucket |-> [@[Min({i, n})] EXCEPT !.seq = i]],
                        !.tables = [i \in 1..bucket |-> @[Min({i, n})]],
                        !.logits = [i \in 1..bucket |-> i]]
      BY <1>6 DEF PadDecode
    <3> QED BY <3>1
  <2> HIDE DEF rs, tabs, lgs, c
  <2>2. c.rows = rs /\ c.tables = tabs /\ c.logits = lgs /\ Batch(c)
    <3> DEFINE w == b.rows
               x == b.tables
               y == b.logits
               z == b.sampled
    <3>1. b = [rows |-> w, tables |-> x, logits |-> y, sampled |-> z] BY DEF Batch
    <3> HIDE DEF w, x, y, z
    <3>2. c = [rows |-> rs, tables |-> tabs, logits |-> lgs, sampled |-> z] BY <2>1, <3>1
    <3> QED BY <3>2 DEF Batch
  <2>3. \A i \in 1..bucket : from(i) \in 1..n /\ (i <= n => from(i) = i)
    <3> TAKE i \in 1..bucket
    <3>1. i \in Nat /\ i >= 1 BY <1>2
    <3>2. from(i) = IF i <= n THEN i ELSE n BY <1>1, <3>1, MinIs
    <3> QED BY <1>1, <3>1, <3>2
  <2> HIDE DEF from
  <2>4. RowsPacked(b.rows, items, ts, n) BY <1>1 DEF PackedOwn
  <2>5. \A i \in 1..bucket :
           /\ rs[i].token = b.rows[from(i)].token /\ rs[i].pos = b.rows[from(i)].pos
           /\ rs[i].slot = b.rows[from(i)].slot /\ rs[i].seq = i
    <3> TAKE i \in 1..bucket
    <3> DEFINE o == b.rows[from(i)]
    <3>1. o \in RowSet
      <4>1. b.rows \in Seq(RowSet) BY <2>4 DEF RowsPacked
      <4>2. from(i) \in 1..n BY <2>3
      <4> QED BY <4>1, <4>2
    <3>2. rs[i] = [o EXCEPT !.seq = i] BY DEF rs
    <3> HIDE DEF o
    <3> QED BY <3>1, <3>2 DEF RowSet, o
  <2>6. Len(rs) = bucket /\ DOMAIN rs = 1..bucket /\ Len(lgs) = bucket /\ DOMAIN tabs = 1..bucket
    BY <1>2 DEF rs, lgs, tabs
  <2>7. \A i \in 1..bucket : from(i) \in DOMAIN b.rows BY <2>3, <1>3 DEF BatchFeeds, RowsOwn
  <2>8. RowsOwn(rs, ts)
    <3>1. \A i \in 1..bucket : \E r \in Sequents, p \in Nat : RowOwn(rs[i], ts, r, p)
      <4> TAKE i \in 1..bucket
      <4>1. PICK r \in Sequents, p \in Nat : RowOwn(b.rows[from(i)], ts, r, p)
        BY <2>7, <1>3 DEF BatchFeeds, RowsOwn
      <4> QED BY <4>1, <2>5 DEF RowOwn
    <3> QED BY <3>1, <2>6, <1>2 DEF RowsOwn
  <2>9. \A k \in 1..n : k \in 1..bucket /\ from(k) = k
    <3>1. \A k \in 1..n : k \in 1..bucket /\ k <= n BY <1>1, <1>2
    <3> QED BY <3>1, <2>3
  <2>10. ASSUME NEW r, NEW p, Fed(b.rows, r, p) PROVE Fed(rs, r, p)
    <3>1. PICK k \in DOMAIN b.rows : b.rows[k].token = <<r, p>> BY <2>10 DEF Fed
    <3>2. k \in 1..n BY <1>3 DEF BatchFeeds, RowsOwn
    <3>3. k \in DOMAIN rs /\ rs[k].token = <<r, p>> BY <3>1, <3>2, <2>5, <2>6, <2>9
    <3> QED BY <3>3 DEF Fed
  <2>11. ASSUME InPlace(b), NEW k \in DOMAIN b.sampled PROVE Answers(c, k, b.sampled[k], items, ts)
    <3>1. k \in 1..n BY <1>1, <1>4
    <3>2. k \in 1..bucket /\ from(k) = k /\ lgs[k] = k BY <3>1, <2>9 DEF lgs
    <3>3. b.logits[k] = k /\ b.rows[k].seq = k BY <3>1, <2>11, <1>0, <1>1 DEF InPlace, RowEach
    <3>4. PICK i \in 1..Len(items) :
             /\ items[i].sample /\ items[i].req = b.sampled[k] /\ b.rows[k].pos = items[i].end - 1
             /\ b.tables[k] = Filled(ts[b.sampled[k]])
      BY <1>3, <2>11, <3>3 DEF Answered, Answers
    <3>5. rs[k].pos = b.rows[k].pos /\ rs[k].seq = k /\ tabs[k] = b.tables[k] BY <3>2, <2>5 DEF tabs
    <3> QED BY <3>2, <3>4, <3>5, <2>2, <2>6 DEF Answers
  <2>12. \A k \in DOMAIN rs : rs[k].seq \in DOMAIN tabs /\ rs[k].pos < Longest
    BY <2>5, <2>6, <2>7, <1>3 DEF BatchFeeds
  <2>13. \A i \in 1..Len(items) : \A p \in items[i].start..items[i].end - 1 : Fed(rs, items[i].req, p)
    BY <2>10, <1>3 DEF BatchFeeds
  <2>14. BatchFeeds(c, items, ts) /\ (InPlace(b) => Answered(c, b.sampled, items, ts))
    BY <2>2, <2>8, <2>11, <2>12, <2>13 DEF BatchFeeds, Answered
  <2>15. lgs \in Seq(Nat) /\ SizedTo(lgs, bucket)
    <3>1. lgs \in Seq(Nat) BY <1>2 DEF lgs
    <3> QED BY <3>1, <2>6, <1>2 DEF SizedTo, lgs
  <2>16. Len(b.sampled) <= bucket BY <1>1, <1>2, <1>4
  <2>17. /\ Batch(c) /\ c.logits \in Seq(Nat) /\ Len(b.sampled) <= Len(c.logits)
         /\ SizedTo(c.logits, Len(c.rows))
    BY <2>2, <2>6, <2>15, <2>16
  <2> HIDE DEF bucket, n
  <2>18. PaddedOwn(c, b, items, ts) BY <2>14, <2>17 DEF PaddedOwn
  <2> QED BY <2>18 DEF c
<1> QED BY <1>5, <1>6

-------------------------------------------------------------------------------
(* Growth.                                                                             *)

\* A table covers the first n positions; the tables us go on where ts ended.
CoversTo(t, n) == \A p \in 0..n - 1 : Covers(t, p)
Longer(ts, us) == \A r \in Sequents : \A j \in DOMAIN ts[r] : j \in DOMAIN us[r] /\ us[r][j] = ts[r][j]

\* A position that was covered keeps its block.
LEMMA LongerKeeps ==
    ASSUME NEW ts, NEW us, Longer(ts, us), NEW r \in Sequents, NEW p, Covers(ts[r], p)
    PROVE  Covers(us[r], p) /\ BlockOf(us[r], p) = BlockOf(ts[r], p)
BY DEF Longer, Covers, BlockOf

\* A table of a number of blocks that suffices covers the positions.
LEMMA LongEnough ==
    ASSUME NEW t, t \in Seq(Pool), NEW n \in Nat, Len(t) >= BlocksOfLength(n)
    PROVE  CoversTo(t, n)
<1>1. BlocksOfLength(n) \in Nat /\ \A p \in 0..n - 1 : p \div BlockTokens + 1 \in 1..BlocksOfLength(n)
  BY BlocksCover
<1> DEFINE b == BlocksOfLength(n)
           m == Len(t)
<1>2. m \in Nat /\ DOMAIN t = 1..m OBVIOUS
<1> HIDE DEF b, m
<1>3. \A i \in 1..b : i \in 1..m BY <1>1, <1>2 DEF b, m
<1> QED BY <1>1, <1>2, <1>3 DEF CoversTo, Covers, b

\* The blocks taken from the end of the free list.
LEMMA TakenAre ==
    ASSUME NEW f \in Seq(Pool), NoneTwice(f), NEW n \in 0..Len(f)
    PROVE  Topped(Pool, f, n, [j \in 1..n |-> f[Len(f) + 1 - j]], SubSeq(f, 1, Len(f) - n))
<1> DEFINE N == Len(f)
           g == SubSeq(f, N - n + 1, N)
           t == [j \in 1..n |-> f[N + 1 - j]]
           s == Reverse(SubSeq(f, Len(f) - n + 1, Len(f)))
<1>1. N \in Nat /\ n \in 0..N OBVIOUS
<1>2. g = [i \in 1..n |-> f[N - n + i]] BY <1>1
<1> HIDE DEF g
<1>3. Len(g) = n BY <1>1, <1>2
<1>4. s = [i \in 1..n |-> g[(n - i) + 1]] BY <1>3 DEF Reverse, g
<1> HIDE DEF s
<1>5. \A i \in 1..n : s[i] = t[i]
  <2> TAKE i \in 1..n
  <2> DEFINE k == (n - i) + 1
  <2>1. k \in 1..n /\ N - n + k = N + 1 - i BY <1>1
  <2>2. s[i] = g[k] BY <1>4
  <2> HIDE DEF k
  <2>3. g[k] = f[N - n + k] BY <1>2, <2>1
  <2> HIDE DEF N
  <2> QED BY <2>1, <2>2, <2>3
<1>6. s = [i \in 1..n |-> s[i]] BY <1>4
<1> HIDE DEF t
<1>7. t = [i \in 1..n |-> t[i]] BY DEF t
<1>8. s = t BY <1>5, <1>6, <1>7
<1>9. Topped(Pool, f, n, s, SubSeq(f, 1, Len(f) - n)) BY TopOf DEF s
<1> QED BY <1>8, <1>9 DEF t

\* What grows: whether it fits, what is free, and the tables.
Growing(acc) == acc = [fits |-> acc.fits, free |-> acc.free, tables |-> acc.tables]

LEMMA GrownOwn ==
    ASSUME NEW acc, Growing(acc), NEW x, x.req \in Sequents, x.end \in Nat
    PROVE  /\ Growing(Grown(acc, x))
           /\ Grown(acc, x).fits => acc.fits
           /\ Grown(acc, x).fits /\ BlocksOwn(acc.free, acc.tables)
                 => /\ BlocksOwn(Grown(acc, x).free, Grown(acc, x).tables)
                    /\ Longer(acc.tables, Grown(acc, x).tables)
                    /\ CoversTo(Grown(acc, x).tables[x.req], x.end)
<1> DEFINE r == x.req
           e == x.end
           f == acc.free
           ts == acc.tables
           t == ts[r]
           n == BlocksOfLength(e) - Len(t)
           m == Len(f)
           out == Grown(acc, x)
           new == [j \in 1..n |-> f[m + 1 - j]]
           keep == SubSeq(f, 1, m - n)
           us == [ts EXCEPT ![r] = @ \o new]
<1>1. CASE n <= 0
  <2>1. out = acc BY <1>1 DEF Grown
  <2>2. ASSUME BlocksOwn(f, ts) PROVE CoversTo(ts[r], e)
    <3>1. t \in Seq(Pool) BY <2>2 DEF BlocksOwn
    <3>2. BlocksOfLength(e) \in Nat BY BlocksCover
    <3>3. Len(t) \in Nat BY <3>1
    <3>4. Len(t) >= BlocksOfLength(e) BY <1>1, <3>2, <3>3
    <3> QED BY <3>1, <3>4, LongEnough
  <2>3. Longer(ts, ts) BY DEF Longer
  <2> HIDE DEF out
  <2> QED BY <2>1, <2>2, <2>3 DEF out
<1>2. CASE ~(n <= 0) /\ n > m
  <2>1. out = [acc EXCEPT !.fits = FALSE] BY <1>2 DEF Grown
  <2>2. out = [fits |-> FALSE, free |-> acc.free, tables |-> acc.tables]
    <3> DEFINE a == acc.fits
               b == acc.free
               c == acc.tables
    <3>1. acc = [fits |-> a, free |-> b, tables |-> c] BY DEF Growing
    <3> HIDE DEF a, b, c, out, n, m, f, ts, t
    <3> QED BY <3>1, <2>1
  <2> HIDE DEF out
  <2>3. Growing(out) /\ out.fits = FALSE BY <2>2 DEF Growing
  <2> QED BY <2>3 DEF out
<1>3. CASE ~(n <= 0) /\ ~(n > m)
  <2>1. out = [acc EXCEPT !.free = SubSeq(@, 1, m - n), !.tables[r] = @ \o new]
    BY <1>3 DEF Grown
  <2>2. out = [fits |-> acc.fits, free |-> keep, tables |-> us]
    <3> DEFINE a == acc.fits
               b == acc.free
               c == acc.tables
    <3>1. acc = [fits |-> a, free |-> b, tables |-> c] BY DEF Growing
    <3>2. out = [acc EXCEPT !.free = SubSeq(b, 1, m - n), !.tables = [c EXCEPT ![r] = @ \o new]] BY <2>1
    <3>3. keep = SubSeq(b, 1, m - n) /\ us = [c EXCEPT ![r] = @ \o new] OBVIOUS
    <3> HIDE DEF keep, us
    <3>4. out = [acc EXCEPT !.free = keep, !.tables = us] BY <3>2, <3>3
    <3> HIDE DEF a, b, c, out, n, m, f, ts, t
    <3>5. out = [fits |-> a, free |-> keep, tables |-> us] BY <3>1, <3>4
    <3> QED BY <3>5 DEF a
  <2> HIDE DEF out, keep, us
  <2>3. Growing(out) /\ out.fits = acc.fits /\ out.free = keep /\ out.tables = us BY <2>2 DEF Growing
  <2>4. ASSUME BlocksOwn(f, ts) PROVE BlocksOwn(keep, us) /\ Longer(ts, us) /\ CoversTo(us[r], e)
    <3> HIDE DEF f, ts, r, e
    <3>1. f \in Seq(Pool) /\ NoneTwice(f) /\ t \in Seq(Pool) /\ r \in Sequents /\ DOMAIN ts = Sequents
      BY <2>4 DEF BlocksOwn, r
    <3>2. BlocksOfLength(e) \in Nat BY BlocksCover DEF e
    <3>3. Len(t) \in Nat /\ m \in Nat /\ n \in 0..m /\ Len(t) + n = BlocksOfLength(e)
      <4>1. Len(t) \in Nat /\ m \in Nat BY <3>1
      <4> DEFINE l == Len(t)
                 b == BlocksOfLength(e)
      <4> HIDE DEF l, b, m
      <4> QED BY <1>3, <3>2, <4>1 DEF l, b
    <3>4. Topped(Pool, f, n, new, keep) BY <3>1, <3>3, TakenAre DEF keep
    <3> HIDE DEF n, m, new
    <3>5. /\ new \in Seq(Pool) /\ Len(new) = n /\ NoneTwice(new) /\ keep \in Seq(Pool) /\ NoneTwice(keep)
          /\ \A j \in DOMAIN new, k \in DOMAIN keep : new[j] # keep[k]
          /\ \A j \in DOMAIN new : \E k \in DOMAIN f : new[j] = f[k]
          /\ \A k \in DOMAIN keep : k \in DOMAIN f /\ keep[k] = f[k]
      BY <3>4 DEF Topped
    <3> DEFINE u == t \o new
    <3>6. NoneTwice(t) /\ \A i \in DOMAIN t, k \in DOMAIN f : t[i] # f[k]
      BY <2>4, <3>1 DEF BlocksOwn, NoneTwice
    <3>7. \A i \in DOMAIN t, j \in DOMAIN new : t[i] # new[j] BY <3>5, <3>6
    <3>8. /\ u \in Seq(Pool) /\ NoneTwice(u)
          /\ \A k \in DOMAIN u : (k \in DOMAIN t /\ u[k] = t[k]) \/ \E j \in DOMAIN new : u[k] = new[j]
      <4> HIDE DEF t
      <4>1. t \in Seq(Pool) /\ new \in Seq(Pool) /\ NoneTwice(t) /\ NoneTwice(new) BY <3>1, <3>5, <3>6
      <4> QED BY <4>1, <3>7, JoinApart
    <3>9. /\ Len(u) = BlocksOfLength(e) /\ \A k \in DOMAIN t : k \in DOMAIN u /\ u[k] = t[k]
      <4>1. Len(u) = Len(t) + n /\ \A i \in 1..Len(t) + n : u[i] = IF i <= Len(t) THEN t[i] ELSE new[i - Len(t)]
        <5> HIDE DEF t
        <5> QED BY <3>1, <3>5, ConcatProperties
      <4>2. DOMAIN t = 1..Len(t) /\ DOMAIN u = 1..Len(u)
        <5> HIDE DEF t, u
        <5> QED BY <3>1, <3>8
      <4> HIDE DEF u, t
      <4> QED BY <4>1, <4>2, <3>3
    <3>10. us[r] = u /\ DOMAIN us = Sequents /\ \A q \in Sequents \ {r} : us[q] = ts[q]
      <4> HIDE DEF u
      <4>1. us = [ts EXCEPT ![r] = u] BY DEF us, u
      <4> QED BY <4>1, <3>1
    <3> HIDE DEF u
    <3>11. CoversTo(us[r], e)
      <4>1. e \in Nat BY DEF e
      <4> QED BY <4>1, <3>2, <3>8, <3>9, <3>10, LongEnough
    <3>12. Longer(ts, us) BY <3>9, <3>10 DEF Longer
    <3>13. BlocksOwn(keep, us)
      <4>1. \A q \in Sequents : us[q] \in Seq(Pool) BY <3>8, <3>10, <2>4 DEF BlocksOwn
      <4>2. ASSUME NEW q \in Sequents, NEW j \in DOMAIN us[q], NEW k \in DOMAIN keep, us[q][j] = keep[k] PROVE FALSE
        <5>1. CASE q = r BY <5>1, <4>2, <3>5, <3>6, <3>8, <3>10
        <5>2. CASE q # r BY <5>2, <4>2, <3>5, <3>10, <2>4 DEF BlocksOwn
        <5> QED BY <5>1, <5>2
      <4>3. ASSUME NEW q \in Sequents \ {r}, NEW i \in DOMAIN u, NEW j \in DOMAIN ts[q], u[i] = ts[q][j] PROVE FALSE
        <5>1. CASE i \in DOMAIN t /\ u[i] = t[i] BY <5>1, <4>3, <3>1, <2>4 DEF BlocksOwn
        <5>2. CASE \E l \in DOMAIN new : u[i] = new[l]
          <6>1. PICK k \in DOMAIN f : u[i] = f[k] BY <5>2, <3>5
          <6>2. ts[q][j] # f[k] BY <2>4 DEF BlocksOwn
          <6> QED BY <6>1, <6>2, <4>3
        <5> QED BY <5>1, <5>2, <3>8
      <4>4. ASSUME NEW o \in Sequents, NEW q \in Sequents, NEW i \in DOMAIN us[o], NEW j \in DOMAIN us[q],
                   us[o][i] = us[q][j]
            PROVE  o = q /\ i = j
        <5>1. CASE o = r /\ q = r BY <5>1, <4>4, <3>8, <3>10 DEF NoneTwice
        <5>2. CASE o = r /\ q # r BY <5>2, <4>3, <4>4, <3>10
        <5>3. CASE o # r /\ q = r BY <5>3, <4>3, <4>4, <3>10
        <5>4. CASE o # r /\ q # r BY <5>4, <4>4, <3>10, <2>4 DEF BlocksOwn
        <5> QED BY <5>1, <5>2, <5>3, <5>4
      <4> QED BY <4>1, <4>2, <4>4, <3>5, <3>10 DEF BlocksOwn
    <3> QED BY <3>11, <3>12, <3>13
  <2> QED BY <2>3, <2>4 DEF out
<1> QED BY <1>1, <1>2, <1>3

\* What has grown for the first items.
Grows(f, items) ==
    f = [n \in 0..Len(items) |-> IF n = 0 THEN [fits |-> TRUE, free |-> freeList, tables |-> tables]
                                 ELSE Grown(f[n - 1], items[n])]
GrowsUpto(f, items, m) ==
    /\ f = [n \in 0..m |-> f[n]]
    /\ f[0] = [fits |-> TRUE, free |-> freeList, tables |-> tables]
    /\ \A n \in 1..m : f[n] = Grown(f[n - 1], items[n])

LEMMA GrowthExists ==
    ASSUME NEW items, Len(items) \in Nat
    PROVE  GrowsUpto(CHOOSE f : Grows(f, items), items, Len(items))
<1> DEFINE N == Len(items)
           init == [fits |-> TRUE, free |-> freeList, tables |-> tables]
           G == {m \in 0..N : \E f : GrowsUpto(f, items, m)}
<1> HIDE DEF N, init
<1>1. 0 \in G
  <2> DEFINE f == [k \in 0..0 |-> init]
  <2>1. GrowsUpto(f, items, 0) BY DEF GrowsUpto, init
  <2> HIDE DEF f
  <2> QED BY <2>1 DEF N
<1>2. ASSUME NEW m \in 1..N, m - 1 \in G PROVE m \in G
  <2>1. PICK f : GrowsUpto(f, items, m - 1) BY <1>2
  <2> DEFINE last == Grown(f[m - 1], items[m])
             g == [k \in 0..m |-> IF k = m THEN last ELSE f[k]]
  <2>2. m \in Nat \ {0} /\ N \in Nat BY DEF N
  <2>3. g[0] = f[0] /\ g = [n \in 0..m |-> g[n]] BY <2>2
  <2>4. ASSUME NEW n \in 1..m PROVE g[n] = Grown(g[n - 1], items[n])
    <3>1. n - 1 \in 0..m /\ n - 1 # m /\ n \in 0..m BY <2>2
    <3>2. g[n - 1] = f[n - 1] BY <3>1
    <3>3. CASE n = m
      <4> HIDE DEF last
      <4>1. g[n] = last BY <3>1, <3>3
      <4> HIDE DEF g
      <4> QED BY <3>2, <3>3, <4>1 DEF last
    <3>4. CASE n # m
      <4>1. n \in 1..m - 1 BY <3>4, <2>2
      <4>2. f[n] = Grown(f[n - 1], items[n]) BY <4>1, <2>1 DEF GrowsUpto
      <4>3. g[n] = f[n] BY <3>1, <3>4
      <4> HIDE DEF g
      <4> QED BY <3>2, <4>2, <4>3
    <3> QED BY <3>3, <3>4
  <2> HIDE DEF g
  <2>5. GrowsUpto(g, items, m) BY <2>1, <2>3, <2>4 DEF GrowsUpto
  <2> QED BY <2>5
<1>3. N \in Nat BY DEF N
<1> HIDE DEF G
<1>4. \A n \in 0..N : n \in G BY <1>1, <1>2, <1>3, Upto
<1>5. N \in G BY <1>3, <1>4
<1>6. PICK f : GrowsUpto(f, items, N) BY <1>5 DEF G
<1>7. Grows(f, items)
  <2> DEFINE F(n) == IF n = 0 THEN init ELSE Grown(f[n - 1], items[n])
  <2>1. \A n \in 0..N : f[n] = F(n)
    <3> TAKE n \in 0..N
    <3>1. CASE n = 0 BY <3>1, <1>6 DEF GrowsUpto, init
    <3>2. CASE n # 0
      <4>1. n \in 1..N BY <3>2, <1>3
      <4> QED BY <3>2, <4>1, <1>6 DEF GrowsUpto
    <3> QED BY <3>1, <3>2
  <2>2. f = [n \in 0..N |-> f[n]] BY <1>6 DEF GrowsUpto
  <2> HIDE DEF F
  <2>3. f = [n \in 0..N |-> F(n)] BY <2>1, <2>2
  <2> QED BY <2>3 DEF Grows, N, init, F
<1> DEFINE a == CHOOSE g : Grows(g, items)
<1>8. Grows(a, items) BY <1>7
<1> HIDE DEF a
<1>9. GrowsUpto(a, items, N)
  <2>1. 0 \in 0..N /\ \A n \in 1..N : n \in 0..N /\ n # 0 BY <1>3
  <2>2. a[0] = init BY <1>8, <2>1 DEF Grows, N, init
  <2>3. \A n \in 1..N : a[n] = Grown(a[n - 1], items[n]) BY <1>8, <2>1 DEF Grows, N
  <2>4. a = [n \in 0..N |-> a[n]] BY <1>8 DEF Grows, N
  <2> QED BY <2>2, <2>3, <2>4 DEF GrowsUpto, init
<1> QED BY <1>9 DEF a, N

\* If all fit, the blocks are still each one's own, and every item is covered.
GrowthOwn(acc, items, n) ==
    /\ Growing(acc)
    /\ acc.fits => /\ BlocksOwn(acc.free, acc.tables) /\ Longer(tables, acc.tables)
                   /\ \A i \in 1..n : CoversTo(acc.tables[items[i].req], items[i].end)

LEMMA GrowthIs ==
    ASSUME BlocksOwn(freeList, tables), NEW items, Len(items) \in Nat,
           \A i \in 1..Len(items) : items[i].req \in Sequents /\ items[i].end \in Nat
    PROVE  GrowthOwn(Growth(items), items, Len(items))
<1> DEFINE N == Len(items)
           a == CHOOSE f : Grows(f, items)
           G == {n \in 0..N : GrowthOwn(a[n], items, n)}
<1>1. Growth(items) = a[N] BY DEF Growth, Grows
<1>2. GrowsUpto(a, items, N) BY GrowthExists
<1>3. N \in Nat /\ \A i \in 1..N : items[i].req \in Sequents /\ items[i].end \in Nat OBVIOUS
<1> HIDE DEF a, N
<1>4. 0 \in G
  <2>1. a[0] = [fits |-> TRUE, free |-> freeList, tables |-> tables] BY <1>2 DEF GrowsUpto
  <2> DEFINE b == a[0]
  <2> HIDE DEF b
  <2>2. b.fits = TRUE /\ b.free = freeList /\ b.tables = tables BY <2>1 DEF b
  <2>3. Growing(b) BY <2>1, <2>2 DEF Growing, b
  <2>4. Longer(tables, tables) BY DEF Longer
  <2>5. \A i \in 1..0 : FALSE OBVIOUS
  <2>6. GrowthOwn(b, items, 0) BY <2>2, <2>3, <2>4, <2>5 DEF GrowthOwn
  <2> QED BY <2>6, <1>3 DEF b
<1>5. ASSUME NEW n \in 1..N, n - 1 \in G PROVE n \in G
  <2> DEFINE b == a[n - 1]
             x == items[n]
             c == Grown(b, x)
  <2>1. a[n] = c BY <1>2 DEF GrowsUpto
  <2>2. GrowthOwn(b, items, n - 1) BY <1>5
  <2>3. x.req \in Sequents /\ x.end \in Nat BY <1>3
  <2> HIDE DEF b, x
  <2>4. /\ Growing(c)
        /\ c.fits => b.fits
        /\ c.fits /\ BlocksOwn(b.free, b.tables)
              => BlocksOwn(c.free, c.tables) /\ Longer(b.tables, c.tables) /\ CoversTo(c.tables[x.req], x.end)
    BY <2>2, <2>3, GrownOwn DEF GrowthOwn
  <2> HIDE DEF c
  <2>5. ASSUME c.fits
        PROVE  /\ BlocksOwn(c.free, c.tables) /\ Longer(tables, c.tables)
               /\ \A i \in 1..n : CoversTo(c.tables[items[i].req], items[i].end)
    <3>1. /\ BlocksOwn(b.free, b.tables) /\ Longer(tables, b.tables)
          /\ \A i \in 1..n - 1 : CoversTo(b.tables[items[i].req], items[i].end)
      BY <2>2, <2>4, <2>5 DEF GrowthOwn
    <3>2. BlocksOwn(c.free, c.tables) /\ Longer(b.tables, c.tables) /\ CoversTo(c.tables[x.req], x.end)
      BY <2>4, <2>5, <3>1
    <3>3. Longer(tables, c.tables) BY <3>1, <3>2 DEF Longer
    <3>4. ASSUME NEW i \in 1..n PROVE CoversTo(c.tables[items[i].req], items[i].end)
      <4>1. CASE i = n BY <4>1, <3>2 DEF x
      <4>2. CASE i # n
        <5>1. i \in 1..n - 1 /\ i \in 1..N BY <4>2, <1>3
        <5>2. CoversTo(b.tables[items[i].req], items[i].end) /\ items[i].req \in Sequents BY <5>1, <3>1, <1>3
        <5> DEFINE q == items[i].req
                   e == items[i].end
        <5> HIDE DEF q, e
        <5>3. \A p : Covers(b.tables[q], p) => Covers(c.tables[q], p)
          <6>1. q \in Sequents BY <5>2 DEF q
          <6> QED BY <6>1, <3>2, LongerKeeps
        <5>4. CoversTo(c.tables[q], e) BY <5>2, <5>3 DEF CoversTo, q, e
        <5> QED BY <5>4 DEF q, e
      <4> QED BY <4>1, <4>2
    <3> QED BY <3>2, <3>3, <3>4
  <2>6. GrowthOwn(c, items, n) BY <2>4, <2>5 DEF GrowthOwn
  <2>7. GrowthOwn(a[n], items, n) BY <2>1, <2>6
  <2> QED BY <2>7, <1>3
<1> HIDE DEF G
<1>6. \A n \in 0..N : n \in G BY <1>3, <1>4, <1>5, Upto
<1>7. N \in G BY <1>3, <1>6
<1> QED BY <1>1, <1>7 DEF G, N

-------------------------------------------------------------------------------
(* The plan.                                                                           *)

\* There are no more active requests than the limit allows.
LEMMA ActiveAre ==
    ASSUME SequentTypes
    PROVE  IsFiniteSet(ToSet(sequents)) /\ Cardinality(ToSet(sequents)) <= MaxActive
<1> DEFINE N == Len(sequents)
           S == ToSet(sequents)
<1>1. N \in Nat /\ N <= MaxActive /\ MaxActive \in Nat /\ DOMAIN sequents = 1..N
      /\ sequents = [i \in 1..N |-> sequents[i]]
  BY ForwardAssumption DEF SequentTypes
<1>2. S = {sequents[i] : i \in 1..N} BY <1>1 DEF ToSet
<1> HIDE DEF S, N
<1>3. sequents \in Surjection(1..N, S)
  <2>1. sequents \in [1..N -> S] BY <1>1, <1>2
  <2>2. \A t \in S : \E s \in 1..N : sequents[s] = t BY <1>2
  <2> QED BY <2>1, <2>2 DEF Surjection
<1>4. IsFiniteSet(1..N) /\ Cardinality(1..N) = N BY <1>1, FS_Interval
<1>5. IsFiniteSet(S) /\ Cardinality(S) <= N BY <1>3, <1>4, FS_Surjection
<1>6. Cardinality(S) \in Nat BY <1>5, FS_CardinalityType
<1>7. Cardinality(S) <= MaxActive BY <1>1, <1>5, <1>6
<1> QED BY <1>5, <1>7 DEF S

\* The place of an active request is its own.
LEMMA PlaceIs ==
    ASSUME SequentTypes, NEW r \in ToSet(sequents)
    PROVE  Place(r) \in Nat /\ Place(r) \in DOMAIN sequents /\ sequents[Place(r)] = r
<1>1. \E i \in DOMAIN sequents : sequents[i] = r BY DEF ToSet
<1>2. DOMAIN sequents \subseteq Nat BY DEF SequentTypes
<1> QED BY <1>1, <1>2 DEF Place

\* No request is twice in an order, and they are not more than the limit.
OrderOwn(order, eligible) ==
    /\ Len(order) \in Nat /\ Len(order) <= MaxActive /\ DOMAIN order = 1..Len(order)
    /\ \A i \in 1..Len(order) : order[i] \in eligible
    /\ \A i, j \in 1..Len(order) : order[i] = order[j] => i = j

LEMMA OrderIs ==
    ASSUME SequentTypes, NEW eligible, eligible \subseteq ToSet(sequents), NEW order \in Orders(eligible)
    PROVE  OrderOwn(order, eligible)
<1> DEFINE N == Cardinality(eligible)
<1>1. IsFiniteSet(ToSet(sequents)) /\ Cardinality(ToSet(sequents)) <= MaxActive BY ActiveAre
<1>2. IsFiniteSet(eligible) /\ N <= Cardinality(ToSet(sequents)) BY <1>1, FS_Subset
<1>3. N \in Nat /\ Cardinality(ToSet(sequents)) \in Nat BY <1>1, <1>2, FS_CardinalityType
<1>4. MaxActive \in Nat BY ForwardAssumption
<1>5. N <= MaxActive BY <1>1, <1>2, <1>3, <1>4
<1>6. order \in [1..N -> eligible] /\ \A i, j \in DOMAIN order : i < j => Ahead(order[i], order[j])
  BY DEF Orders
<1> HIDE DEF N
<1>7. Len(order) = N /\ DOMAIN order = 1..N BY <1>3, <1>6
<1>8. \A i \in 1..N : ~Ahead(order[i], order[i])
  <2> TAKE i \in 1..N
  <2> DEFINE p == Place(order[i])
  <2>1. p \in Nat BY <1>6, PlaceIs
  <2> HIDE DEF p
  <2>2. ~(p < p) BY <2>1
  <2> QED BY <2>2 DEF Ahead, p
<1>9. ASSUME NEW i \in 1..N, NEW j \in 1..N, order[i] = order[j] PROVE i = j
  <2>1. ~(i < j) BY <1>6, <1>7, <1>8, <1>9
  <2>2. ~(j < i) BY <1>6, <1>7, <1>8, <1>9
  <2> QED BY <2>1, <2>2, <1>3
<1> QED BY <1>3, <1>5, <1>6, <1>7, <1>9 DEF OrderOwn

LEMMA LeastOfThree ==
    ASSUME NEW a \in Nat, NEW b \in Nat, NEW c \in Nat
    PROVE  /\ Min({a, b, c}) \in {a, b, c}
           /\ Min({a, b, c}) <= a /\ Min({a, b, c}) <= b /\ Min({a, b, c}) <= c
<1> DEFINE S == {a, b, c}
<1>1. \E x \in S : \A y \in S : x <= y
  <2>1. CASE a <= b /\ a <= c BY <2>1
  <2>2. CASE b <= a /\ b <= c BY <2>2
  <2>3. CASE c <= a /\ c <= b BY <2>3
  <2> QED BY <2>1, <2>2, <2>3
<1>2. a \in S /\ b \in S /\ c \in S OBVIOUS
<1> HIDE DEF S
<1>3. Min(S) \in S /\ \A y \in S : Min(S) <= y BY <1>1 DEF Min
<1> QED BY <1>2, <1>3 DEF S

\* What can be scheduled, and the items made of the first n of an order.
CanFeed(eligible) ==
    \A r \in eligible : r \in Sequents /\ fed[r] < known[r] /\ known[r] <= Longest
ItemSet == [req : Sequents, start : Nat, end : Nat, sample : BOOLEAN]
Single(x) == x.end = x.start + 1
ItemFeeds(x) ==
    /\ x.start = fed[x.req] /\ x.start < x.end /\ x.end <= known[x.req] /\ x.end <= Longest
    /\ x.sample = (x.end = known[x.req])
PlanOwn(acc, order, n) ==
    /\ acc.budget \in Nat /\ acc.items \in Seq(ItemSet) /\ Len(acc.items) <= n
    /\ \A i \in DOMAIN acc.items : ItemFeeds(acc.items[i]) /\ \E j \in 1..n : acc.items[i].req = order[j]
    /\ \A i, j \in DOMAIN acc.items : acc.items[i].req = acc.items[j].req => i = j
    /\ (\A i \in DOMAIN acc.items : Single(acc.items[i])) => acc.budget = MaxBatchedTokens - Len(acc.items)
    /\ ChunkTokens > 1 => \A i \in DOMAIN acc.items :
          Single(acc.items[i]) /\ ~acc.items[i].sample => acc.budget = 0 /\ i = Len(acc.items)

LEMMA ScheduledOwn ==
    ASSUME SequentTypes, NEW eligible, CanFeed(eligible), NEW order, OrderOwn(order, eligible),
           NEW n \in 1..Len(order), NEW acc, PlanOwn(acc, order, n - 1)
    PROVE  PlanOwn(Scheduled(acc, order[n]), order, n)
<1> DEFINE r == order[n]
           c == IF IsDecode(r) THEN 1 ELSE ChunkTokens
           d == known[r] - fed[r]
           m == Min({d, c, acc.budget})
           k == Len(acc.items)
           x == [req |-> r, start |-> fed[r], end |-> fed[r] + m, sample |-> fed[r] + m = known[r]]
           out == Scheduled(acc, r)
<1>1. n \in Nat \ {0} /\ r \in eligible BY DEF OrderOwn
<1>2. r \in Sequents /\ fed[r] \in Nat /\ known[r] \in Nat /\ fed[r] < known[r] /\ known[r] <= Longest
      /\ Longest \in Nat /\ d \in Nat \ {0}
  BY <1>1, ForwardAssumption DEF CanFeed, SequentTypes
<1>3. c \in Nat \ {0} /\ (c = 1 /\ ChunkTokens > 1 => d = 1) BY ForwardAssumption DEF IsDecode
<1>4. acc.budget \in Nat /\ acc.items \in Seq(ItemSet) /\ k \in Nat /\ k <= n - 1 /\ DOMAIN acc.items = 1..k
  BY DEF PlanOwn
<1>5. out = IF m = 0 THEN acc ELSE [budget |-> acc.budget - m, items |-> Append(acc.items, x)]
  BY DEF Scheduled
<1> HIDE DEF c, d, out, r
<1>6. m \in {d, c, acc.budget} /\ m <= d /\ m <= c /\ m <= acc.budget
  <2> DEFINE b == acc.budget
  <2> HIDE DEF b
  <2>1. b \in Nat BY <1>4 DEF b
  <2> QED BY <1>2, <1>3, <2>1, LeastOfThree DEF b
<1>7. m \in Nat BY <1>2, <1>3, <1>4, <1>6
<1> HIDE DEF m, k
<1>8. CASE m = 0
  <2>1. out = acc BY <1>5, <1>8
  <2>2. \A j \in 1..n - 1 : j \in 1..n BY <1>1
  <2>3. Len(acc.items) <= n BY <1>1, <1>4 DEF k
  <2>4. PlanOwn(out, order, n) BY <2>1, <2>2, <2>3 DEF PlanOwn
  <2> QED BY <2>4 DEF out, r
<1>9. CASE m # 0
  <2> DEFINE b == acc.budget - m
             s == Append(acc.items, x)
  <2>1. out = [budget |-> b, items |-> s] BY <1>5, <1>9
  <2>2. x \in ItemSet /\ x.req = r /\ x.start = fed[r] /\ x.end = fed[r] + m
        /\ x.sample = (fed[r] + m = known[r])
    BY <1>2, <1>7 DEF ItemSet
  <2> HIDE DEF x
  <2>3. /\ s \in Seq(ItemSet) /\ Len(s) = k + 1 /\ DOMAIN s = 1..k + 1 /\ s[k + 1] = x
        /\ \A i \in 1..k : s[i] = acc.items[i]
    BY <2>2, <1>4 DEF k
  <2> HIDE DEF s, b
  <2>4. b \in Nat /\ b = acc.budget - m BY <1>4, <1>6, <1>7 DEF b
  <2>5. \A i \in 1..k + 1 : i = k + 1 \/ (i \in 1..k /\ i # k + 1) BY <1>4 DEF k
  <2>6. ItemFeeds(x)
    <3>1. fed[r] < fed[r] + m /\ fed[r] + m <= known[r] /\ fed[r] + m <= Longest
      BY <1>2, <1>6, <1>7, <1>9 DEF d
    <3> QED BY <2>2, <3>1 DEF ItemFeeds
  <2>7. \A i \in 1..k : ItemFeeds(acc.items[i]) /\ \E j \in 1..n - 1 : acc.items[i].req = order[j]
    BY <1>4 DEF PlanOwn
  <2>8. \A i \in 1..k + 1 : ItemFeeds(s[i]) /\ \E j \in 1..n : s[i].req = order[j]
    <3> TAKE i \in 1..k + 1
    <3>1. CASE i = k + 1
      <4>1. n \in 1..n BY <1>1
      <4> QED BY <3>1, <4>1, <2>2, <2>3, <2>6 DEF r
    <3>2. CASE i \in 1..k
      <4>1. \A j \in 1..n - 1 : j \in 1..n BY <1>1
      <4> QED BY <3>2, <4>1, <2>3, <2>7
    <3> QED BY <3>1, <3>2, <2>5
  <2>9. \A i \in 1..k : acc.items[i].req # r
    <3> TAKE i \in 1..k
    <3>1. PICK j \in 1..n - 1 : acc.items[i].req = order[j] BY <2>7
    <3>2. j \in 1..Len(order) /\ j # n
      <4>1. Len(order) \in Nat BY DEF OrderOwn
      <4> QED BY <4>1, <1>1
    <3> QED BY <3>1, <3>2 DEF OrderOwn, r
  <2>10. \A i, j \in 1..k + 1 : s[i].req = s[j].req => i = j
    <3>1. \A i, j \in 1..k : acc.items[i].req = acc.items[j].req => i = j BY <1>4 DEF PlanOwn
    <3> QED BY <3>1, <2>2, <2>3, <2>5, <2>9
  <2>11. (\A i \in 1..k + 1 : Single(s[i])) => b = MaxBatchedTokens - (k + 1)
    <3>1. HAVE \A i \in 1..k + 1 : Single(s[i])
    <3>2. \A i \in 1..k : i \in 1..k + 1 /\ s[i] = acc.items[i] BY <2>3, <1>4 DEF k
    <3>3. acc.budget = MaxBatchedTokens - k BY <3>1, <3>2, <1>4 DEF PlanOwn, k
    <3>4. Single(x)
      <4>1. k + 1 \in 1..k + 1 BY <1>4
      <4> QED BY <4>1, <3>1, <2>3
    <3>5. m = 1 BY <3>4, <2>2, <1>2, <1>7 DEF Single
    <3>6. MaxBatchedTokens \in Nat BY ForwardAssumption
    <3> QED BY <3>3, <3>5, <3>6, <2>4, <1>4
  <2>12. ASSUME ChunkTokens > 1, NEW i \in 1..k + 1, Single(s[i]), ~s[i].sample PROVE b = 0 /\ i = k + 1
    <3>1. CASE i = k + 1
      <4>1. Single(x) /\ ~x.sample BY <3>1, <2>3, <2>12
      <4>2. m = 1 BY <4>1, <2>2, <1>2, <1>7 DEF Single
      <4>3. fed[r] + m # known[r] BY <4>1, <2>2
      <4>4. d # 1 BY <4>2, <4>3, <1>2 DEF d
      <4>5. m = acc.budget BY <4>2, <4>4, <1>3, <1>6, <2>12
      <4> QED BY <3>1, <4>5, <2>4, <1>4
    <3>2. CASE i \in 1..k
      <4>1. acc.budget = 0 BY <3>2, <2>3, <2>12, <1>4 DEF PlanOwn
      <4> QED BY <4>1, <1>6, <1>7, <1>9
    <3> QED BY <3>1, <3>2, <2>5
  <2>13. Len(s) <= n BY <2>3, <1>1, <1>4
  <2>14. out.budget = b /\ out.items = s BY <2>1
  <2> HIDE DEF out
  <2>15. PlanOwn(out, order, n) BY <2>3, <2>4, <2>8, <2>10, <2>11, <2>12, <2>13, <2>14 DEF PlanOwn
  <2> QED BY <2>15 DEF out, r
<1> QED BY <1>8, <1>9

\* What has been scheduled of the first requests.
Plans(f, order) ==
    f = [n \in 0..Len(order) |-> IF n = 0 THEN [budget |-> MaxBatchedTokens, items |-> << >>]
                                 ELSE Scheduled(f[n - 1], order[n])]
PlansUpto(f, order, m) ==
    /\ f = [n \in 0..m |-> f[n]]
    /\ f[0] = [budget |-> MaxBatchedTokens, items |-> << >>]
    /\ \A n \in 1..m : f[n] = Scheduled(f[n - 1], order[n])

LEMMA PlanExists ==
    ASSUME NEW order, Len(order) \in Nat
    PROVE  PlansUpto(CHOOSE f : Plans(f, order), order, Len(order))
<1> DEFINE N == Len(order)
           init == [budget |-> MaxBatchedTokens, items |-> << >>]
           G == {m \in 0..N : \E f : PlansUpto(f, order, m)}
<1> HIDE DEF N, init
<1>1. 0 \in G
  <2> DEFINE f == [k \in 0..0 |-> init]
  <2>1. PlansUpto(f, order, 0) BY DEF PlansUpto, init
  <2> HIDE DEF f
  <2> QED BY <2>1 DEF N
<1>2. ASSUME NEW m \in 1..N, m - 1 \in G PROVE m \in G
  <2>1. PICK f : PlansUpto(f, order, m - 1) BY <1>2
  <2> DEFINE last == Scheduled(f[m - 1], order[m])
             g == [k \in 0..m |-> IF k = m THEN last ELSE f[k]]
  <2>2. m \in Nat \ {0} /\ N \in Nat BY DEF N
  <2>3. g[0] = f[0] /\ g = [n \in 0..m |-> g[n]] BY <2>2
  <2>4. ASSUME NEW n \in 1..m PROVE g[n] = Scheduled(g[n - 1], order[n])
    <3>1. n - 1 \in 0..m /\ n - 1 # m /\ n \in 0..m BY <2>2
    <3>2. g[n - 1] = f[n - 1] BY <3>1
    <3>3. CASE n = m
      <4> HIDE DEF last
      <4>1. g[n] = last BY <3>1, <3>3
      <4> HIDE DEF g
      <4> QED BY <3>2, <3>3, <4>1 DEF last
    <3>4. CASE n # m
      <4>1. n \in 1..m - 1 BY <3>4, <2>2
      <4>2. f[n] = Scheduled(f[n - 1], order[n]) BY <4>1, <2>1 DEF PlansUpto
      <4>3. g[n] = f[n] BY <3>1, <3>4
      <4> HIDE DEF g
      <4> QED BY <3>2, <4>2, <4>3
    <3> QED BY <3>3, <3>4
  <2> HIDE DEF g
  <2>5. PlansUpto(g, order, m) BY <2>1, <2>3, <2>4 DEF PlansUpto
  <2> QED BY <2>5
<1>3. N \in Nat BY DEF N
<1> HIDE DEF G
<1>4. \A n \in 0..N : n \in G BY <1>1, <1>2, <1>3, Upto
<1>5. N \in G BY <1>3, <1>4
<1>6. PICK f : PlansUpto(f, order, N) BY <1>5 DEF G
<1>7. Plans(f, order)
  <2> DEFINE F(n) == IF n = 0 THEN init ELSE Scheduled(f[n - 1], order[n])
  <2>1. \A n \in 0..N : f[n] = F(n)
    <3> TAKE n \in 0..N
    <3>1. CASE n = 0 BY <3>1, <1>6 DEF PlansUpto, init
    <3>2. CASE n # 0
      <4>1. n \in 1..N BY <3>2, <1>3
      <4> QED BY <3>2, <4>1, <1>6 DEF PlansUpto
    <3> QED BY <3>1, <3>2
  <2>2. f = [n \in 0..N |-> f[n]] BY <1>6 DEF PlansUpto
  <2> HIDE DEF F
  <2>3. f = [n \in 0..N |-> F(n)] BY <2>1, <2>2
  <2> QED BY <2>3 DEF Plans, N, init, F
<1> DEFINE a == CHOOSE g : Plans(g, order)
<1>8. Plans(a, order) BY <1>7
<1> HIDE DEF a
<1>9. PlansUpto(a, order, N)
  <2>1. 0 \in 0..N /\ \A n \in 1..N : n \in 0..N /\ n # 0 BY <1>3
  <2>2. a[0] = init BY <1>8, <2>1 DEF Plans, N, init
  <2>3. \A n \in 1..N : a[n] = Scheduled(a[n - 1], order[n]) BY <1>8, <2>1 DEF Plans, N
  <2>4. a = [n \in 0..N |-> a[n]] BY <1>8 DEF Plans, N
  <2> QED BY <2>2, <2>3, <2>4 DEF PlansUpto, init
<1> QED BY <1>9 DEF a, N

LEMMA PlanIs ==
    ASSUME SequentTypes, NEW eligible, CanFeed(eligible), NEW order, OrderOwn(order, eligible)
    PROVE  \E acc : acc.items = Plan(order) /\ PlanOwn(acc, order, Len(order))
<1> DEFINE N == Len(order)
           a == CHOOSE f : Plans(f, order)
           G == {n \in 0..N : PlanOwn(a[n], order, n)}
<1>1. Plan(order) = a[N].items BY DEF Plan, Plans
<1>2. N \in Nat BY DEF OrderOwn
<1>3. PlansUpto(a, order, N) BY <1>2, PlanExists
<1> HIDE DEF a, N
<1>4. 0 \in G
  <2>1. a[0] = [budget |-> MaxBatchedTokens, items |-> << >>] BY <1>3 DEF PlansUpto
  <2> DEFINE b == a[0]
  <2> HIDE DEF b
  <2>2. b.budget = MaxBatchedTokens /\ b.items = << >> BY <2>1 DEF b
  <2>3. MaxBatchedTokens \in Nat BY ForwardAssumption
  <2>4. PlanOwn(b, order, 0) BY <2>2, <2>3 DEF PlanOwn
  <2> QED BY <2>4, <1>2 DEF b
<1>5. ASSUME NEW n \in 1..N, n - 1 \in G PROVE n \in G
  <2> DEFINE b == a[n - 1]
  <2>1. a[n] = Scheduled(b, order[n]) BY <1>3 DEF PlansUpto
  <2>2. PlanOwn(b, order, n - 1) BY <1>5
  <2> HIDE DEF b
  <2>3. PlanOwn(Scheduled(b, order[n]), order, n) BY <2>2, ScheduledOwn DEF N
  <2>4. PlanOwn(a[n], order, n) BY <2>1, <2>3
  <2> QED BY <2>4, <1>2
<1> HIDE DEF G
<1>6. \A n \in 0..N : n \in G BY <1>2, <1>4, <1>5, Upto
<1>7. N \in G BY <1>2, <1>6
<1> QED BY <1>1, <1>7 DEF G, N

\* A plan feeds each request from where it is; of decodes only, one that is not sampled is the last,
\* and there is none, if the budget exceeds the active limit, unless the chunk is one token.
PlanFeeds(items) ==
    /\ items \in Seq(ItemSet) /\ Len(items) <= MaxActive
    /\ \A i \in DOMAIN items : ItemFeeds(items[i])
    /\ \A i, j \in DOMAIN items : items[i].req = items[j].req => i = j
    /\ DecodesOnly(items) /\ ChunkTokens > 1
          => /\ \A i \in DOMAIN items : i # Len(items) => items[i].sample
             /\ MaxBatchedTokens > MaxActive => \A i \in DOMAIN items : items[i].sample

LEMMA PlanDecodes ==
    ASSUME SequentTypes, NEW eligible, CanFeed(eligible), eligible \subseteq ToSet(sequents),
           NEW order \in Orders(eligible)
    PROVE  PlanFeeds(Plan(order))
<1> DEFINE items == Plan(order)
<1>1. OrderOwn(order, eligible) BY OrderIs
<1>2. PICK acc : acc.items = items /\ PlanOwn(acc, order, Len(order)) BY <1>1, PlanIs
<1>3. /\ items \in Seq(ItemSet) /\ Len(items) <= Len(order)
      /\ \A i \in DOMAIN items : ItemFeeds(items[i])
      /\ \A i, j \in DOMAIN items : items[i].req = items[j].req => i = j
  BY <1>2 DEF PlanOwn
<1> HIDE DEF items
<1>4. Len(items) <= MaxActive
  <2>1. Len(items) \in Nat /\ Len(order) \in Nat /\ Len(order) <= MaxActive /\ MaxActive \in Nat
    BY <1>1, <1>3, ForwardAssumption DEF OrderOwn
  <2> QED BY <2>1, <1>3
<1>5. ASSUME DecodesOnly(items), ChunkTokens > 1, NEW i \in DOMAIN items, ~items[i].sample
      PROVE  i = Len(items) /\ ~(MaxBatchedTokens > MaxActive)
  <2>1. \A k \in DOMAIN items : Single(items[k]) BY <1>5 DEF DecodesOnly, Single
  <2>2. acc.budget = MaxBatchedTokens - Len(items) BY <1>2, <2>1 DEF PlanOwn
  <2>3. acc.budget = 0 /\ i = Len(items) BY <1>2, <1>5, <2>1 DEF PlanOwn
  <2>4. Len(items) \in Nat /\ MaxActive \in Nat /\ MaxBatchedTokens \in Nat BY <1>3, ForwardAssumption
  <2> QED BY <1>4, <2>2, <2>3, <2>4
<1> QED BY <1>3, <1>4, <1>5 DEF PlanFeeds, items

-------------------------------------------------------------------------------
(* Reading.                                                                            *)

\* A table that is filled up has the blocks it had.
LEMMA FilledKeeps ==
    ASSUME NEW t, t \in Seq(Pool), NEW p \in 0..Longest - 1, Covers(t, p)
    PROVE  BlockOf(Filled(t), p) = BlockOf(t, p)
<1> DEFINE i == p \div BlockTokens + 1
           w == Width
           m == Len(t)
<1>1. Longest \in Nat BY ForwardAssumption
<1>2. w = BlocksOfLength(Longest) BY DEF Width, BlocksOfLength
<1>3. i \in 1..w /\ w \in Nat BY <1>1, <1>2, BlocksCover
<1>4. m \in Nat /\ DOMAIN t = 1..m OBVIOUS
<1>5. i \in 1..m BY <1>4 DEF Covers
<1> HIDE DEF i
<1>6. Filled(t) = [j \in 1..w |-> IF j <= m THEN t[j] ELSE 0] BY DEF Filled
<1> HIDE DEF w, m
<1>7. Filled(t)[i] = t[i] BY <1>3, <1>4, <1>5, <1>6
<1> QED BY <1>7 DEF BlockOf, i

\* All that request r had to see: the tokens of its first n positions.
OwnUpto(r, n) == [p \in 0..n - 1 |-> <<r, p>>]
Held(pl, t, r, n) == \A p \in 0..n - 1 : Covers(t, p) /\ pl[BlockOf(t, p)][p % BlockTokens] = <<r, p>>

LEMMA ReferenceOwn ==
    ASSUME NEW pl, NEW t, NEW r, NEW n, Held(pl, t, r, n)
    PROVE  ReferenceReads(pl, t, n) = OwnUpto(r, n)
BY DEF Held, ReferenceReads, OwnUpto

LEMMA KernelOwn ==
    ASSUME NEW pl, NEW t, t \in Seq(Pool), NEW r, NEW n \in Nat, n <= Longest, Held(pl, t, r, n),
           NEW batch, NEW i, batch.rows[i].pos = n - 1, batch.tables[batch.rows[i].seq] = Filled(t)
    PROVE  KernelReads(pl, batch, i) = OwnUpto(r, n)
<1>1. KernelReads(pl, batch, i) = [p \in 0..n - 1 |-> pl[BlockOf(Filled(t), p)][p % BlockTokens]]
  BY DEF KernelReads
<1>2. \A p \in 0..n - 1 : BlockOf(Filled(t), p) = BlockOf(t, p)
  <2> TAKE p \in 0..n - 1
  <2>1. p \in 0..Longest - 1 BY ForwardAssumption
  <2> QED BY <2>1, FilledKeeps DEF Held
<1>3. \A p \in 0..n - 1 : pl[BlockOf(Filled(t), p)][p % BlockTokens] = <<r, p>> BY <1>2 DEF Held
<1> QED BY <1>1, <1>3 DEF OwnUpto

-------------------------------------------------------------------------------
(* The steps of the forward pass.                                                      *)

LEMMA FedToIs ==
    ASSUME SequentTypes, NEW items, PlanFeeds(items)
    PROVE  /\ FedTo(items) \in [Sequents -> Nat]
           /\ \A i \in DOMAIN items : FedTo(items)[items[i].req] = items[i].end
           /\ \A r \in Sequents : (\A i \in DOMAIN items : items[i].req # r) => FedTo(items)[r] = fed[r]
<1> DEFINE at(r) == CHOOSE i \in DOMAIN items : items[i].req = r
           f == FedTo(items)
<1>1. \A i \in DOMAIN items : items[i] \in ItemSet /\ items[i].req \in Sequents /\ items[i].end \in Nat
  <2> TAKE i \in DOMAIN items
  <2>1. items[i] \in ItemSet BY DEF PlanFeeds
  <2> QED BY <2>1 DEF ItemSet
<1>2. fed \in [Sequents -> Nat] BY DEF SequentTypes
<1>3. f = [r \in Sequents |-> IF \E i \in DOMAIN items : items[i].req = r THEN items[at(r)].end ELSE fed[r]]
  BY DEF FedTo
<1>4. \A r : (\E i \in DOMAIN items : items[i].req = r) => at(r) \in DOMAIN items /\ items[at(r)].req = r
  OBVIOUS
<1> HIDE DEF at, f
<1>5. \A i \in DOMAIN items : at(items[i].req) = i
  <2> TAKE i \in DOMAIN items
  <2>1. at(items[i].req) \in DOMAIN items /\ items[at(items[i].req)].req = items[i].req BY <1>4
  <2> QED BY <2>1 DEF PlanFeeds
<1>6. f \in [Sequents -> Nat]
  <2>1. \A r \in Sequents :
          (IF \E i \in DOMAIN items : items[i].req = r THEN items[at(r)].end ELSE fed[r]) \in Nat
    BY <1>1, <1>2, <1>4
  <2> QED BY <2>1, <1>3
<1>7. \A i \in DOMAIN items : f[items[i].req] = items[i].end BY <1>1, <1>3, <1>5
<1>8. \A r \in Sequents : (\A i \in DOMAIN items : items[i].req # r) => f[r] = fed[r] BY <1>3
<1> QED BY <1>6, <1>7, <1>8 DEF f

\* After the batch was written, every request holds what it was fed.
LEMMA HeldAfter ==
    ASSUME ForwardInv, NEW items, PlanFeeds(items), NEW fr, NEW ts, BlocksOwn(fr, ts), Longer(tables, ts),
           \A i \in 1..Len(items) : CoversTo(ts[items[i].req], items[i].end),
           NEW rows, RowsOwn(rows, ts),
           \A i \in 1..Len(items) : \A p \in items[i].start..items[i].end - 1 : Fed(rows, items[i].req, p)
    PROVE  \A r \in Sequents : Held(Written(rows), ts[r], r, FedTo(items)[r])
<1> DEFINE f == FedTo(items)
           w == Written(rows)
<1>1. SequentTypes /\ FedOwn(pool, tables, fed) /\ fed \in [Sequents -> Nat] BY DEF ForwardInv, SequentTypes, PoolOwn
<1>2. /\ f \in [Sequents -> Nat]
      /\ \A i \in DOMAIN items : f[items[i].req] = items[i].end
      /\ \A r \in Sequents : (\A i \in DOMAIN items : items[i].req # r) => f[r] = fed[r]
  BY <1>1, FedToIs
<1>3. DOMAIN items = 1..Len(items) BY DEF PlanFeeds
<1> HIDE DEF f, w
<1>4. ASSUME NEW r \in Sequents, NEW p \in Nat, p < fed[r] PROVE Covers(ts[r], p) /\ w[BlockOf(ts[r], p)][p % BlockTokens] = <<r, p>>
  <2>1. p \in 0..fed[r] - 1 BY <1>1, <1>4
  <2>2. Covers(tables[r], p) /\ pool[BlockOf(tables[r], p)][p % BlockTokens] = <<r, p>> BY <2>1, <1>1 DEF FedOwn
  <2>3. Covers(ts[r], p) /\ BlockOf(ts[r], p) = BlockOf(tables[r], p) BY <2>2, LongerKeeps
  <2>4. pool[BlockOf(ts[r], p)][p % BlockTokens] = <<r, p>> BY <2>2, <2>3
  <2> QED BY <2>3, <2>4, WrittenOwn DEF w
<1>5. ASSUME NEW r \in Sequents, NEW p \in 0..f[r] - 1
      PROVE  Covers(ts[r], p) /\ w[BlockOf(ts[r], p)][p % BlockTokens] = <<r, p>>
  <2>1. p \in Nat /\ p < f[r] BY <1>2
  <2>2. CASE p < fed[r] BY <2>1, <2>2, <1>4
  <2>3. CASE ~(p < fed[r])
    <3>1. PICK i \in DOMAIN items : items[i].req = r BY <2>1, <2>3, <1>2
    <3>2. f[r] = items[i].end BY <3>1, <1>2
    <3>3. items[i].start = fed[r] BY <3>1 DEF PlanFeeds, ItemFeeds
    <3>4. fed[r] \in Nat /\ f[r] \in Nat BY <1>1, <1>2
    <3>5. p \in items[i].start..items[i].end - 1 /\ p \in 0..items[i].end - 1 BY <2>1, <2>3, <3>2, <3>3, <3>4
    <3>6. Fed(rows, r, p) BY <3>1, <3>5, <1>3
    <3>7. Covers(ts[r], p) BY <3>1, <3>5, <1>3 DEF CoversTo
    <3> QED BY <2>1, <3>6, <3>7, WrittenOwn DEF w
  <2> QED BY <2>2, <2>3
<1> QED BY <1>5 DEF Held, f, w

\* The items of the plan can be packed.
LEMMA PlanPacks ==
    ASSUME NEW items, PlanFeeds(items), NEW ts, \A i \in 1..Len(items) : CoversTo(ts[items[i].req], items[i].end)
    PROVE  ItemsOwn(items, ts)
<1>1. items \in Seq(ItemSet) /\ DOMAIN items = 1..Len(items) /\ Len(items) \in Nat BY DEF PlanFeeds
<1>2. ASSUME NEW i \in 1..Len(items) PROVE ItemOwn(items[i], ts)
  <2>1. items[i] \in ItemSet BY <1>1
  <2>2. ItemFeeds(items[i]) BY <1>1 DEF PlanFeeds
  <2>3. CoversTo(ts[items[i].req], items[i].end) OBVIOUS
  <2> QED BY <2>1, <2>2, <2>3 DEF ItemSet, ItemFeeds, ItemOwn, CoversTo
<1> QED BY <1>1, <1>2 DEF ItemsOwn

\* What is packed for a plan, and padded, if all of it are decodes.
Run(graph, packed) == IF graph THEN PadDecode(packed) ELSE packed
RunOwn(graph, run, packed, items, ts) ==
    /\ BatchFeeds(run, items, ts)
    /\ (graph => ChunkTokens > 1 \/ \A i \in DOMAIN items : items[i].sample)
          => Answered(run, packed.sampled, items, ts)
    /\ packed.sampled \in Seq(Sequents)
    /\ (\A i \in DOMAIN items : items[i].sample) => Len(packed.sampled) = Len(items)
    /\ graph => PaddedOwn(run, packed, items, ts)

LEMMA RunIs ==
    ASSUME NEW items, PlanFeeds(items), items # << >>, NEW fr, NEW ts, BlocksOwn(fr, ts),
           \A i \in 1..Len(items) : CoversTo(ts[items[i].req], items[i].end),
           NEW graph, graph => DecodesOnly(items)
    PROVE  RunOwn(graph, Run(graph, Packed(items, ts)), Packed(items, ts), items, ts)
<1> DEFINE packed == Packed(items, ts)
           N == Len(items)
           run == Run(graph, packed)
<1>1. items \in Seq(ItemSet) /\ N \in Nat /\ DOMAIN items = 1..N /\ N # 0 /\ N <= MaxActive BY DEF PlanFeeds
<1>2. ItemsOwn(items, ts) BY PlanPacks
<1>3. PackedOwn(packed, items, ts, N) BY <1>2, PackedIs
<1>4. Batch(packed) BY <1>1, PackedRecord
<1> HIDE DEF packed
<1>5. /\ packed.sampled \in Seq(Sequents) /\ Len(packed.sampled) \in Nat
      /\ (\A i \in DOMAIN items : items[i].sample) => Len(packed.sampled) = N
  BY <1>1, <1>3 DEF PackedOwn, SampledPacked
<1>6. CASE graph
  <2>1. OneEach(items, N) BY <1>1, <1>6 DEF DecodesOnly, OneEach
  <2>2. PaddedOwn(PadDecode(packed), packed, items, ts) BY <1>1, <1>2, <1>3, <1>4, <2>1, PaddedBatch
  <2>3. run = PadDecode(packed) BY <1>6 DEF Run
  <2>4. ASSUME ChunkTokens > 1 \/ \A i \in DOMAIN items : items[i].sample PROVE InPlace(packed)
    <3>1. \A i \in 1..N : i # N => items[i].sample BY <1>1, <1>6, <2>4 DEF PlanFeeds
    <3> QED BY <3>1, <2>1, <1>3 DEF PackedOwn, Settled
  <2> HIDE DEF run, N
  <2>5. BatchFeeds(run, items, ts) /\ (InPlace(packed) => Answered(run, packed.sampled, items, ts))
    BY <2>2, <2>3 DEF PaddedOwn
  <2>6. RunOwn(graph, run, packed, items, ts) BY <1>5, <1>6, <2>2, <2>3, <2>4, <2>5 DEF RunOwn, N
  <2> QED BY <2>6 DEF run, packed
<1>7. CASE ~graph
  <2>1. run = packed BY <1>7 DEF Run
  <2>2. BatchFeeds(packed, items, ts) /\ Answered(packed, packed.sampled, items, ts) BY <1>2, <1>3, PackedBatch
  <2> HIDE DEF run
  <2>3. RunOwn(graph, run, packed, items, ts) BY <1>5, <1>7, <2>1, <2>2 DEF RunOwn
  <2> QED BY <2>3 DEF run, packed
<1> QED BY <1>6, <1>7

\* What a graph is replayed with, if it takes it: the batch, a single logit index in each place.
LEMMA CopiedOwn ==
    ASSUME NEW run, NEW packed, NEW items, NEW ts, PaddedOwn(run, packed, items, ts),
           packed.sampled \in Seq(Sequents), NEW target, SizedTo(target.logits, Len(run.rows)),
           Copies(target, run), Len(run.rows) \in Nat \ {0}
    PROVE  /\ CopyPacked(target, run).rows = run.rows /\ CopyPacked(target, run).tables = run.tables
           /\ SizedTo(CopyPacked(target, run).logits, Len(run.rows))
           /\ \A k \in DOMAIN packed.sampled : CopyPacked(target, run).logits[k] = run.logits[k]
<1> DEFINE n == Len(run.rows)
           lgs == IF Len(run.logits) = 1 THEN [i \in DOMAIN target.logits |-> run.logits[1]] ELSE run.logits
           c == CopyPacked(target, run)
<1>1. Batch(run) /\ run.logits \in Seq(Nat) /\ Len(packed.sampled) <= Len(run.logits) BY DEF PaddedOwn
<1>2. c = [run EXCEPT !.logits = lgs] BY DEF CopyPacked
<1>3. c.rows = run.rows /\ c.tables = run.tables /\ c.logits = lgs
  <2> DEFINE w == run.rows
             x == run.tables
             y == run.logits
             z == run.sampled
  <2>1. run = [rows |-> w, tables |-> x, logits |-> y, sampled |-> z] BY <1>1 DEF Batch
  <2> HIDE DEF w, x, y, z, lgs, c
  <2>2. c = [rows |-> w, tables |-> x, logits |-> lgs, sampled |-> z] BY <1>2, <2>1
  <2> QED BY <2>2 DEF w, x
<1>4. DOMAIN target.logits = 1..n /\ Len(target.logits) = n /\ n \in Nat /\ n >= 1 BY DEF SizedTo
<1> HIDE DEF n
<1>5. CASE Len(run.logits) = 1
  <2>1. lgs = [i \in 1..n |-> run.logits[1]] BY <1>4, <1>5
  <2>2. SizedTo(lgs, n)
    <3> HIDE DEF lgs
    <3> DEFINE v == run.logits[1]
    <3> HIDE DEF v
    <3>1. lgs = [i \in 1..n |-> v] BY <2>1 DEF v
    <3> QED BY <3>1, <1>4 DEF SizedTo
  <2>3. \A k \in DOMAIN packed.sampled : k = 1
    <3>1. Len(packed.sampled) \in Nat /\ DOMAIN packed.sampled = 1..Len(packed.sampled) OBVIOUS
    <3> QED BY <3>1, <1>1, <1>5
  <2>4. lgs[1] = run.logits[1] BY <2>1, <1>4
  <2> HIDE DEF lgs
  <2> QED BY <1>3, <2>2, <2>3, <2>4 DEF n
<1>6. CASE Len(run.logits) # 1
  <2>1. lgs = run.logits /\ Len(run.logits) = n BY <1>4, <1>6 DEF Copies
  <2>2. SizedTo(run.logits, n) BY <2>1, <1>1 DEF SizedTo
  <2> HIDE DEF lgs, c
  <2> QED BY <1>3, <2>1, <2>2 DEF n, c
<1> QED BY <1>5, <1>6

\* The logits of a sampled request are those of all its tokens.
LEMMA SampledReads ==
    ASSUME SequentTypes, NEW items, PlanFeeds(items), NEW fr, NEW ts, BlocksOwn(fr, ts),
           NEW batch, NEW sampled, Answered(batch, sampled, items, ts), NEW k \in DOMAIN sampled,
           NEW r, r = sampled[k], NEW pl, \A q \in Sequents : Held(pl, ts[q], q, FedTo(items)[q])
    PROVE  /\ r \in Sequents
           /\ ReferenceReads(pl, ts[r], FedTo(items)[r]) = OwnUpto(r, FedTo(items)[r])
           /\ KernelReads(pl, batch, batch.logits[k]) = OwnUpto(r, FedTo(items)[r])
<1> DEFINE n == FedTo(items)[r]
           l == batch.logits[k]
<1>1. PICK i \in 1..Len(items) :
         /\ items[i].sample /\ items[i].req = r /\ batch.rows[l].pos = items[i].end - 1
         /\ batch.tables[batch.rows[l].seq] = Filled(ts[r])
  BY DEF Answered, Answers
<1>2. DOMAIN items = 1..Len(items) /\ items[i] \in ItemSet BY DEF PlanFeeds
<1>3. r \in Sequents /\ items[i].end \in Nat BY <1>1, <1>2 DEF ItemSet
<1>4. n = items[i].end BY <1>1, <1>2, FedToIs
<1>5. n <= Longest BY <1>2, <1>4 DEF PlanFeeds, ItemFeeds
<1> HIDE DEF n, l
<1>6. Held(pl, ts[r], r, n) BY <1>3 DEF n
<1>7. ReferenceReads(pl, ts[r], n) = OwnUpto(r, n) BY <1>6, ReferenceOwn
<1>8. KernelReads(pl, batch, l) = OwnUpto(r, n)
  <2>1. ts[r] \in Seq(Pool) BY <1>3 DEF BlocksOwn
  <2>2. n \in Nat /\ batch.rows[l].pos = n - 1 BY <1>1, <1>3, <1>4
  <2> QED BY <1>1, <1>5, <1>6, <2>1, <2>2, KernelOwn
<1> QED BY <1>3, <1>7, <1>8 DEF n, l

LEMMA ExecuteKeeps ==
    ASSUME ForwardInv, warm, NEW items, PlanFeeds(items), Execute(items), UNCHANGED <<kernel, warm, sequents>>
    PROVE  ForwardInv'
<1> DEFINE grown == Growth(items)
           ts == grown.tables
           packed == Packed(items, ts)
           sampled == packed.sampled
           graph == kernel = "graphs" /\ DecodesOnly(items)
           all == \A i \in DOMAIN items : items[i].sample
           run == Run(graph, packed)
           n == Len(run.rows)
           replay == graph /\ n \in DOMAIN static
           batch == IF replay THEN CopyPacked(static[n], run) ELSE run
           after == Written(batch.rows)
           to == FedTo(items)
           torch(k) == ReferenceReads(after, ts[sampled[k]], to[sampled[k]])
           triton(k) == KernelReads(after, batch, batch.logits[k])
           at(r) == CHOOSE k \in DOMAIN sampled : sampled[k] = r
           failed == \/ graph /\ ~Pads(packed)
                     \/ replay /\ ~Copies(static[n], run)
                     \/ ~replay /\ kernel # "torch" /\ ~Takes(batch)
<1>1. items # << >> /\ grown.fits /\ freeList' = grown.free /\ tables' = ts BY DEF Execute
<1>2. unsampled' = (graph /\ ~all) BY DEF Execute
<1>3. IF failed
      THEN mismatch' = TRUE /\ attended' = << >> /\ UNCHANGED <<fed, known, decoding, pool, static>>
      ELSE /\ pool' = after
           /\ static' = IF graph THEN [m \in DOMAIN static \cup {n} |-> IF m = n THEN batch ELSE static[m]]
                                 ELSE static
           /\ attended' = [r \in ToSet(sampled) |-> IF kernel = "torch" THEN torch(at(r)) ELSE triton(at(r))]
           /\ fed' = to
           /\ known' = [r \in Sequents |-> IF r \in ToSet(sampled) THEN known[r] + 1 ELSE known[r]]
           /\ mismatch' = FALSE
  BY DEF Execute, Run
<1>4. /\ SequentTypes /\ GraphsSized /\ BlocksOwn(freeList, tables) /\ FedOwn(pool, tables, fed)
      /\ fed \in [Sequents -> Nat] /\ known \in [Sequents -> Nat]
  BY DEF ForwardInv, SequentTypes, TablesOwn, PoolOwn
<1>5. Len(items) \in Nat /\ DOMAIN items = 1..Len(items) /\ Len(items) # 0 BY <1>1 DEF PlanFeeds
<1>6. \A i \in 1..Len(items) : items[i].req \in Sequents /\ items[i].end \in Nat
  <2> TAKE i \in 1..Len(items)
  <2>1. items[i] \in ItemSet BY DEF PlanFeeds
  <2> QED BY <2>1 DEF ItemSet
<1>7. /\ BlocksOwn(grown.free, ts) /\ Longer(tables, ts)
      /\ \A i \in 1..Len(items) : CoversTo(ts[items[i].req], items[i].end)
  <2>1. GrowthOwn(grown, items, Len(items)) BY <1>4, <1>5, <1>6, GrowthIs
  <2> HIDE DEF grown
  <2> QED BY <2>1, <1>1 DEF GrowthOwn
<1> DEFINE free2 == grown.free
<1> HIDE DEF grown
<1> HIDE DEF ts, free2
<1>8. BlocksOwn(free2, ts) BY <1>7 DEF free2, ts
<1>9. Longer(tables, ts) /\ \A i \in 1..Len(items) : CoversTo(ts[items[i].req], items[i].end) BY <1>7 DEF ts
<1>10. RunOwn(graph, run, packed, items, ts) BY <1>1, <1>8, <1>9, RunIs
<1>11. graph /\ all => Pads(packed)
  <2>1. HAVE graph /\ all
  <2>2. Len(packed.sampled) # 0 BY <2>1, <1>5, <1>10 DEF RunOwn
  <2> HIDE DEF packed
  <2> QED BY <2>2 DEF Pads
<1> DEFINE pads == Pads(packed)
<1> HIDE DEF pads
<1>12. /\ BatchFeeds(run, items, ts)
       /\ (graph => ChunkTokens > 1 \/ all) => Answered(run, sampled, items, ts)
       /\ sampled \in Seq(Sequents) /\ (all => Len(sampled) = Len(items))
       /\ graph => PaddedOwn(run, packed, items, ts)
  BY <1>10 DEF RunOwn
<1>13. n \in Nat \ {0}
  <2>1. 1 \in DOMAIN items BY <1>5
  <2>2. items[1] \in ItemSet /\ ItemFeeds(items[1]) BY <2>1 DEF PlanFeeds
  <2>3. items[1].start \in items[1].start..items[1].end - 1 BY <2>2 DEF ItemSet, ItemFeeds
  <2> HIDE DEF run
  <2>4. Fed(run.rows, items[1].req, items[1].start) BY <2>1, <2>3, <1>5, <1>12 DEF BatchFeeds
  <2>5. DOMAIN run.rows # {} BY <2>4 DEF Fed
  <2>6. Len(run.rows) \in Nat /\ DOMAIN run.rows = 1..Len(run.rows) BY <1>12 DEF BatchFeeds, RowsOwn
  <2> QED BY <2>5, <2>6
<1>14. graph => SizedTo(run.logits, n) \/ n \in DOMAIN static
  <2>1. HAVE graph
  <2>2. SizedTo(run.logits, n) \/ n \in WarmSizes BY <2>1, <1>12 DEF PaddedOwn
  <2> QED BY <2>1, <2>2, <1>4 DEF GraphsSized
<1>15. ASSUME replay, Copies(static[n], run)
       PROVE  /\ batch.rows = run.rows /\ batch.tables = run.tables /\ SizedTo(batch.logits, n)
              /\ \A k \in DOMAIN sampled : batch.logits[k] = run.logits[k]
  <2>1. SizedTo(static[n].logits, n) BY <1>15, <1>4 DEF GraphsSized
  <2>2. PaddedOwn(run, packed, items, ts) BY <1>12, <1>15
  <2> DEFINE target == static[n]
             c == CopyPacked(target, run)
  <2>3. batch = c BY <1>15
  <2>4. Copies(target, run) BY <1>15
  <2> HIDE DEF batch, target, run, packed
  <2>5. /\ c.rows = run.rows /\ c.tables = run.tables /\ SizedTo(c.logits, n)
        /\ \A k \in DOMAIN sampled : c.logits[k] = run.logits[k]
    BY <2>1, <2>2, <2>4, <1>12, <1>13, CopiedOwn DEF target
  <2> QED BY <2>3, <2>5
<1>16. ASSUME ~replay PROVE batch = run BY <1>16
<1> HIDE DEF batch, packed, run, sampled, graph
<1>17. ASSUME ~failed
       PROVE  /\ batch.rows = run.rows /\ batch.tables = run.tables
              /\ \A k \in DOMAIN sampled : batch.logits[k] = run.logits[k]
              /\ graph => SizedTo(batch.logits, n)
  <2>1. CASE replay BY <2>1, <1>15, <1>17
  <2>2. CASE ~replay BY <2>2, <1>14, <1>16
  <2> QED BY <2>1, <2>2
<1>18. graph => ~all \/ ~failed
  <2>1. HAVE graph
  <2>2. SUFFICES ASSUME all PROVE ~failed OBVIOUS
  <2>3. SizedTo(run.logits, n) BY <2>1, <2>2, <1>12 DEF PaddedOwn, sampled
  <2>4. replay => Copies(static[n], run)
    <3>1. HAVE replay
    <3>2. Len(static[n].logits) = n BY <3>1, <1>4 DEF GraphsSized, SizedTo
    <3> QED BY <3>2, <2>3 DEF Copies, SizedTo
  <2>5. ~replay => Takes(batch) BY <1>12, <1>13, <1>16 DEF BatchFeeds, Takes
  <2> QED BY <2>1, <2>2, <2>4, <2>5, <1>11
<1>19. ~graph => ~failed
  <2>1. HAVE ~graph
  <2>2. Takes(batch) BY <2>1, <1>12, <1>13, <1>16 DEF BatchFeeds, Takes
  <2> QED BY <2>1, <2>2
<1>20. MaxBatchedTokens > MaxActive /\ ChunkTokens > 1 /\ graph => all BY <1>5 DEF PlanFeeds, graph
<1> HIDE DEF all
<1>21. NotYetWarm' BY DEF NotYetWarm
<1>22. TablesOwn'
  <2>1. BlocksOwn(freeList', tables') BY <1>1, <1>8 DEF free2, ts
  <2> QED BY <2>1, TablesNext
<1>23. ASSUME fed' \in [Sequents -> Nat], known' \in [Sequents -> Nat] PROVE SequentTypes'
  BY <1>23 DEF ForwardInv, SequentTypes
<1>24. unsampled' => kernel' = "graphs" /\ (MaxBatchedTokens <= MaxActive \/ ChunkTokens = 1)
  <2>1. HAVE unsampled'
  <2>2. kernel = "graphs" BY <2>1, <1>2 DEF graph
  <2>3. ~(MaxBatchedTokens > MaxActive /\ ChunkTokens > 1) BY <2>1, <1>2, <1>20
  <2> QED BY <2>2, <2>3, ForwardAssumption
<1>25. CASE failed
  <2> HIDE DEF failed
  <2>1. mismatch' = TRUE /\ attended' = << >> /\ UNCHANGED <<fed, known, pool, static>> BY <1>3, <1>25
  <2>2. unsampled' BY <1>2, <1>18, <1>19, <1>25
  <2>3. SequentTypes' BY <2>1, <1>4, <1>23
  <2>4. GraphsSized' BY <2>1, <1>4 DEF GraphsSized
  <2>5. PoolOwn'
    <3>1. FedOwn(pool, ts, fed)
      <4> SUFFICES ASSUME NEW r \in Sequents, NEW p \in 0..fed[r] - 1
                   PROVE  Covers(ts[r], p) /\ pool[BlockOf(ts[r], p)][p % BlockTokens] = <<r, p>>
        BY DEF FedOwn
      <4>1. Covers(tables[r], p) /\ pool[BlockOf(tables[r], p)][p % BlockTokens] = <<r, p>> BY <1>4 DEF FedOwn
      <4>2. Covers(ts[r], p) /\ BlockOf(ts[r], p) = BlockOf(tables[r], p) BY <4>1, <1>9, LongerKeeps
      <4> QED BY <4>1, <4>2
    <3>2. FedOwn(pool', tables', fed') BY <3>1, <2>1, <1>1
    <3> QED BY <3>2, PoolNext
  <2>6. AttendsOwn' BY <2>1, <2>2, <1>24 DEF AttendsOwn
  <2> QED BY <2>3, <2>4, <2>5, <2>6, <1>21, <1>22 DEF ForwardInv
<1>26. CASE ~failed
  <2>1. /\ pool' = after
        /\ static' = IF graph THEN [m \in DOMAIN static \cup {n} |-> IF m = n THEN batch ELSE static[m]] ELSE static
        /\ attended' = [r \in ToSet(sampled) |-> IF kernel = "torch" THEN torch(at(r)) ELSE triton(at(r))]
        /\ fed' = to
        /\ known' = [r \in Sequents |-> IF r \in ToSet(sampled) THEN known[r] + 1 ELSE known[r]]
        /\ mismatch' = FALSE
    BY <1>3, <1>26
  <2>2. /\ batch.rows = run.rows /\ batch.tables = run.tables
        /\ \A k \in DOMAIN sampled : batch.logits[k] = run.logits[k]
        /\ graph => SizedTo(batch.logits, n)
    BY <1>17, <1>26
  <2> HIDE DEF failed
  <2>3. \A r \in Sequents : Held(after, ts[r], r, to[r])
    <3>1. /\ RowsOwn(batch.rows, ts)
          /\ \A i \in 1..Len(items) : \A p \in items[i].start..items[i].end - 1 :
                Fed(batch.rows, items[i].req, p)
      BY <2>2, <1>12 DEF BatchFeeds
    <3> QED BY <3>1, <1>8, <1>9, HeldAfter
  <2> HIDE DEF after, n
  <2>4. to \in [Sequents -> Nat] BY <1>4, FedToIs
  <2>5. SequentTypes'
    <3>1. known' \in [Sequents -> Nat] BY <2>1, <1>4
    <3> QED BY <3>1, <2>1, <2>4, <1>23
  <2>6. GraphsSized'
    <3>1. DOMAIN static \subseteq DOMAIN static' /\ \A m \in DOMAIN static' : SizedTo(static'[m].logits, m)
      <4>1. CASE graph
        <5>1. static' = [m \in DOMAIN static \cup {n} |-> IF m = n THEN batch ELSE static[m]] BY <4>1, <2>1
        <5>2. SizedTo(batch.logits, n) BY <4>1, <2>2
        <5> QED BY <5>1, <5>2, <1>4 DEF GraphsSized
      <4>2. CASE ~graph BY <4>2, <2>1, <1>4 DEF GraphsSized
      <4> QED BY <4>1, <4>2
    <3> QED BY <3>1, <1>4 DEF GraphsSized
  <2>7. PoolOwn'
    <3>1. FedOwn(after, ts, to) BY <2>3 DEF FedOwn, Held
    <3>2. FedOwn(pool', tables', fed') BY <3>1, <1>1, <2>1
    <3> QED BY <3>2, PoolNext
  <2>8. ASSUME ~unsampled' \/ ChunkTokens > 1, NEW r \in ToSet(sampled)
        PROVE  attended'[r] = OwnUpto(r, to[r])
    <3>1. Answered(batch, sampled, items, ts)
      <4>1. Answered(run, sampled, items, ts) BY <1>2, <1>12, <2>8
      <4> QED BY <4>1, <2>2 DEF Answered, Answers
    <3>2. at(r) \in DOMAIN sampled /\ sampled[at(r)] = r
      <4>1. \E k \in DOMAIN sampled : sampled[k] = r BY <2>8 DEF ToSet
      <4> QED BY <4>1
    <3>3. attended'[r] = IF kernel = "torch" THEN torch(at(r)) ELSE triton(at(r))
      <4> HIDE DEF torch, triton, at
      <4> QED BY <2>1, <2>8
    <3> DEFINE k == at(r)
    <3> HIDE DEF at
    <3>4. k \in DOMAIN sampled /\ r = sampled[k] BY <3>2
    <3> HIDE DEF k
    <3>5. /\ ReferenceReads(after, ts[r], to[r]) = OwnUpto(r, to[r])
          /\ KernelReads(after, batch, batch.logits[k]) = OwnUpto(r, to[r])
      <4>1. \A q \in Sequents : Held(after, ts[q], q, FedTo(items)[q]) BY <2>3
      <4>2. SequentTypes /\ BlocksOwn(free2, ts) BY <1>4, <1>8
      <4> QED BY <3>1, <3>4, <4>1, <4>2, SampledReads
    <3> HIDE DEF to
    <3>6. torch(k) = OwnUpto(r, to[r]) /\ triton(k) = OwnUpto(r, to[r]) BY <3>4, <3>5
    <3> HIDE DEF torch, triton
    <3> QED BY <3>3, <3>6 DEF k
  <2>9. AttendsOwn'
    <3>1. DOMAIN attended' = ToSet(sampled) /\ fed' = to /\ ~mismatch' BY <2>1
    <3> HIDE DEF to
    <3>2. ~unsampled' \/ ChunkTokens > 1
             => \A r \in DOMAIN attended' : attended'[r] = [p \in 0..fed'[r] - 1 |-> <<r, p>>]
      BY <2>8, <3>1 DEF OwnUpto
    <3> QED BY <3>1, <3>2, <1>24 DEF AttendsOwn
  <2> QED BY <2>5, <2>6, <2>7, <2>9, <1>21, <1>22 DEF ForwardInv
<1> QED BY <1>25, <1>26

\* Empty tables have no block twice.
LEMMA EmptyOwn ==
    ASSUME NEW fr, fr \in Seq(Pool), NoneTwice(fr), NEW ts, DOMAIN ts = Sequents,
           \A r \in Sequents : ts[r] = << >>
    PROVE  BlocksOwn(fr, ts)
<1>1. << >> \in Seq(Pool) /\ \A j : j \notin DOMAIN << >> OBVIOUS
<1> QED BY <1>1 DEF BlocksOwn

\* Nothing is cached yet, and no block is taken.
LEMMA ForwardStart == ASSUME ForwardInit PROVE ForwardInv
<1>1. /\ warm = FALSE /\ freeList = [i \in 1..PoolBlocks |-> i - 1] /\ sequents = << >>
      /\ tables = [r \in Sequents |-> << >>] /\ fed = [r \in Sequents |-> 0]
      /\ known = [r \in Sequents |-> PromptTokens] /\ static = << >> /\ attended = << >>
      /\ mismatch = FALSE /\ unsampled = FALSE
  BY DEF ForwardInit
<1>2. PoolBlocks \in Nat /\ PromptTokens \in Nat /\ MaxActive \in Nat BY ForwardAssumption
<1>3. SequentTypes
  <2>1. << >> \in Seq(Sequents) /\ NoneTwice(<< >>) /\ Len(<< >>) = 0 BY DEF NoneTwice
  <2>2. fed \in [Sequents -> Nat] /\ known \in [Sequents -> Nat] /\ warm \in BOOLEAN BY <1>1, <1>2
  <2>3. 0 <= MaxActive BY <1>2
  <2> QED BY <1>1, <2>1, <2>2, <2>3 DEF SequentTypes
<1>4. NotYetWarm BY <1>1 DEF NotYetWarm
<1>5. GraphsSized BY <1>1 DEF GraphsSized
<1>6. TablesOwn
  <2>1. freeList \in Seq(Pool) /\ DOMAIN freeList = 1..PoolBlocks BY <1>1, <1>2 DEF Pool
  <2>2. NoneTwice(freeList) BY <1>1, <1>2 DEF NoneTwice
  <2>3. \A r \in Sequents : tables[r] = << >> BY <1>1
  <2>4. DOMAIN tables = Sequents BY <1>1
  <2> QED BY <2>1, <2>2, <2>3, <2>4, EmptyOwn DEF TablesOwn
<1>7. PoolOwn
  <2>1. \A r \in Sequents : fed[r] = 0 BY <1>1
  <2>2. \A r \in Sequents : \A p : p \notin 0..fed[r] - 1 BY <2>1
  <2> QED BY <2>2 DEF PoolOwn, FedOwn
<1>8. AttendsOwn BY <1>1 DEF AttendsOwn
<1> QED BY <1>3, <1>4, <1>5, <1>6, <1>7, <1>8 DEF ForwardInv

\* The graphs are captured with blocks that were free, and are free afterwards.
LEMMA WarmGraphsKeeps == ASSUME ForwardInv, WarmGraphs PROVE ForwardInv'
<1> DEFINE M == Max(WarmSizes)
           keep == SubSeq(freeList, 1, PoolBlocks - M)
           back == [i \in 1..M |-> WarmTables[i][1]]
<1>1. /\ ~warm /\ warm' = TRUE
      /\ UNCHANGED <<kernel, sequents, tables, fed, known, attended, mismatch, unsampled>>
      /\ \/ /\ static' = [n \in WarmSizes |-> Packed(WarmItems(n), WarmTables)]
            /\ freeList' = keep \o back
            /\ M <= PoolBlocks
         \/ kernel # "graphs" /\ UNCHANGED <<static, freeList>>
  BY DEF WarmGraphs
<1>2. SequentTypes /\ NotYetWarm /\ GraphsSized /\ TablesOwn /\ AttendsOwn BY DEF ForwardInv
<1>3. /\ freeList = [i \in 1..PoolBlocks |-> i - 1] /\ \A r \in Sequents : tables[r] = << >> /\ fed[r] = 0
  BY <1>1, <1>2 DEF NotYetWarm
<1>4. PoolBlocks \in Nat /\ MaxActive \in Nat \ {0} BY ForwardAssumption
<1>5. WarmSizes \subseteq 1..MaxActive /\ M \in WarmSizes BY WarmSizesAre
<1> HIDE DEF M
<1>6. M \in Nat BY <1>4, <1>5
<1>7. freeList \in Seq(Pool) /\ NoneTwice(freeList) BY <1>2 DEF TablesOwn, BlocksOwn
<1>8. Len(freeList) = PoolBlocks BY <1>3, <1>4
<1>9. back = [j \in 1..M |-> freeList[PoolBlocks + 1 - j]]
  <2>1. \A i \in 1..M : WarmTables[i] = <<freeList[PoolBlocks + 1 - i]>> BY DEF WarmTables, M
  <2>2. \A i \in 1..M : WarmTables[i][1] = freeList[PoolBlocks + 1 - i] BY <2>1
  <2> QED BY <2>2
<1>10. freeList' \in Seq(Pool) /\ NoneTwice(freeList')
  <2>1. CASE M <= PoolBlocks /\ freeList' = keep \o back
    <3>1. M \in 0..Len(freeList) BY <2>1, <1>6, <1>8
    <3>2. Topped(Pool, freeList, M, back, keep) BY <3>1, <1>7, <1>8, <1>9, TakenAre
    <3> HIDE DEF back, keep
    <3>3. /\ back \in Seq(Pool) /\ keep \in Seq(Pool) /\ NoneTwice(back) /\ NoneTwice(keep)
          /\ \A i \in DOMAIN keep, j \in DOMAIN back : keep[i] # back[j]
      BY <3>2 DEF Topped
    <3>4. keep \o back \in Seq(Pool) /\ NoneTwice(keep \o back) BY <3>3, JoinApart
    <3> QED BY <2>1, <3>4
  <2>2. CASE freeList' = freeList BY <2>2, <1>7
  <2> HIDE DEF back, keep
  <2> QED BY <2>1, <2>2, <1>1
<1> HIDE DEF back, keep
<1>11. SequentTypes' BY <1>1, <1>2 DEF SequentTypes
<1>12. NotYetWarm' BY <1>1 DEF NotYetWarm
<1>13. GraphsSized'
  <2>1. CASE static' = [n \in WarmSizes |-> Packed(WarmItems(n), WarmTables)]
    <3>1. ASSUME NEW n \in WarmSizes PROVE SizedTo(Packed(WarmItems(n), WarmTables).logits, n)
      <4> DEFINE items == WarmItems(n)
      <4>1. n \in Nat BY <1>4, <1>5
      <4>2. Len(items) = n /\ \A i \in 1..n : items[i].sample = TRUE BY <4>1 DEF WarmItems
      <4> HIDE DEF items
      <4>3. SizedTo(Packed(items, WarmTables).logits, n) BY <4>1, <4>2, PackedSized
      <4> QED BY <4>3 DEF items
    <3>2. DOMAIN static' = WarmSizes /\ \A n \in WarmSizes : static'[n] = Packed(WarmItems(n), WarmTables)
      BY <2>1
    <3>3. \A n \in DOMAIN static' : SizedTo(static'[n].logits, n) BY <3>1, <3>2
    <3> QED BY <3>2, <3>3 DEF GraphsSized
  <2>2. CASE kernel # "graphs" /\ static' = static BY <2>2, <1>1, <1>2 DEF GraphsSized
  <2> QED BY <1>1, <2>1, <2>2
<1>14. TablesOwn'
  <2>1. DOMAIN tables = Sequents BY <1>2 DEF TablesOwn, BlocksOwn
  <2>2. DOMAIN tables' = Sequents /\ \A r \in Sequents : tables'[r] = << >> BY <1>1, <1>3, <2>1
  <2>3. BlocksOwn(freeList', tables') BY <1>10, <2>2, EmptyOwn
  <2> QED BY <2>3, TablesNext
<1>15. PoolOwn'
  <2>1. 0..0 - 1 = {} OBVIOUS
  <2>2. FedOwn(pool', tables', fed') BY <1>1, <1>3, <2>1 DEF FedOwn
  <2> QED BY <2>2, PoolNext
<1>16. AttendsOwn' BY <1>1, <1>2 DEF AttendsOwn
<1> QED BY <1>11, <1>12, <1>13, <1>14, <1>15, <1>16 DEF ForwardInv

LEMMA EnterKeeps == ASSUME ForwardInv, NEW r \in Sequents, Enter(r) PROVE ForwardInv'
<1>1. /\ warm /\ r \notin ToSet(sequents) /\ Len(sequents) < MaxActive /\ sequents' = Append(sequents, r)
      /\ attended' = << >>
      /\ UNCHANGED <<kernel, warm, freeList, tables, fed, known, pool, static, mismatch, unsampled>>
  BY DEF Enter
<1>2. SequentTypes /\ GraphsSized /\ TablesOwn /\ PoolOwn /\ AttendsOwn BY DEF ForwardInv
<1>3. SequentTypes'
  <2> DEFINE N == Len(sequents)
             s == Append(sequents, r)
  <2>1. sequents \in Seq(Sequents) /\ NoneTwice(sequents) /\ N \in Nat /\ DOMAIN sequents = 1..N
    BY <1>2 DEF SequentTypes
  <2>2. /\ s \in Seq(Sequents) /\ Len(s) = N + 1 /\ DOMAIN s = 1..N + 1 /\ s[N + 1] = r
        /\ \A i \in 1..N : s[i] = sequents[i]
    BY <2>1
  <2>3. \A i \in 1..N : sequents[i] # r BY <1>1, <2>1 DEF ToSet
  <2> HIDE DEF s, N
  <2>4. \A i \in 1..N + 1 : i \in 1..N \/ i = N + 1 BY <2>1
  <2>5. NoneTwice(s)
    <3> SUFFICES ASSUME NEW i \in 1..N + 1, NEW j \in 1..N + 1, s[i] = s[j] PROVE i = j
      BY <2>2 DEF NoneTwice
    <3>1. CASE i \in 1..N /\ j \in 1..N BY <3>1, <2>1, <2>2 DEF NoneTwice
    <3>2. CASE i = N + 1 \/ j = N + 1 BY <3>2, <2>2, <2>3, <2>4
    <3> QED BY <3>1, <3>2, <2>4
  <2>6. Len(s) <= MaxActive
    <3>1. N < MaxActive /\ MaxActive \in Nat BY <1>1, ForwardAssumption DEF N
    <3> QED BY <3>1, <2>1, <2>2
  <2>7. sequents' = s BY <1>1 DEF s
  <2> QED BY <2>2, <2>5, <2>6, <2>7, <1>1, <1>2 DEF SequentTypes
<1>4. NotYetWarm' BY <1>1 DEF NotYetWarm
<1>5. GraphsSized' BY <1>1, <1>2 DEF GraphsSized
<1>6. TablesOwn' BY <1>1, <1>2 DEF TablesOwn, BlocksOwn
<1>7. PoolOwn' BY <1>1, <1>2 DEF PoolOwn, FedOwn
<1>8. AttendsOwn' BY <1>1, <1>2 DEF AttendsOwn
<1> QED BY <1>3, <1>4, <1>5, <1>6, <1>7, <1>8 DEF ForwardInv

\* A list without one of its elements, of which there was one.
LEMMA WithoutOne ==
    ASSUME NEW P, NEW s \in Seq(P), NoneTwice(s), NEW k \in DOMAIN s
    PROVE  RemoveAt(s, k) \in Seq(P) /\ NoneTwice(RemoveAt(s, k)) /\ Len(RemoveAt(s, k)) = Len(s) - 1
<1> DEFINE N == Len(s)
           a == SubSeq(s, 1, k - 1)
           z == SubSeq(s, k + 1, N)
           rest == RemoveAt(s, k)
<1>1. N \in Nat /\ k \in 1..N /\ DOMAIN s = 1..N /\ \A i \in 1..N : s[i] \in P OBVIOUS
<1>2. a = [i \in 1..k - 1 |-> s[i]] /\ z = [i \in 1..N - k |-> s[k + i]]
  <2>1. a = [i \in 1..k - 1 |-> s[i]] BY <1>1
  <2>2. z = [i \in 1..N - k |-> s[k + i]] BY <1>1
  <2> QED BY <2>1, <2>2
<1>3. rest = a \o z BY DEF RemoveAt
<1> HIDE DEF a, z, rest, N
<1>4. \A i \in 1..k - 1 : i \in 1..N BY <1>1
<1>5. \A i \in 1..N - k : k + i \in 1..N /\ k + i > k BY <1>1
<1>6. a \in Seq(P) /\ Len(a) = k - 1 /\ DOMAIN a = 1..k - 1
  <2>1. k - 1 \in Nat BY <1>1
  <2>2. \A i \in 1..k - 1 : s[i] \in P BY <1>1, <1>4
  <2> QED BY <2>1, <2>2, <1>2
<1>7. z \in Seq(P) /\ Len(z) = N - k /\ DOMAIN z = 1..N - k
  <2>1. N - k \in Nat BY <1>1
  <2>2. \A i \in 1..N - k : s[k + i] \in P BY <1>1, <1>5
  <2> QED BY <2>1, <2>2, <1>2
<1>8. NoneTwice(a) BY <1>1, <1>2, <1>4, <1>6 DEF NoneTwice
<1>9. NoneTwice(z)
  <2> SUFFICES ASSUME NEW i \in 1..N - k, NEW j \in 1..N - k, z[i] = z[j] PROVE i = j BY <1>7 DEF NoneTwice
  <2>1. s[k + i] = s[k + j] BY <1>2
  <2>2. k + i = k + j BY <2>1, <1>1, <1>5 DEF NoneTwice
  <2> QED BY <2>2, <1>1
<1>10. ASSUME NEW i \in DOMAIN a, NEW j \in DOMAIN z PROVE a[i] # z[j]
  <2>1. SUFFICES ASSUME s[i] = s[k + j] PROVE FALSE BY <1>2, <1>6, <1>7
  <2>2. i \in 1..k - 1 /\ j \in 1..N - k BY <1>6, <1>7
  <2>3. i = k + j BY <2>1, <2>2, <1>1, <1>4, <1>5 DEF NoneTwice
  <2> QED BY <2>2, <2>3, <1>1
<1>11. a \o z \in Seq(P) /\ NoneTwice(a \o z) BY <1>6, <1>7, <1>8, <1>9, <1>10, JoinApart
<1>12. Len(a \o z) = N - 1
  <2>1. Len(a \o z) = Len(a) + Len(z) BY <1>6, <1>7, ConcatProperties
  <2> QED BY <2>1, <1>1, <1>6, <1>7
<1> QED BY <1>3, <1>11, <1>12 DEF rest, N

LEMMA LeaveKeeps == ASSUME ForwardInv, NEW r \in Sequents, Leave(r) PROVE ForwardInv'
<1>1. /\ r \in ToSet(sequents) /\ attended' = << >>
      /\ sequents' = RemoveAt(sequents, Place(r))
      /\ freeList' = freeList \o tables[r] /\ tables' = [tables EXCEPT ![r] = << >>]
      /\ fed' = [fed EXCEPT ![r] = 0]
      /\ known' \in {known, [known EXCEPT ![r] = PromptTokens]}
      /\ UNCHANGED <<kernel, warm, pool, static, mismatch, unsampled>>
  BY DEF Leave
<1>2. SequentTypes /\ NotYetWarm /\ GraphsSized /\ TablesOwn /\ PoolOwn /\ AttendsOwn BY DEF ForwardInv
<1>3. BlocksOwn(freeList, tables) BY <1>2 DEF TablesOwn
<1>4. warm
  <2>1. sequents # << >> BY <1>1 DEF ToSet
  <2> QED BY <2>1, <1>2 DEF NotYetWarm
<1>5. /\ DOMAIN tables' = Sequents /\ tables'[r] = << >>
      /\ \A q \in Sequents \ {r} : tables'[q] = tables[q]
  BY <1>1, <1>3 DEF BlocksOwn
<1>6. fed \in [Sequents -> Nat] /\ known \in [Sequents -> Nat] /\ PromptTokens \in Nat
  BY <1>2, ForwardAssumption DEF SequentTypes
<1>7. fed'[r] = 0 /\ \A q \in Sequents \ {r} : fed'[q] = fed[q] BY <1>1, <1>6
<1>8. SequentTypes'
  <2> DEFINE s == RemoveAt(sequents, Place(r))
  <2>1. Place(r) \in DOMAIN sequents BY <1>1, <1>2, PlaceIs
  <2>2. sequents \in Seq(Sequents) /\ NoneTwice(sequents) /\ Len(sequents) <= MaxActive /\ warm \in BOOLEAN
    BY <1>2 DEF SequentTypes
  <2>3. s \in Seq(Sequents) /\ NoneTwice(s) /\ Len(s) = Len(sequents) - 1 BY <2>1, <2>2, WithoutOne
  <2> HIDE DEF s
  <2>4. Len(s) <= MaxActive
    <3>1. Len(sequents) \in Nat /\ MaxActive \in Nat BY <2>2, ForwardAssumption
    <3> QED BY <3>1, <2>2, <2>3
  <2>5. sequents' = s BY <1>1 DEF s
  <2>6. fed' \in [Sequents -> Nat] /\ known' \in [Sequents -> Nat] BY <1>1, <1>6
  <2> QED BY <2>2, <2>3, <2>4, <2>5, <2>6, <1>1 DEF SequentTypes
<1>9. NotYetWarm' BY <1>1, <1>4 DEF NotYetWarm
<1>10. GraphsSized' BY <1>1, <1>2 DEF GraphsSized
<1>11. TablesOwn'
  <2> DEFINE t == tables[r]
             f == freeList \o t
  <2>1. freeList \in Seq(Pool) /\ t \in Seq(Pool) /\ NoneTwice(freeList) BY <1>3 DEF BlocksOwn
  <2>2. NoneTwice(t) /\ \A i \in DOMAIN freeList, j \in DOMAIN t : freeList[i] # t[j]
    BY <1>3 DEF BlocksOwn, NoneTwice
  <2> HIDE DEF t
  <2>3. /\ f \in Seq(Pool) /\ NoneTwice(f)
        /\ \A k \in DOMAIN f : (k \in DOMAIN freeList /\ f[k] = freeList[k]) \/ \E j \in DOMAIN t : f[k] = t[j]
    BY <2>1, <2>2, JoinApart
  <2> HIDE DEF f
  <2>4. ASSUME NEW q \in Sequents, NEW j \in DOMAIN tables'[q], NEW k \in DOMAIN f, tables'[q][j] = f[k] PROVE FALSE
    <3>1. q # r /\ tables'[q] = tables[q]
      <4>1. DOMAIN << >> = {} OBVIOUS
      <4> QED BY <4>1, <2>4, <1>5
    <3>2. CASE k \in DOMAIN freeList /\ f[k] = freeList[k] BY <3>1, <3>2, <2>4, <1>3 DEF BlocksOwn
    <3>3. CASE \E i \in DOMAIN t : f[k] = t[i]
      <4>1. PICK i \in DOMAIN t : f[k] = t[i] BY <3>3
      <4>2. tables[q][j] = tables[r][i] /\ j \in DOMAIN tables[q] /\ i \in DOMAIN tables[r] BY <4>1, <3>1, <2>4 DEF t
      <4> QED BY <4>2, <3>1, <1>3 DEF BlocksOwn
    <3> QED BY <3>2, <3>3, <2>3
  <2>5. ASSUME NEW o \in Sequents, NEW q \in Sequents, NEW i \in DOMAIN tables'[o], NEW j \in DOMAIN tables'[q],
               tables'[o][i] = tables'[q][j]
        PROVE  o = q /\ i = j
    <3>1. DOMAIN << >> = {} OBVIOUS
    <3>2. o # r /\ q # r BY <3>1, <2>5, <1>5
    <3>3. tables'[o] = tables[o] /\ tables'[q] = tables[q] BY <3>2, <1>5
    <3> QED BY <3>3, <2>5, <1>3 DEF BlocksOwn
  <2>6. \A q \in Sequents : tables'[q] \in Seq(Pool)
    <3>1. << >> \in Seq(Pool) OBVIOUS
    <3> QED BY <3>1, <1>3, <1>5 DEF BlocksOwn
  <2>7. freeList' = f BY <1>1 DEF f, t
  <2>8. BlocksOwn(freeList', tables') BY <2>3, <2>4, <2>5, <2>6, <2>7, <1>5 DEF BlocksOwn
  <2> QED BY <2>8, TablesNext
<1>12. PoolOwn'
  <2>1. FedOwn(pool, tables, fed) BY <1>2 DEF PoolOwn
  <2>2. ASSUME NEW q \in Sequents, NEW p \in 0..fed'[q] - 1
        PROVE  Covers(tables'[q], p) /\ pool'[BlockOf(tables'[q], p)][p % BlockTokens] = <<q, p>>
    <3>1. q # r BY <2>2, <1>7
    <3>2. tables'[q] = tables[q] /\ fed'[q] = fed[q] /\ pool' = pool BY <3>1, <1>1, <1>5, <1>7
    <3> QED BY <3>2, <2>1, <2>2 DEF FedOwn
  <2>3. FedOwn(pool', tables', fed') BY <2>2 DEF FedOwn
  <2> QED BY <2>3, PoolNext
<1>13. AttendsOwn' BY <1>1, <1>2 DEF AttendsOwn
<1> QED BY <1>8, <1>9, <1>10, <1>11, <1>12, <1>13 DEF ForwardInv

LEMMA ExecuteBatchKeeps == ASSUME ForwardInv, ExecuteBatch PROVE ForwardInv'
<1>1. PICK eligible \in SUBSET {r \in ToSet(sequents) : fed[r] < known[r] /\ known[r] <= Longest} :
         \E order \in Orders(eligible) : Execute(Plan(order))
  BY DEF ExecuteBatch
<1>2. PICK order \in Orders(eligible) : Execute(Plan(order)) BY <1>1
<1>3. warm /\ UNCHANGED <<kernel, warm, sequents>> BY DEF ExecuteBatch
<1>4. SequentTypes BY DEF ForwardInv
<1>5. eligible \subseteq ToSet(sequents) /\ CanFeed(eligible)
  <2>1. ToSet(sequents) \subseteq Sequents
    <3>1. sequents \in Seq(Sequents) BY <1>4 DEF SequentTypes
    <3> QED BY <3>1 DEF ToSet
  <2> QED BY <2>1 DEF CanFeed
<1>6. PlanFeeds(Plan(order)) BY <1>4, <1>5, PlanDecodes
<1> QED BY <1>2, <1>3, <1>6, ExecuteKeeps

LEMMA ForwardKeeps == ASSUME ForwardInv, [ForwardNext]_forwardVars PROVE ForwardInv'
<1>1. CASE WarmGraphs BY <1>1, WarmGraphsKeeps
<1>2. CASE ExecuteBatch BY <1>2, ExecuteBatchKeeps
<1>3. ASSUME NEW r \in Sequents, Enter(r) PROVE ForwardInv' BY <1>3, EnterKeeps
<1>4. ASSUME NEW r \in Sequents, Leave(r) PROVE ForwardInv' BY <1>4, LeaveKeeps
<1>5. CASE UNCHANGED forwardVars
  <2>1. UNCHANGED <<kernel, warm, freeList, sequents, tables, fed, known, pool, static, attended,
                    mismatch, unsampled>>
    BY <1>5 DEF forwardVars
  <2>2. SequentTypes' /\ NotYetWarm' /\ GraphsSized' /\ AttendsOwn'
    BY <2>1 DEF ForwardInv, SequentTypes, NotYetWarm, GraphsSized, AttendsOwn
  <2>3. TablesOwn' BY <2>1 DEF ForwardInv, TablesOwn, BlocksOwn
  <2>4. PoolOwn' BY <2>1 DEF ForwardInv, PoolOwn, FedOwn
  <2> QED BY <2>2, <2>3, <2>4 DEF ForwardInv
<1> QED BY <1>1, <1>2, <1>3, <1>4, <1>5 DEF ForwardNext, ForwardsSpent

-------------------------------------------------------------------------------
(* The worker.                                                                         *)

\* The steps of the three views.
ThreadSteps == [ThreadsNext]_threadsVars
ForwardSteps == [ForwardNext]_forwardVars
SerialSteps == [SerialNext]_serialVars

\* A step of one view is a stutter of the others.
LEMMA ViewsApart == ASSUME [Next]_vars PROVE ThreadSteps /\ ForwardSteps /\ SerialSteps
BY DEF Next, vars, ThreadsStep, ForwardStep, SerialStep, ThreadSteps, ForwardSteps, SerialSteps

\* The invariant of the threads, for the two theorems below.
LEMMA ThreadsHold == Spec => []ThreadsInv
<1>1. Init => ThreadsInv BY ThreadsStart DEF Init
<1>2. ThreadsInv /\ [Next]_vars => ThreadsInv' BY ViewsApart, ThreadsKeep DEF ThreadSteps
<1> QED BY <1>1, <1>2, PTL DEF Spec

(* For any requests, blocks and plans, and wherever one thread is when the other goes  *)
(* on: no block is in two places (cache.py:85 "a physical block has zero or one        *)
(* owner").                                                                            *)
THEOREM BlocksAreExclusive == Spec => []Exclusive
<1>1. ThreadsInv => Exclusive BY ThreadsExclusive
<1> QED BY <1>1, ThreadsHold, PTL

(* However the growth of a plan ended and whatever was released meanwhile, a request   *)
(* owns the blocks of its table and no others (cache.py:240-242).                      *)
THEOREM GrowthIsWhole == Spec => []GrowthWhole
<1>1. ThreadsInv => GrowthWhole BY ThreadsWhole
<1> QED BY <1>1, ThreadsHold, PTL

\* The invariant of the serial modes.
LEMMA ServingHolds == Spec => []ServingInv
<1>1. Init => ServingInv BY ServingStart DEF Init
<1>2. ServingInv /\ [Next]_vars => ServingInv' BY ViewsApart, ServingKeep DEF SerialSteps
<1> QED BY <1>1, <1>2, PTL DEF Spec

(* For any prompts, limits, pages and requests, in each serial mode: every query has   *)
(* attended to its own history up to its position, in order and in its own rotation,   *)
(* and no position lay beyond what was reserved (cache.py ContiguousKVCache and        *)
(* PagedKVCache, engine.py NaiveRunner and CachedRunner).                              *)
THEOREM StepsAttendOwn == Spec => []StepAttendsOwn
<1>1. ServingInv => StepAttendsOwn BY ServingOwn
<1> QED BY <1>1, ServingHolds, PTL

\* The invariant of the ragged forward pass.
LEMMA ForwardHolds == Spec => []ForwardInv
<1>1. Init => ForwardInv BY ForwardStart DEF Init
<1>2. ForwardInv /\ [Next]_vars => ForwardInv' BY ViewsApart, ForwardKeeps DEF ForwardSteps
<1> QED BY <1>1, <1>2, PTL DEF Spec

(* For any requests, blocks, budget and chunk that validate_config accepts, with each  *)
(* kernel: the logits a token is chosen from have attended to every position of the    *)
(* request, each once, and to nothing else, through chunks, padding, replays of a      *)
(* captured graph, blocks used anew and recomputation; and no tensor is of a shape     *)
(* that a graph or the kernel refuses (engine.py RaggedRunner, kernel.py).  The one    *)
(* exception is a graph's batch with a decode that is not sampled: it takes a budget   *)
(* not above the active limit, and then only the shapes may not fit, or a chunk of one *)
(* token, and then a row may be read for another request, too.                         *)
THEOREM QueriesAttendOwn == Spec => []AttendsOwn
<1>1. ForwardInv => AttendsOwn BY DEF ForwardInv
<1> QED BY <1>1, ForwardHolds, PTL
================================================================================
