----------------------------- MODULE CacheThreads -----------------------------
(***************************************************************************)
(* The paged cache under its two threads.  The worker grows the tables of  *)
(* a plan (ensure_capacity_batch, cache.py:371-396) while the event loop   *)
(* may release a request that is not in the plan (Scheduler.cancel, then   *)
(* RaggedRunner.release: store_prefix and release, cache.py:326-357,       *)
(* 497-501).  Neither takes a lock.  PagedKVCache has the same operations  *)
(* one at a time, with what the blocks hold; here each is cut where the    *)
(* interpreter may switch threads, between a test and the call it guards.  *)
(*                                                                         *)
(* Taking a block off the free list, giving one back and setting the owner *)
(* of those allocated are single steps.  The free list is a set: nothing   *)
(* here depends on which free block comes first.  Every prompt has a       *)
(* prefix of its own, of one block, and admission, which happens when no   *)
(* plan is executed, is left with an empty table.                          *)
(***************************************************************************)
EXTENDS Naturals, Sequences, FiniteSets, SequencesExt, TLC

CONSTANTS
    Reqs,
    Blocks,
    PrefixMax,   \* prefix_cache_max_blocks
    MaxNeed,     \* bound: blocks by which a plan may grow one table
    MaxFlights   \* bound: plans executed

Cached == "prefix"     \* the owner of every block of a prefix entry (f"prefix-{n}")

(* A request is named "req-<n>" (scheduler.py:245), never as the owner of an entry or  *)
(* as the absence of a request.                                                        *)
ASSUME ThreadsAssumption ==
    /\ PrefixMax \in Nat \ {0} /\ MaxNeed \in Nat /\ MaxFlights \in Nat
    /\ Cached \notin Reqs /\ "none" \notin Reqs

VARIABLES
    free,     \* _free
    owner,    \* _owner, for the blocks that have one
    table,    \* _tables, for the requests that have one
    prefixes, \* _prefixes, oldest first
    computed, \* the requests whose prompt has its K/V
    plan,     \* the worker's plan, in order
    doomed,   \* the requests the event loop must release before it plans again
    leaked,   \* the requests whose release raised
    flights,  \* the plans executed so far
    th,       \* the place and the locals of each thread
    touched   \* what the worker changed since the event loop began to iterate over it

threadsVars ==
    <<free, owner, table, prefixes, computed, plan, doomed, leaked, flights, th, touched>>
pools == <<free, owner>>
requests == <<table, computed, plan, doomed, leaked, flights>>

Threads == {"worker", "loop"}

(* at: the place in the code, and back: the place to go on at; req: the request that   *)
(* is released, or whose entry is evicted; needed: blocks to make room for; giving:    *)
(* blocks being freed; hand: blocks popped and not yet owned; granted: the completed   *)
(* allocations of a plan; cached: store_prefix's count of cached blocks.               *)
AtRest == [at |-> "idle", back |-> "idle", req |-> "none", key |-> "none", needed |-> 0,
           giving |-> {}, hand |-> {}, granted |-> << >>, cached |-> 0]

ThreadsInit ==
    /\ free = Blocks /\ owner = << >> /\ table = << >> /\ prefixes = << >>
    /\ computed = {} /\ plan = << >> /\ doomed = {} /\ leaked = {} /\ flights = 0
    /\ th = [t \in Threads |-> AtRest]
    /\ touched = {}

Idle(t) == th[t].at = "idle"
At(t, place) == th[t].at = place
Planned == {plan[i].req : i \in DOMAIN plan}
Keys == {prefixes[i].key : i \in DOMAIN prefixes}
Entry(k) == CHOOSE i \in DOMAIN prefixes : prefixes[i].key = k
CachedBlocks == FoldLeft(LAMBDA n, e : n + Cardinality(e.blocks), 0, prefixes)
BlocksNeeded(p) == FoldLeft(LAMBDA n, x : n + x.need, 0, p)
OwnedBy(o) == {b \in DOMAIN owner : owner[b] = o}

Goto(t, place) == th' = [th EXCEPT ![t].at = place]
Touch(t, what) == touched' = IF t = "worker" THEN touched \cup {what} ELSE touched

\* Mutant: what was granted before the exception is not given back.
RaiseBare(t, kind) ==
    IF t = "worker"
    THEN th' = [th EXCEPT ![t] = [AtRest EXCEPT !.at = kind]] /\ UNCHANGED leaked
    ELSE th' = [th EXCEPT ![t] = AtRest] /\ leaked' = leaked \cup {th[t].req}

(* An exception: the worker gives back the completed allocations, never the blocks in  *)
(* its hand, and is "failed" or, for CacheCapacityFull, "full"; _finalize swallows what *)
(* a release raises, and the table stays.                                              *)
Raise(t, kind) ==
    IF t = "worker"
    THEN /\ th' = [th EXCEPT ![t] = [AtRest EXCEPT
                      !.at = "give", !.back = kind, !.giving = UNION ToSet(th[t].granted)]]
         /\ UNCHANGED leaked
    ELSE th' = [th EXCEPT ![t] = AtRest] /\ leaked' = leaked \cup {th[t].req}

-----------------------------------------------------------------------------
\* The event loop between two plans.

(* A request is admitted with an empty table (reserve).                                *)
AdmitTable(r) ==
    /\ Idle("worker") /\ Idle("loop") /\ doomed = {}
    /\ r \notin DOMAIN table \cup leaked
    /\ table' = [x \in DOMAIN table \cup {r} |-> IF x = r THEN {} ELSE table[x]]
    /\ UNCHANGED <<pools, prefixes, computed, plan, doomed, leaked, flights, th, touched>>

LaunchPlan ==
    /\ Idle("worker") /\ Idle("loop") /\ doomed = {} /\ flights < MaxFlights
    /\ \E S \in SUBSET (DOMAIN table \ leaked) \ {{}} :
       \E order \in SetToSeqs(S), need \in [S -> 0..MaxNeed] :
          /\ plan' = [i \in DOMAIN order |-> [req |-> order[i], need |-> need[order[i]]]]
          /\ th' = [th EXCEPT !["worker"] = [AtRest EXCEPT
                       !.at = "evict", !.needed = BlocksNeeded(plan')]]
    /\ flights' = flights + 1
    /\ UNCHANGED <<pools, table, prefixes, computed, doomed, leaked, touched>>

(* Back at the event loop: a success, and the prompts computed so far; a failed plan,  *)
(* whose requests are all failed; or no capacity, and a victim, if there is another.   *)
LandPlan ==
    /\ th["worker"].at \in {"grown", "failed", "full"}
    /\ Idle("loop")
    /\ CASE At("worker", "grown") ->
              \/ computed' \in {computed \cup S : S \in SUBSET Planned} /\ UNCHANGED doomed
              \/ doomed' = Planned /\ UNCHANGED computed
         [] At("worker", "failed") -> doomed' = Planned /\ UNCHANGED computed
         [] At("worker", "full") ->
              /\ doomed' \in IF Cardinality(DOMAIN table \ leaked) > 1
                             THEN {{v} : v \in DOMAIN table \ leaked} ELSE {Planned}
              /\ UNCHANGED computed
    /\ th' = [th EXCEPT !["worker"] = AtRest]
    /\ plan' = << >>
    /\ UNCHANGED <<pools, table, prefixes, leaked, flights, touched>>

-----------------------------------------------------------------------------
\* _evict_prefixes, by either thread.

EvictTest(t) ==
    /\ At(t, "evict")
    /\ Goto(t, IF prefixes # << >> /\ Cardinality(free) < th[t].needed THEN "oldest" ELSE "check")
    /\ UNCHANGED <<pools, prefixes, requests, touched>>

\* next(iter(self._prefixes)) raises when the last entry has gone.
EvictOldest(t) ==
    /\ At(t, "oldest")
    /\ IF prefixes = << >> THEN Raise(t, "failed")
       ELSE th' = [th EXCEPT ![t].at = "pop", ![t].key = Head(prefixes).key] /\ UNCHANGED leaked
    /\ UNCHANGED <<pools, table, prefixes, computed, plan, doomed, flights, touched>>

\* self._prefixes.pop(key) raises when that entry has gone.
EvictPop(t) ==
    /\ At(t, "pop")
    /\ IF th[t].key \notin Keys THEN Raise(t, "failed") /\ UNCHANGED <<prefixes, touched>>
       ELSE /\ prefixes' = RemoveAt(prefixes, Entry(th[t].key))
            /\ th' = [th EXCEPT ![t].at = "give", ![t].back = "evict", ![t].key = "none",
                         ![t].giving = prefixes[Entry(th[t].key)].blocks]
            /\ Touch(t, "prefixes") /\ UNCHANGED leaked
    /\ UNCHANGED <<pools, table, computed, plan, doomed, flights>>

\* BlockAllocator.free, a block at a time.
Give(t) ==
    /\ At(t, "give")
    /\ IF th[t].giving = {}
       THEN Goto(t, th[t].back) /\ UNCHANGED <<pools, touched>>
       ELSE \E b \in th[t].giving :
              /\ free' = free \cup {b} /\ owner' = Restrict(owner, DOMAIN owner \ {b})
              /\ th' = [th EXCEPT ![t].giving = @ \ {b}]
              /\ Touch(t, "owner")
    /\ UNCHANGED <<prefixes, requests>>

(* can_satisfy: if not, the worker raises CacheCapacityFull with nothing granted yet,  *)
(* and store_prefix gives up.                                                          *)
Check(t) ==
    /\ At(t, "check")
    /\ Goto(t, IF Cardinality(free) >= th[t].needed THEN "allocate"
               ELSE IF t = "worker" THEN "full" ELSE "scan")
    /\ UNCHANGED <<pools, prefixes, requests, touched>>

-----------------------------------------------------------------------------
\* BlockAllocator.allocate, by either thread.

Turn(t) == Len(th[t].granted) + 1
Want(t) == IF t = "worker" THEN plan[Turn(t)].need ELSE 1
OwnerName(t) == IF t = "worker" THEN plan[Turn(t)].req ELSE Cached

(* Of the plan, one table after the other; those that need nothing are passed over.    *)
Allocate(t) ==
    /\ At(t, "allocate")
    /\ IF t = "worker" /\ Turn(t) > Len(plan)
       THEN Goto(t, "extend") /\ UNCHANGED leaked
       ELSE IF Want(t) > Cardinality(free)
            THEN Raise(t, "full")
            ELSE Goto(t, "take") /\ UNCHANGED leaked
    /\ UNCHANGED <<pools, table, prefixes, computed, plan, doomed, flights, touched>>

\* Mutant: the block is read, and stays on the free list.
Peek(t) ==
    /\ At(t, "take")
    /\ IF Cardinality(th[t].hand) = Want(t)
       THEN Goto(t, "own") /\ UNCHANGED <<free, leaked>>
       ELSE IF free \ th[t].hand = {}
            THEN Raise(t, "failed") /\ UNCHANGED free
            ELSE \E b \in free \ th[t].hand :
                   th' = [th EXCEPT ![t].hand = @ \cup {b}] /\ UNCHANGED <<free, leaked>>
    /\ UNCHANGED <<owner, table, prefixes, computed, plan, doomed, flights, touched>>

\* pop from an empty list raises, and the blocks popped before are nobody's.
Take(t) ==
    /\ At(t, "take")
    /\ IF Cardinality(th[t].hand) = Want(t)
       THEN Goto(t, "own") /\ UNCHANGED <<free, leaked>>
       ELSE IF free = {}
            THEN Raise(t, "failed") /\ UNCHANGED free
            ELSE \E b \in free :
                   /\ free' = free \ {b}
                   /\ th' = [th EXCEPT ![t].hand = @ \cup {b}]
                   /\ UNCHANGED leaked
    /\ UNCHANGED <<owner, table, prefixes, computed, plan, doomed, flights, touched>>

Own(t) ==
    /\ At(t, "own")
    /\ owner' = [b \in DOMAIN owner \cup th[t].hand |->
                   IF b \in th[t].hand THEN OwnerName(t) ELSE owner[b]]
    /\ IF t = "worker"
       THEN th' = [th EXCEPT ![t].at = "allocate", ![t].hand = {},
                      ![t].granted = Append(@, th[t].hand)]
       ELSE Goto(t, "insert")
    /\ IF th[t].hand = {} THEN UNCHANGED touched ELSE Touch(t, "owner")
    /\ UNCHANGED <<free, prefixes, requests>>

(* Every allocation is there: the tables of the plan grow, which only the worker reads.*)
ExtendTables ==
    /\ At("worker", "extend")
    /\ table' = [r \in DOMAIN table |->
          table[r] \cup UNION {th["worker"].granted[i] : i \in {j \in DOMAIN plan : plan[j].req = r}}]
    /\ Goto("worker", "grown")
    /\ UNCHANGED <<pools, prefixes, computed, plan, doomed, leaked, flights, touched>>

-----------------------------------------------------------------------------
\* RaggedRunner.release, by the event loop.

ReleaseBegins(r) ==
    /\ Idle("loop") /\ r \in DOMAIN table \ leaked
    /\ r \notin Planned /\ (doomed # {} => r \in doomed)
    /\ th' = [th EXCEPT !["loop"].at = "lookup", !["loop"].req = r]
    /\ UNCHANGED <<pools, prefixes, requests, touched>>

Releasing == th["loop"].req

StoreLookup ==
    /\ At("loop", "lookup")
    /\ Goto("loop", IF Releasing \in Keys THEN "move"
                    ELSE IF Releasing \in computed THEN "sum" ELSE "scan")
    /\ touched' = {}
    /\ UNCHANGED <<pools, prefixes, requests>>

\* move_to_end raises when the entry has gone.
StoreMove ==
    /\ At("loop", "move")
    /\ IF Releasing \in Keys
       THEN /\ prefixes' = Append(RemoveAt(prefixes, Entry(Releasing)), prefixes[Entry(Releasing)])
            /\ Goto("loop", "scan") /\ UNCHANGED leaked
       ELSE Raise("loop", "failed") /\ UNCHANGED prefixes
    /\ UNCHANGED <<pools, table, computed, plan, doomed, flights, touched>>

\* The sum over the entries may raise when one of them goes meanwhile.
StoreSum ==
    /\ At("loop", "sum")
    /\ \/ "prefixes" \in touched /\ Raise("loop", "failed")
       \/ /\ th' = [th EXCEPT !["loop"].at = "trim", !["loop"].cached = CachedBlocks]
          /\ UNCHANGED leaked
    /\ UNCHANGED <<pools, table, prefixes, computed, plan, doomed, flights, touched>>

StoreTrim ==
    /\ At("loop", "trim")
    /\ th' = IF prefixes # << >> /\ th["loop"].cached + 1 > PrefixMax
             THEN [th EXCEPT !["loop"].at = "popitem"]
             ELSE [th EXCEPT !["loop"].at = "evict", !["loop"].needed = 1, !["loop"].cached = 0]
    /\ UNCHANGED <<pools, prefixes, requests, touched>>

\* popitem raises when the last entry has gone.
StorePopItem ==
    /\ At("loop", "popitem")
    /\ IF prefixes = << >> THEN Raise("loop", "failed") /\ UNCHANGED prefixes
       ELSE /\ prefixes' = Tail(prefixes)
            /\ th' = [th EXCEPT !["loop"].at = "give", !["loop"].back = "trim",
                         !["loop"].giving = Head(prefixes).blocks,
                         !["loop"].cached = @ - Cardinality(Head(prefixes).blocks)]
            /\ UNCHANGED leaked
    /\ UNCHANGED <<pools, table, computed, plan, doomed, flights, touched>>

StoreInsert ==
    /\ At("loop", "insert")
    /\ prefixes' = Append(prefixes, [key |-> Releasing, blocks |-> th["loop"].hand])
    /\ th' = [th EXCEPT !["loop"].at = "scan", !["loop"].hand = {}]
    /\ UNCHANGED <<pools, requests, touched>>

(* free_for: the comprehension over _owner.items() may raise when the worker changes   *)
(* the map meanwhile; the blocks it finds are freed, and then the table goes.          *)
ScanBegins ==
    /\ At("loop", "scan")
    /\ Goto("loop", "scanning") /\ touched' = {}
    /\ UNCHANGED <<pools, prefixes, requests>>

ScanEnds ==
    /\ At("loop", "scanning")
    /\ \/ "owner" \in touched /\ Raise("loop", "failed")
       \/ /\ th' = [th EXCEPT !["loop"].at = "give", !["loop"].back = "drop",
                       !["loop"].giving = OwnedBy(Releasing)]
          /\ UNCHANGED leaked
    /\ touched' = {}
    /\ UNCHANGED <<pools, table, prefixes, computed, plan, doomed, flights>>

DropTable ==
    /\ At("loop", "drop")
    /\ table' = Restrict(table, DOMAIN table \ {Releasing})
    /\ computed' = computed \ {Releasing} /\ doomed' = doomed \ {Releasing}
    /\ th' = [th EXCEPT !["loop"] = AtRest]
    /\ UNCHANGED <<pools, prefixes, plan, leaked, flights, touched>>

-----------------------------------------------------------------------------
(* A bound is reached, or no release has left a request to go on with.                 *)
FlightsSpent ==
    /\ Idle("worker") /\ Idle("loop")
    /\ flights = MaxFlights \/ Reqs \subseteq leaked
    /\ UNCHANGED threadsVars

ThreadsNext ==
    \/ FlightsSpent \/ LaunchPlan \/ LandPlan \/ ExtendTables
    \/ \E r \in Reqs : AdmitTable(r) \/ ReleaseBegins(r)
    \/ \E t \in Threads : EvictTest(t) \/ EvictOldest(t) \/ EvictPop(t) \/ Give(t)
                        \/ Check(t) \/ Allocate(t) \/ Take(t) \/ Own(t)
    \/ StoreLookup \/ StoreMove \/ StoreSum \/ StoreTrim \/ StorePopItem \/ StoreInsert
    \/ ScanBegins \/ ScanEnds \/ DropTable

(* Whatever the two threads do between each other's steps, no block is in two places:  *)
(* free, in the hand of a thread, or owned; and of those owned, no two entries or      *)
(* tables share one (cache.py:85 "a physical block has zero or one owner").            *)
Exclusive ==
    LET hand(t) == IF At(t, "insert") THEN {} ELSE th[t].hand
    IN /\ free \cap DOMAIN owner = {}
       /\ \A t \in Threads : hand(t) \cap (free \cup DOMAIN owner) = {}
       /\ hand("worker") \cap hand("loop") = {}
       /\ \A i, j \in DOMAIN prefixes : prefixes[i].blocks \cap prefixes[j].blocks # {} => i = j
       /\ \A i \in DOMAIN prefixes : prefixes[i].blocks \subseteq OwnedBy(Cached)
       /\ \A r \in DOMAIN table : r # Releasing => table[r] \subseteq OwnedBy(r)

(* "either acquires every required block or changes nothing" (cache.py:240-242): when  *)
(* the worker is back, however its plan ended and whatever was released meanwhile, a   *)
(* request owns the blocks of its table and no others.                                 *)
GrowthWhole ==
    ~Idle("loop") \/ th["worker"].at \notin {"idle", "grown", "failed", "full"} \/
        \A r \in DOMAIN table : OwnedBy(r) = table[r]

(* "free_blocks + allocated_blocks == total_blocks" (cache.py:84), with both threads   *)
(* at rest.                                                                            *)
Conserved == Idle("worker") /\ Idle("loop") => Cardinality(free) + Cardinality(DOMAIN owner) = Cardinality(Blocks)
==============================================================================
