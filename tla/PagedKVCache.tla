---------------------------- MODULE PagedKVCache ----------------------------
(***************************************************************************)
(* The demand-paged KV cache of the ragged engine (cache.py, class         *)
(* PagedKVCache) under its one client, RaggedRunner (engine.py):           *)
(* admission with prefix reuse, transactional growth before a forward,     *)
(* the forward's writes, the commit after it, and release with prefix      *)
(* retention.                                                              *)
(*                                                                         *)
(* All of the cache is one record c:                                       *)
(*   c.alloc     the block allocator                                       *)
(*   c.resident  the requests that have a block table (keys of _tables)    *)
(*   c.prefixes  the keys of _prefixes in LRU order, oldest first          *)
(*   c.table     the blocks of each owner: of a request in _tables, of a   *)
(*               prefix in its entry; <<>> for an owner that has none      *)
(*   c.length    the tokens these blocks hold: _length of a request, the   *)
(*               length in the entry of a prefix; 0 without blocks         *)
(*   c.pool      the K/V pools: what each slot of each block holds         *)
(*                                                                         *)
(* The K/V of position p depends on every token up to p, so a slot's       *)
(* content is that token prefix itself. <<>> is content nobody may rely    *)
(* on: of a slot not written, and of every slot of a block given back.     *)
(*                                                                         *)
(* A prefix owner id ("prefix-N") is modelled by the key of its entry:     *)
(* both name the one live entry, and ids are never reused.                 *)
(***************************************************************************)
EXTENDS BlockPool

CONSTANTS Reqs,
          Prompt,           \* prompt_token_ids of each request
          Text,             \* the prompt followed by all the request will generate
          BlockSize,
          PrefixMaxBlocks   \* prefix_cache_max_blocks

ASSUME SizeAssumption == BlockSize \in Nat \ {0} /\ PrefixMaxBlocks \in Nat
ASSUME TextAssumption ==
  /\ IsFiniteSet(Reqs)
  /\ Prompt \in [Reqs -> Seq(Nat)] /\ Text \in [Reqs -> Seq(Nat)]
  /\ \A r \in Reqs : Prompt[r] # <<>> /\ IsPrefix(Prompt[r], Text[r])

VARIABLES cache,
          batch,   \* the items of the plan the worker thread executes
          phase    \* how far the worker is with it

vars == <<cache, batch, phase>>

-----------------------------------------------------------------------------
\* Prefix keys.

Max2(m, n) == IF m >= n THEN m ELSE n

MinOf(S) == CHOOSE m \in S : \A n \in S : m <= n

MaxOf(S) == CHOOSE m \in S : \A n \in S : n <= m

BlocksFor(n) == (n + BlockSize - 1) \div BlockSize

\* Mutant: an aligned prompt is cached whole.
AlignedWhole(r) == (Len(Prompt[r]) \div BlockSize) * BlockSize

\* The longest block-aligned length that leaves out the last prompt token.
Aligned(r) == ((Len(Prompt[r]) - 1) \div BlockSize) * BlockSize

Key(r, n) == SubSeq(Prompt[r], 1, n)

AlignedLengths(r) == {n \in 1 .. Aligned(r) : n % BlockSize = 0}

Keys == UNION {{Key(r, n) : n \in AlignedLengths(r)} : r \in Reqs}

(* Requests are named "req-<n>" (scheduler.py:245), entries "prefix-<n>".  *)
ASSUME OwnersAssumption == Owners = Reqs \cup Keys /\ Reqs \cap Keys = {}

Slots == 0 .. BlockSize - 1

Blank == [s \in Slots |-> <<>>]

CachedKeys(c) == ToSet(c.prefixes)

\* slot_mapping: where position p of owner o lives.
BlockAt(c, o, p) == c.table[o][p \div BlockSize + 1]

SlotAt(p) == p % BlockSize

\* The key k leaves its place in the order s.
Without(s, k) == RemoveAt(s, CHOOSE i \in DOMAIN s : s[i] = k)

\* move_to_end: the entry becomes the most recently used one.
Touched(c, k) == [c EXCEPT !.prefixes = Append(Without(@, k), k)]

-----------------------------------------------------------------------------
\* Blocks come, go, and are copied.

\* The table of o grows by n blocks.
Granted(c, o, n) ==
  [c EXCEPT !.table[o] = @ \o Popped(c.alloc.free, n),
            !.alloc = AfterAllocate(@, o, n)]

\* Every block of o goes back to the allocator, with what it held.
Freed(c, o) ==
  [c EXCEPT !.alloc = AfterFree(@, c.table[o]),
            !.pool = [b \in Blocks |-> IF b \in ToSet(c.table[o]) THEN Blank ELSE @[b]],
            !.table[o] = <<>>,
            !.length[o] = 0]

\* The blocks of o receive what the first blocks of source hold: n tokens.
Copied(c, source, o, n) ==
  [c EXCEPT !.length[o] = n,
            !.pool = [b \in Blocks |->
              IF b \in ToSet(c.table[o])
              THEN @[c.table[source][CHOOSE i \in DOMAIN c.table[o] : c.table[o][i] = b]]
              ELSE @[b]]]

Dropped(c, k) == [Freed(c, k) EXCEPT !.prefixes = Without(@, k)]

\* The places of the entries that may go.
MayGo(c, protect) == {i \in DOMAIN c.prefixes : c.prefixes[i] \notin protect}

EvictOne(c, needed, protect) ==
  IF Len(c.alloc.free) >= needed \/ MayGo(c, protect) = {} THEN c
  ELSE Dropped(c, c.prefixes[MinOf(MayGo(c, protect))])

(* _evict_prefixes: oldest entries go until `needed` blocks are free; the  *)
(* protected entry is passed over. (The code also moves it behind the      *)
(* others; its only caller does so at once.)                               *)
Evicted(c, needed, protect) ==
  LET after[n \in 0 .. Len(c.prefixes)] ==
        IF n = 0 THEN c ELSE EvictOne(after[n - 1], needed, protect)
  IN  after[Len(c.prefixes)]

-----------------------------------------------------------------------------
\* Admission: RaggedRunner.admit.

\* reserve(request_id, 0): an empty block table.
AfterReserve(c, r) == [c EXCEPT !.resident = @ \cup {r}]

\* The aligned lengths of r's prompt for which there is an entry.
Hits(c, r) == {n \in AlignedLengths(r) : Key(r, n) \in CachedKeys(c)}

(* restore_prefix: the longest cached prefix is copied into blocks of the  *)
(* request's own, unless even evicting the other entries makes no room.    *)
AfterRestore(c, r) ==
  IF PrefixMaxBlocks = 0 \/ Hits(c, r) = {} THEN c
  ELSE LET length == MaxOf(Hits(c, r))
           key    == Key(r, length)
           needed == Len(c.table[key])
           room   == Evicted(c, needed, {key})
       IN  IF ~CanSatisfy(room.alloc, needed) THEN room
           ELSE Touched(Copied(Granted(room, r, needed), key, r, length), key)

AfterAdmit(c, r) == AfterRestore(AfterReserve(c, r), r)

-----------------------------------------------------------------------------
\* One packed iteration: RaggedRunner.execute_batch. An item feeds the tokens
\* of positions start .. end - 1 of its request.

Extra(c, item) == Max2(0, BlocksFor(item.end) - Len(c.table[item.req]))

Needed(c, items) ==
  LET sum[n \in 0 .. Len(items)] == IF n = 0 THEN 0 ELSE sum[n - 1] + Extra(c, items[n])
  IN  sum[Len(items)]

\* Mutant: growth does not turn to the prefix cache.
NoEvict(c, items) == c

\* ensure_capacity_batch, before it knows whether the blocks suffice ...
AfterEvict(c, items) == Evicted(c, Needed(c, items), {})

CanEnsure(c, items) == CanSatisfy(AfterEvict(c, items).alloc, Needed(c, items))

GrantItem(c, item) == Granted(c, item.req, Extra(c, item))

\* ... and when they do: every table grows, in the order of the plan.
AfterEnsure(c, items) ==
  LET after[n \in 0 .. Len(items)] ==
        IF n = 0 THEN AfterEvict(c, items) ELSE GrantItem(after[n - 1], items[n])
  IN  after[Len(items)]

\* The positions the items write into slot s of block b.
Writes(c, items, b, s) ==
  {w \in UNION {{<<items[i].req, p>> : p \in items[i].start .. items[i].end - 1} : i \in DOMAIN items} :
     BlockAt(c, w[1], w[2]) = b /\ SlotAt(w[2]) = s}

\* append_slots, in every layer: the forward writes the items' positions.
AfterForward(c, items) ==
  [c EXCEPT !.pool = [b \in Blocks |-> [s \in Slots |->
     IF Writes(c, items, b, s) = {} THEN @[b][s]
     ELSE LET w == CHOOSE w \in Writes(c, items, b, s) : TRUE IN SubSeq(Text[w[1]], 1, w[2] + 1)]]]

\* commit_lengths, after the forward has returned.
AfterCommit(c, items) ==
  [c EXCEPT !.length = [o \in Owners |->
     IF \E i \in DOMAIN items : items[i].req = o
     THEN Max2(@[o], items[CHOOSE i \in DOMAIN items : items[i].req = o].end)
     ELSE @[o]]]

-----------------------------------------------------------------------------
\* Release: RaggedRunner.release.

\* How many blocks the entries have.
PrefixBlocks(c) == Cardinality(UNION {ToSet(c.table[k]) : k \in CachedKeys(c)})

TrimOne(c, needed) ==
  IF c.prefixes = <<>> \/ PrefixBlocks(c) + needed <= PrefixMaxBlocks THEN c
  ELSE Dropped(c, c.prefixes[1])

\* Oldest entries are dropped until `needed` more blocks keep within the bound.
Trimmed(c, needed) ==
  LET after[n \in 0 .. Len(c.prefixes)] ==
        IF n = 0 THEN c ELSE TrimOne(after[n - 1], needed)
  IN  after[Len(c.prefixes)]

\* A new entry, of blocks that receive what the request's first blocks hold.
Entered(c, r, key, needed) ==
  Copied(Granted([c EXCEPT !.prefixes = Append(@, key)], key, needed), r, key, Len(key))

(* store_prefix: the prompt's full blocks are copied into blocks of a new  *)
(* entry, after old entries are dropped to keep within PrefixMaxBlocks and *)
(* more of them to have the blocks. It may drop them and then store none.  *)
AfterStore(c, r) ==
  LET length == Aligned(r)
      needed == length \div BlockSize
      key    == Key(r, length)
      room   == Evicted(Trimmed(c, needed), needed, {})
  IN  IF length = 0 \/ needed > PrefixMaxBlocks THEN c
      ELSE IF key \in CachedKeys(c) THEN Touched(c, key)
      ELSE IF c.length[r] < length THEN c
      ELSE IF ~CanSatisfy(room.alloc, needed) THEN room
      ELSE Entered(room, r, key, needed)

\* Mutant: the table is dropped and its blocks are not given back.
AfterDropLeaky(c, r) ==
  [c EXCEPT !.resident = @ \ {r}, !.table[r] = <<>>, !.length[r] = 0]

\* release: idempotent; a request without a table gives nothing back.
AfterDrop(c, r) == [Freed(c, r) EXCEPT !.resident = @ \ {r}]

AfterRelease(c, r) == AfterDrop(AfterStore(c, r), r)

-----------------------------------------------------------------------------
InitCache == [alloc    |-> InitAllocator,
              resident |-> {},
              prefixes |-> <<>>,
              table    |-> [o \in Owners |-> <<>>],
              length   |-> [o \in Owners |-> 0],
              pool     |-> [b \in Blocks |-> Blank]]

Init == cache = InitCache /\ batch = <<>> /\ phase = "idle"

Admit(r) ==
  /\ phase = "idle" /\ r \notin cache.resident
  /\ cache' = AfterAdmit(cache, r)
  /\ UNCHANGED <<batch, phase>>

(* The worker packs a plan, which feeds each of its requests some of the   *)
(* tokens that follow its committed length: the tables grow, or            *)
(* CacheCapacityFull is raised.                                            *)
Pack ==
  /\ phase = "idle"
  /\ \E S \in SUBSET cache.resident \ {{}} :
       \E end \in [S -> 1 .. NumBlocks * BlockSize + 1] :
         /\ \A r \in S : cache.length[r] < end[r] /\ end[r] <= Len(Text[r])
         /\ LET order == SetToSeq(S)
                items == [i \in DOMAIN order |-> [req   |-> order[i],
                                                  start |-> cache.length[order[i]],
                                                  end   |-> end[order[i]]]]
            IN  /\ batch' = items
                /\ IF CanEnsure(cache, items)
                   THEN cache' = AfterEnsure(cache, items) /\ phase' = "packed"
                   ELSE cache' = AfterEvict(cache, items) /\ phase' = "full"

Forward ==
  /\ phase = "packed"
  /\ cache' = AfterForward(cache, batch)
  /\ phase' = "written"
  /\ UNCHANGED batch

Commit ==
  /\ phase = "written"
  /\ cache' = AfterCommit(cache, batch)
  /\ batch' = <<>> /\ phase' = "idle"

\* Mutant: the lengths are committed though the forward failed.
AbortCommitted ==
  /\ phase \in {"packed", "written"}
  /\ cache' = AfterCommit(cache, batch)
  /\ batch' = <<>> /\ phase' = "idle"

\* The forward raises, before or after its writes: nothing is committed.
Abort ==
  /\ phase \in {"packed", "written"}
  /\ batch' = <<>> /\ phase' = "idle"
  /\ UNCHANGED cache

\* The event loop has been told that the pool is full.
Resume ==
  /\ phase = "full"
  /\ batch' = <<>> /\ phase' = "idle"
  /\ UNCHANGED cache

(* The event loop releases a request that is not in the worker's plan:     *)
(* cancelled, preempted, failed or completed, or never admitted.           *)
Release(r) ==
  /\ \A i \in DOMAIN batch : batch[i].req # r
  /\ cache' = AfterRelease(cache, r)
  /\ UNCHANGED <<batch, phase>>

Next ==
  \/ \E r \in Reqs : Admit(r) \/ Release(r)
  \/ Pack \/ Forward \/ Commit \/ Abort \/ Resume

Spec == Init /\ [][Next]_vars

-----------------------------------------------------------------------------
CacheType == [alloc : AllocatorType, resident : SUBSET Reqs, prefixes : Seq(Keys),
              table : [Owners -> Seq(Blocks)], length : [Owners -> Nat],
              pool : [Blocks -> [Slots -> Seq(Nat)]]]

Item == [req : Reqs, start : Nat, end : Nat]

TypeOK ==
  /\ cache \in CacheType
  /\ batch \in Seq(Item)
  /\ phase \in {"idle", "packed", "written", "full"}

(* Every block is in exactly one place: once in the free list, or once in  *)
(* the one table or prefix entry whose owner the allocator has recorded.   *)
(* Neither growth nor eviction nor release leaks a block or shares one     *)
(* between two sequences (cache.py:80-87, README.md:212 "double-free, or   *)
(* leaked blocks").                                                        *)
BlocksExact ==
  /\ Exact(cache.alloc)
  /\ NoRepeat(cache.prefixes)
  /\ \A o \in Owners :
       /\ NoRepeat(cache.table[o])
       /\ Owned(cache.alloc, o) = ToSet(cache.table[o])
       /\ o \notin cache.resident \cup CachedKeys(cache) => cache.table[o] = <<>>

\* What the tokens of an owner are: a prefix is its own text.
History(o) == IF o \in Reqs THEN Text[o] ELSE o

(* What attention reads is the request's own history: every committed      *)
(* position of a resident request, and every position of a cached prefix,  *)
(* holds the K/V of exactly the tokens up to it, however the blocks were   *)
(* copied, evicted and reused in between.                                  *)
KVContent ==
  /\ \A k \in CachedKeys(cache) : cache.length[k] = Len(k)
  /\ \A o \in Owners : \A p \in 0 .. cache.length[o] - 1 :
       /\ p \div BlockSize + 1 \in DOMAIN cache.table[o]
       /\ cache.pool[BlockAt(cache, o, p)][SlotAt(p)] = SubSeq(History(o), 1, p + 1)

(* A hit never covers the whole prompt: the last prompt token stays to be  *)
(* computed, whose logits give the first output token                      *)
(* (docs/06-ragged-engine.md:55-56).                                       *)
LastTokenLeft ==
  [][\A r \in cache'.resident \ cache.resident : cache'.length[r] < Len(Prompt[r])]_vars

(* Growth is refused, and so a running sequence preempted, only once every *)
(* cached prefix has been evicted (docs/architecture.md:93).               *)
Refused == phase = "idle" /\ phase' = "full"

EvictBeforeRefuse == [][Refused => cache'.prefixes = <<>>]_vars
=============================================================================
