----------------------------- MODULE GraphForward -----------------------------
(***************************************************************************)
(* The forward pass of the ragged engine: a plan is packed into one flat   *)
(* batch (RaggedRunner._pack), a batch of decodes is padded to the next    *)
(* power of two and run by a CUDA graph captured for that size, whose      *)
(* tensors are filled anew for every replay (_pad_decode, _graph_forward), *)
(* and attention writes and reads the physical blocks through the block    *)
(* tables of the batch (attention.py, kernel.py).                          *)
(*                                                                         *)
(* The K/V of a token is the token itself: <<r, p>> for the one that       *)
(* request r feeds at position p.  What a row attends to is the sequence   *)
(* of the K/V its query sees; scores and weights are left out.             *)
(***************************************************************************)
EXTENDS Naturals, Sequences, FiniteSets, SequencesExt, FiniteSetsExt, TLC

CONSTANTS
    Sequents,          \* the requests
    PromptTokens,      \* tokens of every prompt
    Longest,           \* max_model_len
    BlockTokens,       \* block_size
    PoolBlocks,        \* blocks in the pool, numbered from 0
    MaxActive,         \* max_active_sequences
    MaxBatchedTokens,  \* max_batched_tokens
    ChunkTokens,       \* prefill_chunk_size
    MaxForwards,       \* bound: plans executed
    MaxLeaves          \* bound: how often a request leaves

ASSUME ForwardAssumption ==
    /\ PromptTokens \in Nat \ {0} /\ BlockTokens \in Nat \ {0} /\ ChunkTokens \in Nat \ {0}
    /\ PoolBlocks \in Nat \ {0} /\ Longest \in Nat /\ MaxForwards \in Nat /\ MaxLeaves \in Nat
    /\ MaxActive \in Nat \ {0} /\ MaxBatchedTokens \in Nat \ {0}

VARIABLES
    kernel,    \* "graphs": Triton with cuda_graph_decode; "triton"; "torch": the reference
    warm,      \* warm_cuda_graphs has run
    freeList,  \* the allocator's free list, a stack
    sequents,  \* the active requests, in order
    tables,    \* their block tables
    fed,       \* tokens_fed
    known,     \* the tokens of the prompt and those generated
    decoding,  \* the requests in state DECODING
    pool,      \* what each slot of each block holds
    static,    \* the tensors of each captured graph, by its size
    attended,  \* what the sampled row of each request of the last forward has attended to
    mismatch,  \* the last forward raised: a replay was given tensors of another shape, padding
               \* had no sampled request to repeat, or the kernel was given a batch it refuses
    unsampled, \* history: the last forward was one of decodes for a graph, not all of them sampled
    forwards, leaves

forwardVars == <<kernel, warm, freeList, sequents, tables, fed, known, decoding, pool, static,
                 attended, mismatch, unsampled, forwards, leaves>>

Pool == 0..PoolBlocks - 1
Nothing == <<"none", 0>>
Width == (Longest + BlockTokens - 1) \div BlockTokens
BlocksOfLength(n) == (n + BlockTokens - 1) \div BlockTokens

ForwardInit ==
    /\ kernel \in {"graphs", "triton", "torch"}
    /\ warm = FALSE
    /\ freeList = [i \in 1..PoolBlocks |-> i - 1]
    /\ sequents = << >>
    /\ tables = [r \in Sequents |-> << >>]
    /\ fed = [r \in Sequents |-> 0] /\ known = [r \in Sequents |-> PromptTokens]
    /\ decoding = {}
    /\ pool = [b \in Pool |-> [o \in 0..BlockTokens - 1 |-> Nothing]]
    /\ static = << >> /\ attended = << >> /\ mismatch = FALSE /\ unsampled = FALSE
    /\ forwards = 0 /\ leaves = 0

-----------------------------------------------------------------------------
\* The plan: an item [req, start, end, sample] feeds positions start .. end - 1.

IsDecode(r) == r \in decoding /\ known[r] - fed[r] = 1

(* decode_first_priority, a stable sort: decodes first, each class in order.          *)
Place(r) == CHOOSE i \in DOMAIN sequents : sequents[i] = r
Ahead(q, r) == IF IsDecode(q) = IsDecode(r) THEN Place(q) < Place(r) ELSE IsDecode(q)
Orders(eligible) ==
    {order \in [1..Cardinality(eligible) -> eligible] :
        \A i, j \in DOMAIN order : i < j => Ahead(order[i], order[j])}

(* The next item, cut to what is left of the budget.                                   *)
Scheduled(acc, r) ==
    LET n == Min({known[r] - fed[r], IF IsDecode(r) THEN 1 ELSE ChunkTokens, acc.budget})
    IN IF n = 0 THEN acc
       ELSE [budget |-> acc.budget - n,
             items |-> Append(acc.items, [req |-> r, start |-> fed[r], end |-> fed[r] + n,
                                          sample |-> fed[r] + n = known[r]])]

Plan(order) ==
    LET planned[n \in 0..Len(order)] ==
            IF n = 0 THEN [budget |-> MaxBatchedTokens, items |-> << >>]
            ELSE Scheduled(planned[n - 1], order[n])
    IN planned[Len(order)].items

(* Every item is a decode: one position, behind the prompt.  One of a recomputation is *)
(* one, too, where the chunk or what is left of the budget is a single token, and then *)
(* not sampled.                                                                        *)
DecodesOnly(items) ==
    \A i \in DOMAIN items : items[i].end = items[i].start + 1 /\ items[i].start >= PromptTokens

(* ensure_capacity_batch: the tables grow in the order of the plan.                    *)
Grown(acc, x) ==
    LET n == BlocksOfLength(x.end) - Len(acc.tables[x.req])
        m == Len(acc.free)
    IN IF n <= 0 THEN acc
       ELSE IF n > m THEN [acc EXCEPT !.fits = FALSE]
       ELSE [acc EXCEPT !.free = SubSeq(@, 1, m - n),
                        !.tables[x.req] = @ \o [j \in 1..n |-> acc.free[m + 1 - j]]]

Growth(items) ==
    LET grown[n \in 0..Len(items)] ==
            IF n = 0 THEN [fits |-> TRUE, free |-> freeList, tables |-> tables]
            ELSE Grown(grown[n - 1], items[n])
    IN grown[Len(items)]

-----------------------------------------------------------------------------
\* Packing.

BlockOf(t, p) == t[p \div BlockTokens + 1]

(* Tables of the batch are filled up with zeros, and block 0 is a block as any other.  *)
Filled(t) == [j \in 1..Width |-> IF j <= Len(t) THEN t[j] ELSE 0]

(* The rows of an item: token, position, the slot it is written to, and the row of the *)
(* block tables it reads by.                                                           *)
RowsOf(items, i, ts) ==
    [k \in 1..items[i].end - items[i].start |->
        LET r == items[i].req
            p == items[i].start + k - 1
        IN [token |-> <<r, p>>, pos |-> p, slot |-> <<BlockOf(ts[r], p), p % BlockTokens>>, seq |-> i]]

(* Item after item; the logits of a sampled one are taken from its last row.           *)
Extended(acc, items, i, ts) ==
    LET rows == acc.rows \o RowsOf(items, i, ts)
    IN [rows |-> rows,
        tables |-> Append(acc.tables, Filled(ts[items[i].req])),
        logits |-> IF items[i].sample THEN Append(acc.logits, Len(rows)) ELSE acc.logits,
        sampled |-> IF items[i].sample THEN Append(acc.sampled, items[i].req) ELSE acc.sampled]

Packed(items, ts) ==
    LET packed[n \in 0..Len(items)] ==
            IF n = 0 THEN [rows |-> << >>, tables |-> << >>, logits |-> << >>, sampled |-> << >>]
            ELSE Extended(packed[n - 1], items, n, ts)
    IN packed[Len(items)]

Doubles(n) ==
    LET double[k \in 0..n] == IF k = 0 THEN 1 ELSE 2 * double[k - 1]
    IN {double[k] : k \in 0..n}
GraphBucket(n) == CHOOSE b \in Doubles(n) : b >= n /\ b < 2 * n

(* The last decode is repeated, with its slot and its table, and row after row has     *)
(* logits; so has the last of the sampled requests, and there must be one.             *)
Pads(batch) == GraphBucket(Len(batch.rows)) = Len(batch.rows) \/ batch.sampled # << >>
PadDecode(batch) ==
    LET n == Len(batch.rows)
        bucket == GraphBucket(n)
    IN IF bucket = n THEN batch
       ELSE [batch EXCEPT !.rows = [i \in 1..bucket |-> [@[Min({i, n})] EXCEPT !.seq = i]],
                          !.tables = [i \in 1..bucket |-> @[Min({i, n})]],
                          !.logits = [i \in 1..bucket |-> i]]

\* Mutant: the tables in a captured graph are not filled anew.
CopyStaleTables(target, source) ==
    [source EXCEPT !.tables = target.tables,
                   !.logits = IF Len(@) = 1 THEN [i \in DOMAIN target.logits |-> @[1]] ELSE @]

(* Rows and tables have the size of the graph; copy_ repeats a single logit index, and *)
(* refuses any other number of them than the graph has.                                *)
CopyPacked(target, source) ==
    [source EXCEPT !.logits = IF Len(@) = 1 THEN [i \in DOMAIN target.logits |-> @[1]] ELSE @]

Copies(target, source) == Len(source.logits) \in {1, Len(target.logits)}

-----------------------------------------------------------------------------
\* Attention: every row is written to its slot, and then each of them reads.

Written(rows) ==
    [b \in Pool |-> [o \in 0..BlockTokens - 1 |->
        LET here == {i \in DOMAIN rows : rows[i].slot = <<b, o>>}
        IN IF here = {} THEN pool[b][o] ELSE rows[Max(here)].token]]

(* What the launch of the ragged kernel accepts: a table and a position for each query.*)
Takes(batch) ==
    /\ batch.rows # << >>
    /\ \A i \in DOMAIN batch.rows :
          batch.rows[i].seq \in DOMAIN batch.tables /\ batch.rows[i].pos < Longest

(* The ragged kernel: the blocks of the row's table up to its position, masked beyond. *)
KernelReads(pl, batch, i) ==
    LET row == batch.rows[i]
    IN [p \in 0..row.pos |-> pl[BlockOf(batch.tables[row.seq], p)][p % BlockTokens]]

(* The reference, of an item's last row: the cache's own table, gathered to its end.   *)
ReferenceReads(pl, t, end) == [p \in 0..end - 1 |-> pl[BlockOf(t, p)][p % BlockTokens]]

-----------------------------------------------------------------------------
(* warm_cuda_graphs: a graph for each power of two up to the active limit, captured    *)
(* with requests of one token each, whose blocks go back.  A pool too small for them   *)
(* refuses a block, and the engine does not start.                                     *)
WarmSizes == {n \in Doubles(MaxActive) : n <= MaxActive}
WarmItems(n) == [i \in 1..n |-> [req |-> i, start |-> 0, end |-> 1, sample |-> TRUE]]
WarmTables == [i \in 1..Max(WarmSizes) |-> <<freeList[PoolBlocks + 1 - i]>>]

WarmGraphs ==
    /\ ~warm /\ warm' = TRUE
    /\ kernel = "graphs" => Max(WarmSizes) <= PoolBlocks
    /\ IF kernel = "graphs"
       THEN /\ static' = [n \in WarmSizes |-> Packed(WarmItems(n), WarmTables)]
            /\ pool' = Written(Packed(WarmItems(Max(WarmSizes)), WarmTables).rows)
            /\ freeList' = SubSeq(freeList, 1, PoolBlocks - Max(WarmSizes))
                           \o [i \in 1..Max(WarmSizes) |-> WarmTables[i][1]]
       ELSE UNCHANGED <<static, pool, freeList>>
    /\ UNCHANGED <<kernel, sequents, tables, fed, known, decoding, attended, mismatch, unsampled,
                   forwards, leaves>>

Enter(r) ==
    /\ warm /\ r \notin ToSet(sequents) /\ Len(sequents) < MaxActive
    /\ sequents' = Append(sequents, r)
    /\ attended' = << >>
    /\ UNCHANGED <<kernel, warm, freeList, tables, fed, known, decoding, pool, static,
                   mismatch, unsampled, forwards, leaves>>

(* A request leaves for good, and its name may be used anew, or as a victim, to come   *)
(* back and be computed again; its blocks keep what they hold.                         *)
Leave(r) ==
    /\ r \in ToSet(sequents) /\ leaves < MaxLeaves
    /\ leaves' = leaves + 1
    /\ attended' = << >>
    /\ sequents' = RemoveAt(sequents, Place(r))
    /\ freeList' = freeList \o tables[r]
    /\ tables' = [tables EXCEPT ![r] = << >>]
    /\ fed' = [fed EXCEPT ![r] = 0] /\ decoding' = decoding \ {r}
    /\ known' \in {known, [known EXCEPT ![r] = PromptTokens]}
    /\ UNCHANGED <<kernel, warm, pool, static, mismatch, unsampled, forwards>>

\* Where each request is when the items have been fed.
FedTo(items) ==
    [r \in Sequents |-> IF \E i \in DOMAIN items : items[i].req = r
                        THEN items[CHOOSE i \in DOMAIN items : items[i].req = r].end
                        ELSE fed[r]]

(* execute_batch of a plan.  Without the blocks, nothing changes.                      *)
Execute(items) ==
    LET grown == Growth(items)
        packed == Packed(items, grown.tables)
        graph == kernel = "graphs" /\ DecodesOnly(items)
        padded == IF graph THEN PadDecode(packed) ELSE packed
        n == Len(padded.rows)
        replay == graph /\ n \in DOMAIN static
        batch == IF replay THEN CopyPacked(static[n], padded) ELSE padded
        after == Written(batch.rows)
        reads(k) == IF kernel = "torch"
                    THEN ReferenceReads(after, grown.tables[packed.sampled[k]], FedTo(items)[packed.sampled[k]])
                    ELSE KernelReads(after, batch, batch.logits[k])
    IN /\ items # << >> /\ grown.fits
       /\ freeList' = grown.free /\ tables' = grown.tables
       /\ unsampled' = (graph /\ \E i \in DOMAIN items : ~items[i].sample)
       /\ IF \/ graph /\ ~Pads(packed)
             \/ replay /\ ~Copies(static[n], padded)
             \/ ~replay /\ kernel # "torch" /\ ~Takes(batch)
          THEN /\ mismatch' = TRUE /\ attended' = << >>
               /\ UNCHANGED <<fed, known, decoding, pool, static>>
          ELSE /\ pool' = after
               /\ static' = IF graph THEN [m \in DOMAIN static \cup {n} |-> IF m = n THEN batch ELSE static[m]]
                                     ELSE static
               /\ attended' = [r \in ToSet(packed.sampled) |->
                                 reads(CHOOSE k \in DOMAIN packed.sampled : packed.sampled[k] = r)]
               /\ fed' = FedTo(items)
               /\ known' = [r \in Sequents |-> IF r \in ToSet(packed.sampled) THEN known[r] + 1 ELSE known[r]]
               /\ decoding' = decoding \cup ToSet(packed.sampled)
               /\ mismatch' = FALSE

(* The eligible requests are those whose consumers keep up.                            *)
ExecuteBatch ==
    /\ warm /\ forwards < MaxForwards /\ forwards' = forwards + 1
    /\ \E eligible \in SUBSET {r \in ToSet(sequents) : fed[r] < known[r] /\ known[r] <= Longest} :
       \E order \in Orders(eligible) : Execute(Plan(order))
    /\ UNCHANGED <<kernel, warm, sequents, leaves>>

(* A bound is reached.                                                                 *)
ForwardsSpent == (forwards = MaxForwards \/ leaves = MaxLeaves) /\ UNCHANGED forwardVars

ForwardNext ==
    \/ WarmGraphs \/ ExecuteBatch \/ ForwardsSpent
    \/ \E r \in Sequents : Enter(r) \/ Leave(r)

-----------------------------------------------------------------------------
(* The token chosen for a request follows from its own history: the row its logits are *)
(* taken from has attended to every position of the request so far, each once, and to  *)
(* nothing of another request, of the warm-up, of the padding or of a batch before:    *)
(* through chunks, padding, replays of a graph captured for others, reused blocks and  *)
(* recomputation; and no replay or kernel is given tensors that do not fit.  Only with *)
(* a budget not above the active limit or a chunk of one token, which validate_config  *)
(* accepts (config.py:125), may a batch for a graph have a decode that is not sampled; *)
(* it may be refused, and with a chunk of one token a row read for another request.    *)
AttendsOwn ==
    /\ unsampled => kernel = "graphs" /\ (MaxBatchedTokens <= MaxActive \/ ChunkTokens = 1)
    /\ ~unsampled => ~mismatch
    /\ ~unsampled \/ ChunkTokens > 1
          => \A r \in DOMAIN attended : attended[r] = [p \in 0..fed[r] - 1 |-> <<r, p>>]
==============================================================================
