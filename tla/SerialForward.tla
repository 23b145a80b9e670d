----------------------------- MODULE SerialForward -----------------------------
(***************************************************************************)
(* The forward pass of the five serial modes.  The naive runner computes   *)
(* the whole history at every step and, where two tokens are nearly tied,  *)
(* once more through a cache it gives back at the end; the cached runner   *)
(* computes the prompt once and then feeds the token chosen last, over a   *)
(* cache that has reserved room for the longest answer: a buffer of the    *)
(* request's own (contiguous, batched) or blocks of a shared pool (paged,  *)
(* triton), read by a gather or, in the decodes of triton, by a kernel.    *)
(*                                                                         *)
(* places[r] is the slot of each position of r, in both kinds of cache.    *)
(* The K/V of a token is <<r, n, p>>: token n of the history of r, rotated *)
(* for position p.  What a query attends to is the sequence of the K/V it  *)
(* sees.  SerialScheduler says which request is stepped, and when.         *)
(***************************************************************************)
EXTENDS Naturals, Sequences, FiniteSets, SequencesExt, FiniteSetsExt, TLC

CONSTANTS
    Served,        \* the requests
    PromptSizes,   \* the lengths of their prompts
    OutputSizes,   \* max_output_tokens of a request
    PageTokens,    \* block_size
    PageCount,     \* the blocks of the paged cache
    MaxServed      \* max_active_sequences

ASSUME SerialForwardAssumption ==
    /\ PromptSizes \subseteq Nat \ {0} /\ OutputSizes \subseteq Nat \ {0}
    /\ PageTokens \in Nat \ {0} /\ PageCount \in Nat \ {0} /\ MaxServed \in Nat \ {0}

VARIABLES
    mode,     \* the mode of the engine
    serving,  \* the active requests
    served,   \* those that have been active: an id is not used twice
    prompt,   \* the length of the prompt of each active request
    limit,    \* its max_output_tokens
    stepped,  \* its tokens_fed, which is the number of tokens it has generated
    cache,    \* [places, lengths: of the requests it knows; store: the K/V of each slot; freePages]
    saw       \* the last forward: its request, the first position, what each query has attended to

serialVars == <<mode, serving, served, prompt, limit, stepped, cache, saw>>

Uncached == "naive"
Paged == {"paged", "triton"}
Buffered == {Uncached, "contiguous", "batched"}
Empty == <<"none", 0, 0>>
Unseen == [req |-> "none", from |-> 0, rows |-> << >>, whole |-> TRUE]
ActiveLimit == IF mode \in {Uncached, "contiguous"} THEN 1 ELSE MaxServed

SlotsOfPages(pages) ==
    [i \in 1..Len(pages) * PageTokens |-> <<pages[(i - 1) \div PageTokens + 1], (i - 1) % PageTokens>>]

SerialInit ==
    /\ mode \in Paged \cup Buffered
    /\ serving = {} /\ served = {}
    /\ prompt = << >> /\ limit = << >> /\ stepped = << >>
    /\ cache = [places |-> << >>, lengths |-> << >>,
                store |-> IF mode \in Paged
                          THEN [s \in (1..PageCount) \X (0..PageTokens - 1) |-> Empty] ELSE << >>,
                freePages |-> [i \in 1..IF mode \in Paged THEN PageCount ELSE 0 |-> i]]
    /\ saw = Unseen

-----------------------------------------------------------------------------
\* The caches, as functions of the cache c before.

PagesFor(n) == (n + PageTokens - 1) \div PageTokens
Put(f, r, value) == [q \in DOMAIN f \cup {r} |-> IF q = r THEN value ELSE f[q]]
Without(f, S) == [x \in DOMAIN f \ S |-> f[x]]
MayReserve(c, n) == mode \in Paged => PagesFor(n) <= Len(c.freePages)

(* A buffer of n fresh slots, or the pages on top of the free list, which still hold   *)
(* what they held.                                                                     *)
Reserve(c, r, n) ==
    IF mode \in Paged
    THEN LET left == Len(c.freePages) - PagesFor(n)
         IN [c EXCEPT !.places = Put(@, r, SlotsOfPages(Reverse(SubSeq(c.freePages, left + 1, Len(c.freePages))))),
                      !.lengths = Put(@, r, 0),
                      !.freePages = SubSeq(@, 1, left)]
    ELSE [c EXCEPT !.places = Put(@, r, [i \in 1..n |-> <<r, i>>]),
                   !.lengths = Put(@, r, 0),
                   !.store = [s \in DOMAIN @ \cup {<<r, i>> : i \in 1..n} |->
                                 IF s \in DOMAIN @ THEN @[s] ELSE Empty]]

BlockTable(c, r) == [j \in 1..Len(c.places[r]) \div PageTokens |-> c.places[r][j * PageTokens][1]]

Release(c, r) ==
    IF r \notin DOMAIN c.places THEN c
    ELSE [c EXCEPT !.places = Without(@, {r}), !.lengths = Without(@, {r}),
                   !.store = IF mode \in Paged THEN @ ELSE Without(@, ToSet(c.places[r])),
                   !.freePages = IF mode \in Paged THEN @ \o BlockTable(c, r) ELSE @]

(* n tokens of the history, from the first on, are fed at positions from start on:     *)
(* there must be room for all of them.                                                 *)
HasRoom(c, r, start, n) == start + n <= Len(c.places[r])

(* The model rotates each token for its position, the same in every layer.             *)
Rotated(r, first, start, n) == [i \in 1..n |-> <<r, first + i - 1, start + i - 1>>]

AppendKV(c, r, first, start, n) ==
    LET new == Rotated(r, first, start, n)
        slot(i) == c.places[r][start + i]
        at(s) == {i \in 1..n : slot(i) = s}
    IN [c EXCEPT !.store = [s \in DOMAIN @ |-> IF at(s) = {} THEN @[s] ELSE new[CHOOSE i \in at(s) : TRUE]],
                 !.lengths[r] = Max({@, start + n})]

(* The gathered view to the length of the cache, under the causal mask of the query at *)
(* position start + i - 1.                                                             *)
Gathered(c, r, start, i) ==
    [p \in 0..Min({c.lengths[r], start + i}) - 1 |-> c.store[c.places[r][p + 1]]]

(* The kernel takes a sequence whose table covers its length; it has one query and no  *)
(* mask but the length, and reads through the block table.                             *)
KernelTakes(c, r) == c.lengths[r] >= 1 /\ PagesFor(c.lengths[r]) <= Len(BlockTable(c, r))
ByKernel(c, r) ==
    [p \in 0..c.lengths[r] - 1 |-> c.store[<<BlockTable(c, r)[p \div PageTokens + 1], p % PageTokens>>]]

(* One call of the model over the cache: acc is what came of the calls before.  In the *)
(* prefill of triton, and where its kernel is unavailable or refuses, the reference    *)
(* appends once more and gathers.                                                      *)
Forward(acc, r, first, start, n, decode) ==
    IF ~acc.saw.whole THEN acc
    ELSE IF ~HasRoom(acc.cache, r, start, n) THEN [acc EXCEPT !.saw.whole = FALSE]
    ELSE LET c == AppendKV(acc.cache, r, first, start, n)
             direct == mode = "triton" /\ decode /\ acc.kernel /\ KernelTakes(c, r)
         IN [acc EXCEPT
               !.cache = IF mode = "triton" /\ ~direct
                         THEN AppendKV(c, r, first, start, n) ELSE c,
               !.saw = [req |-> r, from |-> start, whole |-> TRUE,
                        rows |-> [i \in 1..n |-> IF direct THEN ByKernel(c, r) ELSE Gathered(c, r, start, i)]]]

-----------------------------------------------------------------------------
\* The runners.

\* Mutant: the fed token is placed behind its own position.
StartLate(r) == prompt[r] + stepped[r]
Start(r) == prompt[r] + stepped[r] - 1

CachedStep(r, kernel) ==
    LET acc == [cache |-> cache, saw |-> Unseen, kernel |-> kernel]
    IN IF stepped[r] = 0 THEN Forward(acc, r, 0, 0, prompt[r], FALSE)
       ELSE Forward(acc, r, prompt[r] + stepped[r] - 1, Start(r), 1, TRUE)

(* Without a cache: the history at its positions, under the causal mask.               *)
NaiveForward(r) ==
    [cache |-> cache,
     saw |-> [req |-> r, from |-> 0, whole |-> TRUE,
              rows |-> [i \in 1..prompt[r] + stepped[r] |->
                          [p \in 0..i - 1 |-> Rotated(r, 0, 0, prompt[r] + stepped[r])[p + 1]]]]]

CanonicalReplay(r) ==
    LET acc == [cache |-> Reserve(cache, r, prompt[r] + stepped[r]), saw |-> Unseen, kernel |-> FALSE]
        after[k \in 0..stepped[r]] ==
            IF k = 0 THEN Forward(acc, r, 0, 0, prompt[r], FALSE)
            ELSE Forward(after[k - 1], r, prompt[r] + k - 1, prompt[r] + k - 1, 1, TRUE)
    IN [after[stepped[r]] EXCEPT !.cache = Release(@, r)]

(* admit: the naive runner reserves nothing, the cached one the longest answer.        *)
AdmitServed(r) ==
    /\ r \notin served /\ Cardinality(serving) < ActiveLimit
    /\ \E p \in PromptSizes, m \in OutputSizes :
          /\ mode # Uncached => MayReserve(cache, p + m)
          /\ prompt' = Put(prompt, r, p) /\ limit' = Put(limit, r, m)
          /\ stepped' = Put(stepped, r, 0)
          /\ cache' = IF mode = Uncached THEN cache ELSE Reserve(cache, r, p + m)
    /\ serving' = serving \cup {r} /\ served' = served \cup {r}
    /\ UNCHANGED <<mode, saw>>

Step(r) ==
    /\ r \in serving /\ stepped[r] < limit[r]
    /\ \E close \in BOOLEAN, kernel \in BOOLEAN :
       LET done == IF mode # Uncached THEN CachedStep(r, kernel)
                   ELSE IF close THEN CanonicalReplay(r) ELSE NaiveForward(r)
       IN cache' = done.cache /\ saw' = done.saw
    /\ stepped' = [stepped EXCEPT ![r] = @ + 1]
    /\ UNCHANGED <<mode, serving, served, prompt, limit>>

(* The request ends, for whatever reason, and is released; or its step raises behind   *)
(* the forward, and it is failed and released at once.                                 *)
Depart(r) ==
    /\ r \in serving
    /\ \E raised \in BOOLEAN :
          /\ raised => mode # Uncached /\ stepped[r] < limit[r]
          /\ cache' = Release(IF raised THEN CachedStep(r, TRUE).cache ELSE cache, r)
    /\ serving' = serving \ {r}
    /\ prompt' = Without(prompt, {r}) /\ limit' = Without(limit, {r})
    /\ stepped' = Without(stepped, {r})
    /\ saw' = Unseen
    /\ UNCHANGED <<mode, served>>

(* Every id is spent.                                                                  *)
AllServed == served = Served /\ serving = {} /\ UNCHANGED serialVars

SerialNext ==
    \/ AllServed
    \/ \E r \in Served : AdmitServed(r) \/ Step(r) \/ Depart(r)

-----------------------------------------------------------------------------
(* In every serial mode and in every call of the model, the query of each position has *)
(* attended to the tokens of its own history up to that position, each once, in order  *)
(* and rotated for its place: whatever blocks and buffers held before, through a       *)
(* replay, a kernel or the gather that stands in for it; and no position lies beyond   *)
(* what was reserved (ContiguousKVCache, PagedKVCache, NaiveRunner, CachedRunner).      *)
StepAttendsOwn ==
    /\ saw.whole
    /\ \A i \in DOMAIN saw.rows :
          saw.rows[i] = [p \in 0..saw.from + i - 1 |-> <<saw.req, p, p>>]
==============================================================================
