# Verification of the cloud inference engine

This directory is a TLA+ development of the inference engine in `src/cloud_engine`
and of the programs in `modal_app.py` and `experiments/` that deploy it and judge
it: modules that follow the source definition by definition, TLC configurations
that check them on small instances, and TLAPS proofs of what matters most for every
value of the constants. Paths below are relative to the repository root; file
names without a directory (`scheduler.py:282`) are in `src/cloud_engine`.

Contents: [the system](#the-system) · [the modules](#the-modules) ·
[the runs](#the-runs) · [fairness](#fairness) · [the proofs](#the-proofs) ·
[where code and documentation disagree](#where-code-and-documentation-disagree) ·
[what is not modelled](#what-is-not-modelled) · [the plan](#the-plan).

## The system

A FastAPI process serves `POST /v1/responses`. A request passes a tenant gate,
is tokenized and submitted to the scheduler, waits in a bounded queue, is
admitted to the active list, and is computed by iterations of one loop, each of
which packs tokens of several requests into one forward. The tokens go through
a bounded queue to the consumer, which is the HTTP response. Beside the service,
`modal_app.py` holds programs that compare the engine with vLLM and write down what
may be claimed from the comparison.

| Component | State it keeps | Operations | Talks to |
|---|---|---|---|
| block allocator (`cache.py:80-152`) | free stack, owner of each block | allocate, free, free_for | called by the paged cache |
| paged KV cache (`cache.py:235-529`) | block tables, committed lengths, prefix entries in LRU order, the K/V pool | reserve, restore_prefix, ensure_capacity_batch, slot_mapping/append_slots, commit_lengths, store_prefix, release | called by the runners, from the event loop (admit, release) and from the worker thread (growth, writes, commit) |
| contiguous KV cache (`cache.py:158-232`) | one private buffer per request | reserve, append, view, release | the serial runners |
| ragged runner (`engine.py:193-488`) | prompt ids of resident requests, captured CUDA graphs | admit, execute_batch (pack, pad, replay), release, warm_cuda_graphs | scheduler (caller), cache, model |
| attention and kernels (`attention.py`, `kernel.py`) | none of their own | writes and reads of slots through block tables | runner, pool |
| serial runners (`engine.py:70-190`) | prompt ids, one request at a time | admit, step, release | scheduler, either cache |
| packed scheduler loop (`scheduler.py:199-290, 367-655`) | waiting deque, active list, in-flight ids, each request's record, queue, pending events, future | submit, cancel, stop, and the loop: reap, drain, admit, plan, execute, settle or preempt | runner in a worker thread (`to_thread`), consumers through `asyncio.Queue`, the API through futures |
| serial scheduler loop (`scheduler.py:298-365`) | the same | reap, step every active request, admit and prefill | serial runners |
| request handle (`engine.py:491-547`) | none | stream, wait, cancel | reads the request's queue and future, cancels on early exit |
| engine lifecycle (`engine.py:587-732`) | `ready`, the scheduler, the runner | start (initialises in a thread), close, submit | API, scheduler |
| process-local tenant gate (`api.py:122-205`) | active count and token history per tenant | acquire, release, snapshot | the HTTP handler |
| Redis tenant gate (`api.py:207-362`) | two sorted sets and a hash per tenant, in Redis | acquire, release, snapshot: one Lua script each | the HTTP handlers of every replica |
| HTTP handler (`api.py:740-908`) | the lease and the stream of one request | admit, submit, wait or stream, clean up | gate, engine |
| deployment (`modal_app.py:1649-1682`) | environment, the running application | load, unload | engine lifecycle, HTTP handler |
| sentinel pilot (`modal_app.py:1709-1912`, `experiments/sentinel_pilot.py`, `experiments/sentinel_report.py`) | pair files and `workloads.jsonl` on disk; in a child one engine and its warm-up | driver: start, resume, stop rules; child: warm up, phases; report: claims | one container per pair, one child process per engine, files |
| correctness protocol v2 (`experiments/protocol_v2.py`, `experiments/sentinel_diagnostics.py`, entry points in `modal_app.py`) | results of a split, the committed tolerance, the audit's runs | calibrate, commit, holdout and its gate, audit | child processes of both engines |
| model, weights, metrics, config, CLI, profiling, console, other experiments | tensors, counters, constants, files | – | – |

**Concurrency.** One asyncio event loop runs the scheduler task, all HTTP
handlers and all consumers; they interleave only at `await`s. The forward runs
in a worker thread while the loop goes on, so requests arrive, are cancelled,
read and time out while a batch that holds them is being computed, and the
cache is touched by both threads without a lock. Replicas share nothing but Redis.
The pilot's driver may be killed anywhere and is started again over the files it
has left.

**What is hard.** A cancellation while the worker computes over the request's
blocks; an answer for a request that has ended meanwhile; a forward that raises,
for lack of blocks or otherwise, when some of its requests have been cancelled;
a victim of capacity pressure that must be computed again without repeating or
losing a token; a consumer slower than the model; the last events of a request
whose queue is full; blocks that are copied, evicted and reused while tables and
prefix entries point at others, by two threads at once; a graph that was captured for
other requests; a lease whose release fails or never runs; a shutdown that gives up
waiting; a claim made from the files of several interrupted runs.

**What makes each component correct.**

* allocator: every block is in the free list or has one owner, never both;
* paged cache: the same through tables and prefix entries, and what a request
  reads at a position is the K/V of its own tokens up to there;
* runners: what a request's next token is computed from is its own history,
  whatever is packed, padded, replayed or recomputed around it;
* scheduler: a request is in exactly one place; nothing in flight is moved;
  plans feed each request its next tokens within the budget; streams are
  lossless and ordered; terminal states are final, and each ends with STOP and
  a resolved future; every request ends;
* serial scheduler: the same promise to the consumer, without a plan;
* gates: never more leases than the policy allows, never more tokens in a
  window than the policy allows, no lease that outlives its request for ever;
* deployment: after shutdown every caller has an answer, and an answer called
  complete is the whole answer;
* pilot: cold measurements are cold, and a claim rests on whole, comparable pairs;
* protocol v2: the gate passes only what the requirements it evaluates allow.

## The modules

| Module | Models | Extends / instantiates |
|---|---|---|
| `BlockPool` | what the operations of `cache.py` class `BlockAllocator` do to its record | – |
| `BlockAllocator` | these operations by themselves, in any order | extends `BlockPool` |
| `PagedKVCache` | `cache.py` class `PagedKVCache` under `RaggedRunner` | extends `BlockPool` |
| `CacheThreads` | the same cache between two threads, without what the blocks hold | – |
| `GraphForward` | a forward of the ragged runner: packing, padding, graphs, attention's addressing | – |
| `SerialForward` | a step of the five serial modes over both caches | – |
| `EngineWorker` | the three views of the worker thread, one chosen | extends the three above |
| `RequestLifecycle` | the promise about one request, abstract | – |
| `Scheduler` | what the two loops of class `Scheduler` share: a request's record and stream, finalization, the other tasks of the event loop | `Lifecycle == INSTANCE RequestLifecycle` |
| `RaggedScheduler` | `_run_packed`: plans, batches, preemption | extends `Scheduler` |
| `SerialScheduler` | `_run_serial`: a pass over the active list, then admissions | extends `Scheduler` |
| `LeasePool` | the promise of a gate about concurrency, abstract | – |
| `ResponsesHandler` | the HTTP handler of `POST /v1/responses` around a lease | – |
| `TenantGate` | `api.py` classes `TenantGate`, `TenantLease` under the handler | extends `ResponsesHandler`; `Leases == INSTANCE LeasePool` |
| `RedisTenantGate` | `api.py` class `RedisTenantGate` with its Lua scripts, the network and the handlers of several containers | extends `ResponsesHandler` |
| `ApiServer` | the deployed service from load to unload, and the text of its answers | – |
| `SentinelChild` | one child process of the sentinel pilot | – |
| `SentinelPilot` | the pilot's driver, its pairs and files, and the report's claims | – |
| `ProtocolV2` | the splits, the classification, the tolerance, the gate | – |
| `ProtocolAudit` | the audit of a request that failed the holdout | extends `ProtocolV2` |
| `ModalApp` | the five functions of `modal_app.py`, one chosen | extends the five above |
| `MC*` | the values of the constants for TLC | the module of that name |
| `PagedKVCache_proofs`, `EngineWorker_proofs`, `Scheduler_proofs`, `RaggedScheduler_proofs`, `SerialScheduler_proofs`, `TenantGate_proofs`, `RedisTenantGate_proofs`, `ModalApp_proofs` | theorems | see [the proofs](#the-proofs) |

### BlockPool and BlockAllocator

The state of the allocator is one record (`free`, `owner`), and the effects of its
operations are operators from record to record (`AfterAllocate`, `AfterFree`),
because the cache calls the allocator several times inside one atomic operation
of its own. `Popped(f, n)` is what `n` calls of `_free.pop()` return. `MayFree`
has the checks of `free` (`cache.py:131-140`): they run before anything changes,
so a refused call is no step. `BlockAllocator` calls them in any order; its `FreeFor`
gives back the owner's blocks in whatever order the owner map lists them.

### PagedKVCache

The whole cache is one record `cache`: the allocator (`alloc`), the requests with a
block table (`resident`), the keys of the prefix entries in LRU order (`prefixes`), and
for every owner, a request or an entry, its blocks and how many tokens they hold (`table`,
`length`). Requests and entries are kept in the same two functions because what is right for one
is right for the other; an entry is named by its key. The paths of the code that call several
operations (`admit` = reserve + restore_prefix, `ensure_capacity_batch` = evict +
allocate for each item, `release` = store_prefix + free) are compositions of
operators on that record; its loops (`Evicted`, `Trimmed`, `Needed`, `AfterEnsure`) are recursive
functions of the number of turns. The K/V of a position depends on all tokens up to it, so a slot
of `pool` *contains that token prefix*; a block given back loses its content, which is the
strictest reading of "nobody may rely on it". `Pack`, `Forward`, `Commit`, `Abort`
and `Resume` are the places where the worker thread can be; `Admit` happens only
between iterations (`scheduler.py:438-457` runs before the plan is built), while
`Release` may fall between the worker's steps, for requests that are not in its
batch — that is what the scheduler's `InFlightPinned` guarantees. Each of those
steps is atomic here; `CacheThreads` takes them apart.

### CacheThreads

`RaggedRunner.release` runs in the event loop while `ensure_capacity_batch` may run
in the worker, and neither takes a lock. Both are cut where the interpreter may
switch threads: between the test of `_evict_prefixes` (`EvictTest`), the look at the
oldest key (`EvictOldest`) and its `pop` (`EvictPop`); between the test of
`allocate` (`Allocate`), each pop of the free list (`Take`) and the update of the
owner map (`Own`); between the blocks of a `free` (`Give`); in `store_prefix` between
lookup, `move_to_end`, the sum over the entries, trimming, `popitem`, and the insert
(`StoreLookup` … `StoreInsert`); and in `free_for` between the beginning and the end
of the scan of the owner map (`ScanBegins`, `ScanEnds`, `DropTable`). `th` is the
place and the locals of each thread, `touched` what the worker changed since the event
loop began to iterate over it, so that a comprehension may raise. `Raise` is what
the code does with an exception: the worker gives back its completed allocations
and not what it has in its hand; `_finalize` swallows what a release raises
(`scheduler.py:646-649`), so the table stays (`leaked`).

### GraphForward

One forward of the ragged engine over physical blocks. `ExecuteBatch` takes any eligible
requests, sorted decodes first (`Orders`, by `Ahead`), and `Execute`s their plan: `Plan` cuts the items
to chunk and budget, `Growth` extends the tables, `Packed` lays out the batch
(`_pack`: rows, slots, block tables filled up with zeros, rows of the logits; these three are
recursive functions of the number of items taken, each turn an operator: `Scheduled`, `Grown`, `Extended`),
`PadDecode` (a batch of decodes is padded to the next power of two by repeating its last
row and the last of its sampled requests, of which there must be one: `Pads`), `CopyPacked` into the tensors of a
captured graph (a single row of logits is broadcast), and the reads: `KernelReads`
through the table of the batch, `ReferenceReads` through the cache's own table. Block 0
is a block as any other, and so is a zero that fills up a table. The K/V of a
token is the token's name; what a row attends to is the sequence it reads.
`kernel` is fixed at the start: graphs, the Triton kernel without graphs, or
the reference. `WarmGraphs` captures the graphs with throw-away requests, whose blocks
go back to the free list in another order; an engine without enough blocks for them does not start. `mismatch` says that the
last forward raised, `unsampled` (a history variable) that it was one for a graph with a decode that is not sampled.

### SerialForward

The forward of the modes `naive`, `contiguous`, `batched`, `paged` and `triton`, for a
request at a time. The naive runner recomputes the history, and on a near tie
once more through a cache it reserves and releases (`CanonicalReplay`); the cached
runner reserves the longest answer at admission and feeds one token at position
`prompt + tokens_fed - 1` (`Start`). `places` is the slot of each position, in a
buffer or in pages; the K/V of a token carries the position it was rotated for, so a
wrong rotation shows as a wrong read. In `triton` the kernel reads the decodes if
it is available and takes the batch; otherwise, and in the prefill, the reference appends
once more and gathers.

### RequestLifecycle, Scheduler and RaggedScheduler

`RequestLifecycle` is the state machine of `scheduler.py:1-14`, with the
stream as the sequence of all that was ever published: tokens 1, 2, 3, …, each
once, STOP last, put there in the step that resolves the future. One step more
is allowed than the docstring shows: a cancellation in flight is *marked* first
and closed later.

`Scheduler` has the state and the operations that both loops use: the waiting
deque and the active list, each request's state, counters and stream, the
funnel `Finalize` (`scheduler.py:640-668`) with `Deliver` under it
(`609-629`), and, as `Base…` actions, what the two loops do alike: `_reap`,
submissions, cancellations, consumers, timeouts, `close`. Each loop completes
them with what it leaves unchanged of its own.

`RaggedScheduler` follows `_run_packed`. `pc` is the place of the scheduler task:

| pc | code | actions |
|---|---|---|
| `reap` | `_reap`, `_drain_active_streams` | `ReapOverdue`, `ReapStalled`, `DrainActiveStreams` |
| `admit` | `_admit_waiting` | `Admit`, `AdmissionRefused`, `EndAdmission` |
| `plan` | `_build_batch_plan` | `PlanItem`, `EndPlan` |
| `flight` | `await _execute_batch` | `WorkerReturns` (the thread), `Land` |
| `settle` | the answer, or an exception | `SettleToken`, `SettleChunk`, `SettleOmitted`, `SettleCancelled`, `SettleError`, `EndSettle`, `Preempt`, `RefuseForCapacity` |
| `sleep` | `asyncio.sleep` | `Wake` |
| `stopped` | the task has returned | – |

An iteration of a loop of the code is one step, but no other task moves in
between: `Submit`, `Cancel`, `Consume`, the two timeouts and `Stop` require
`AtAwait`. The runner and the preemption policy are arbitrary: any hit shorter
than the prompt, any refusal, any of the three outcomes, any victim. The one thing it may not do is
raise in the release of a victim (`Preempt`): `scheduler.py:546` does not catch it, unlike `_finalize` (`646-649`), and
it would end the task with the victim in neither list. Nothing is in flight there and the blocks it gives back are the victim's
(`BlocksExact`), so that what is left is an exhausted device in the copy of `store_prefix`. Token number
k of a request is the number k, so that a stream shows every loss, repetition and
reordering; whether a token ends the request (EOS) is free, except that
`max_output_tokens` ends it. `release` of the runner has no state here: it is in
`PagedKVCache` and `CacheThreads`.

### SerialScheduler

The loop of the five baseline modes, with the runner's `step` for one request at
a time. `round` is what is left of the copy `list(self.active)`
(`scheduler.py:300`), which the list itself may have left behind: a request
cancelled during another's step is finalized at once, and must be passed over.
`current` is the request in the worker thread; the code keeps one `_inflight`, and
that there is never a second one is the shape of the loop. `pc` is `reap`,
`round` (`BeginRound`, `PassOver`, `DrainBacklog`, `Step`, `EndRound`), `admit`
(`Admit`, `AdmissionRefused`, `EndAdmission`), `flight` (`WorkerReturns`, then
`SettleCancelled`, `SettleError` or `SettleToken`, back to the pass or to the
admissions), `sleep`, `stopped`. `fed` is `tokens_fed`, from which the runner takes the next
token and its K/V position (`engine.py:168-190`).

### LeasePool, ResponsesHandler and the two gates

`ResponsesHandler` is where the handler of each connection is (`phase`), and
whether its engine request still runs (`live`). The framework is external: it
may cancel a handler at an await, and may drop a `StreamingResponse` before its
generator has started, in which case no `finally` runs (phase `dropped`).

`TenantGate` adds the counter and the token history of one tenant. Nothing is
awaited under the lock and `scheduler.submit` awaits nothing, so that acquire and
submit are one step with four outcomes: `Refuse`, `SubmitRefused`, and `Submit` of
a blocking or a streamed request. A tick is half a second, so that the integer
seconds of Retry-After are coarser than the stamps. `granted` is a history
variable: what was reserved within the window and not rolled back.
Connections send one request after another; a dropped stream keeps its lease
for good, as in the code.

`RedisTenantGate` has the two sorted sets and the hash of one tenant, the commands
under way (`mail`), and handlers that wait for an answer. `Serve` runs one
script; it may be late, or for a copy of a command the Redis client has sent
again (`Repeat`), or for a handler that has given up (`CallFails`). Each script
uses the time its container read before it sent the command (`asked`), so that
commands bring old stamps, and the containers' clocks are apart (`Ahead`).
`Tick` also applies the expiries of the keys.

### ApiServer

`server` follows `load` and `unload`: the checks that refuse a start
(`LoadServer`), the initialisation in a thread (`Initialized`), the policies that
are parsed with the loop already running (`AppCreated`), `Unload`, which cancels
everyone and tells the loop to stop, the five seconds `stop` waits (`StopTimesOut`),
and `Closed`. Of the scheduler there is only what the API sees: requests in flight,
tokens, ends (`Launch`, `Land`, `FlightFails`, `NoCapacity`). `orphans` names the
requests whose flight was given up after the time limit, or that were cancelled in a
flight that then found no capacity: nobody comes back to them. A request may be submitted while
`close` waits, because `ready` is cleared last (`latecomers`). The answers are modelled as
text: a token is a letter or a piece of a character that is split over up to `MaxPieces` tokens, the first of which says how
many follow (as in UTF-8, for a tokenizer of bytes as Qwen's is). `Text` decodes pieces as one replacement character until the last
makes them whole, and a stray piece as one; a vocabulary with byte fallback, which decodes each byte of an incomplete character
to a replacement character of its own, is not modelled. `Delta` sends what lies behind
the length of the text decoded before (`token_deltas`, `api.py:854-865`).

### SentinelChild and SentinelPilot

A child builds one engine, warms it up on each cell, and runs the phases of its mode
(`Script`). A prompt is the seed its tokens are derived from; `served` is every
prompt the engine has been given, which is what its prefix cache may know. A stop
rule or a crash ends the child, and what it leaves is its file or nothing.

The driver runs the pairs of a mode or of both, each in a container that runs a child for
either engine, in an order that alternates. `Kill` may fall anywhere, and
leaves a torn pair file if it falls into the write, a torn line of
`workloads.jsonl` if it falls into the append (`torn`; `tears` counts these kills). The next append goes on that line, and neither can
be read. `TakeFromDisk` is `--resume`. The claims are
functions of the files, as in `sentinel_report.py`.

### ProtocolV2 and ProtocolAudit

A comparison is a pair of results, each with its tokens and, for each token, the
engine's best choices with integer log-probabilities. `Reasons` and `Verdict` are
`classify_request` (the two `OptionalReasons` are empty, because no caller passes their arguments; `SelfVerified` is
the custom engine's only, because vLLM's `verified` is the constant `True`), `ProposedEpsilon` is `propose_epsilon`, `GatePasses` the test at the
end of `protocol_v2_holdout`. The batches of a split run in a fixed order, since their
order shows in no property; a batch whose child crashes leaves none of its results. `Commit` is
the person who copies a printed tolerance into the source.

The audit runs the target alone, in its batch, and first in its batch, for both engines,
and compares (`Analysis`). `BatchOf` and `TargetIndex` are `build_audit_variants`.

### EngineWorker and ModalApp

The views of the worker thread share no state, and neither do the functions of
`modal_app.py`, each of which runs in a process of its own. `EngineWorker` and `ModalApp`
put them side by side for one run: one is chosen at the start, the others stay in their
initial state. Their state spaces therefore add and do not multiply.

## The runs

Deadlock is checked in all of them: a scheduler's end is the explicit step `Halted`,
a gate always has a request to refuse or to end, or its metrics scraped, and a bounded
module ends in a named step (`FlightsSpent`, `ForwardsSpent`, `AllServed`, `Enough`, `AllRun`,
`Audited`, `Over`, `Gone`).

| Run | Question | Instance and why it is enough |
|---|---|---|
| `allocator` | Is a block ever lost, shared or taken over? | Four blocks, two owners, every list of blocks that `free` accepts: allocations of different sizes, given back in another order, by list and by owner. |
| `cache` | Does every position keep its own K/V, does every block stay in one place, and does the prefix cache give way before a growth is refused? | Three requests, four blocks of two slots, two prefix blocks. `r2` can reuse the prefix of `r1`; `r3` competes; prompts end inside a block and on its edge. All blocks can be taken, so growth is refused, prefixes are evicted, hits fail for room. The VIEW identifies states that differ in block numbers only. |
| `scheduler` | All safety of the packed loop, and the refinement of `RequestLifecycle`. | Two requests, prompts 2 and 1, outputs 3 and 2, queue capacity 1, token budget 2, chunk 2: a prefill is cut in two when both share the budget, a queue is full with one event behind it, a victim has emitted tokens, both orders of every race occur. Two requests are enough for victim and survivor; a third adds no new relation, only places in the lists. |
| `scheduler_live` | Does every request end? | The same with prompts of one token, so that the liveness graph stays small; preemption, stalls, timeouts and failures all remain. |
| `serial` | All safety of the serial loop, the refinement of `RequestLifecycle`, and does every request end? | Two requests, prompts 1 and 2, outputs 3 and 2, queue capacity 1, token budget 2: both stay active over several passes, a prompt has to wait for the next iteration, a consumer falls behind, a cancellation hits either request during the other's step. Only `r1` may outlive the queue timeout (`MayExpire`), so that it is the loop that ends `r2`. Small enough to check liveness in the same run; the limit of the active list, one comparison in the code, is never the reason to wait with two requests. |
| `tenant_gate` | Do the counter and the rolling budget stay exact however requests end, and does Retry-After suffice? | Three connections with requests of 3, 2 and 1 tokens, two leases, a budget of 5 in a window of two seconds of two ticks, eight instants: either limit can be the one that refuses, the window slides past all entries of the first second, and equal entries meet in the history. |
| `redis_gate` | Do the limits hold across containers, and does a slot leak only where a call went wrong or a stream was dropped? | Two containers a tick apart, one lease, a budget for either request alone; window 2, lease 5, times 0 to 4, and at most three commands for one request (`MaxSends`): acquire, release and one repetition, or two repetitions of the acquire. Within four ticks reservations leave the window and their keys expire (after 4), and a lease stamped at 0 is a tick short of its end, except on the fast clock, where it ends. The expiry of the key `active` (a window after its last lease) lies beyond `MaxTime`; it removes only leases that have run out. |
| `engine_worker` | Which invariants of the cache survive a release that overlaps a growth; and does every query of every forward attend to its own history? | *Threads*: three requests and three blocks, one prefix block, two plans (`MaxFlights`) that want up to two blocks for each table (`MaxNeed`): plan and release compete for the last block and for the last prefix entry; the second plan meets what the first left, prefix entries included. *Ragged forward*: three requests, prompts of one token, lengths to 4, blocks of two tokens, a pool of five, one short of what all need; budget 3, chunk 2, four forwards, one departure: three decodes are padded to a graph of four, a victim is recomputed in chunks over blocks others wrote, a recomputation behind two decodes is cut to one token that is not sampled, a table is shorter than the graph's. *Serial forward*: prompts of 1 and 2 tokens, answers of 1 and 3, pages of 2, four pages, two active: the third request gets pages that were written before, positions cross a page. |
| `modal_app` | Is nobody abandoned at shutdown, is a completed answer whole; are cold phases cold, claims sound, workloads kept; does the gate pass only what it may, and does the audit report the right request? | *Server*: one streaming and one blocking caller, answers of up to three tokens, characters of up to three pieces (`MaxPieces`): a split character with a letter before or behind it, one that is never completed, a stray piece, a flight of both or of either at the time of `Unload`, a submission behind it. *Child*: two cells, two requests, one or two warm-up runs, both modes and engines: each phase is met after another cell and after a variable number of warm-ups. *Pilot*: two pairs per mode, which run in opposite orders, two devices, two invocations: a kill and a resume, or a second run over the first one's files. *Protocol*: a cell of concurrency 1 and one of 2, two splits, nine comparisons: equal, different in the first token, in the second, in both, a token that is not the engine's own best, not finite, a margin too large, no margin, the other's choice unknown. *Audit*: a batch of three, the target in the middle, four answers for it, one of them that of the others. |
| `cancel_in_flight`, `stream_end`, `thread_leak` | Violations, one property each; see below. | The instances of `scheduler`, `scheduler_live` and `engine_worker`. |

The safety properties of the `scheduler` run, and what each would catch:

* `Residence` – a request lost between the lists, or in both: after a preemption,
  an admission failure, a cancellation at any await.
* `InFlightPinned` – a request finalized, and its blocks freed, while the worker
  thread computes over them.
* `StreamExact` – a token lost, repeated or out of order on its way through
  `output_queue` and `pending_events`, across preemption and recomputation.
* `PlanSound` – a plan over the token budget, a chunk that overlaps or skips
  tokens, a token sampled from an incomplete prefix.
* `AlwaysWork` – a runnable request every plan passes over.
* `LifecycleSpec` – all of it together, seen by the client.

The safety properties of the `cache` run: `BlocksExact` (each block once, in the free
list or under its recorded owner), `KVContent` (each committed position and each
cached prefix holds its own history), `LastTokenLeft` (a hit leaves a
token to compute), `EvictBeforeRefuse` (prefixes go before a sequence is
preempted).

The safety properties of the `serial` run are those of the packed loop where they
have a meaning, and

* `InFlightPinned` – a request that left the list during the pass and is stepped
  all the same, on a cache that has been released;
* `FeedsNext` – a step that feeds another token than the one generated last, or
  at another position, after a step that moved `tokens_fed` and then raised;
* `TerminalResolved` – a terminal request nobody finalizes. The packed loop
  violates it (`cancel_in_flight`), the serial loop keeps it.

Those of the gates:

* `LeasesExact`, `LeasesSpec` – a release too many, too few, or twice;
* `HistoryExact`, `WindowBudget` – a rollback that takes away another request's
  reservation, a reservation cut from the deque too early;
* `RetrySuffices` – a client that obeys Retry-After and comes back too soon;
* `LimitHeld` – a lease that Redis forgets while a container
  relies on it: by a purge with a fast clock, a key's expiry, a late command;
* `NoLeak` – a slot that is taken with no handler left to give it back, for another reason than a call that was
  repeated, raised or cancelled, or a stream dropped before its generator started (every call of which was answered).

Those of `engine_worker`:

* `Exclusive` – a block in two tables, or in a table and a prefix entry, because
  two threads took it, or one gave it back while the other had it;
* `GrowthWhole` – a growth that fails half way and leaves a request blocks its table
  does not have, whatever was released meanwhile;
* `AttendsOwn` – a row that reads by the table of another request, of the warm-up or
  of an earlier replay, a padded row that overwrites a live slot, a graph given
  tensors of another size. It also says exactly when these can happen: only in a batch for a graph with a decode that is
  not sampled, which takes a budget not above the active limit or a chunk of one token
  ([below](#where-code-and-documentation-disagree));
* `StepAttendsOwn` – a token at a wrong position, a page's old content, a room
  one token short.

What does not survive the overlap is `Conserved`, and that is the run `thread_leak`.

Those of `modal_app`:

* `NothingAbandoned` – a caller who waits for ever when the server has shut down;
* `StreamSound` – pieces of text lost or repeated, a request that failed reported
  as completed, a streamed character that differs from the final one and was not split over tokens. A split one always differs,
  which is [a disagreement](#where-code-and-documentation-disagree) with the documentation;
* `ColdIsCold` – a warm-up prompt, or one of an earlier cell, measured as cold;
* `ClaimSound` – a claim made from a pair that stopped, ran on two devices, or whose
  tokens differ, gathered over several interrupted runs;
* `WorkloadOnDisk` – a pair whose file is kept and whose workload is not: one such pair at most for each kill in the
  middle of an append, none without one;
* `CandidatesQualify` – a tolerance that its own calibration set would fail;
* `GateSound` – a gate that passes with requests missing, after a crash, with a disagreement no requirement excuses, or
  with tokens of the custom engine that are not its own best choices. It is about requirements 1 and 10 and the part of
  requirement 5 the gate evaluates; the rest is [a disagreement](#where-code-and-documentation-disagree);
* `AuditSound` – an audit that compares the outputs of two different prompts because
  the target is at another place in each batch.

Every property of a passing run has a mutant in PROJECT.json: a definition next
to the original, marked *Mutant* in the module, with which the property fails.

## Fairness

`FairSpec` assumes weak fairness of the scheduler task (`Loop`) and of the worker
thread: asyncio runs a ready task again, and a forward returns or raises. It
assumes strong fairness of the two timeouts of each request: time passes
whatever the task does, but its passing is a step at an await, and such steps
are enabled again and again, not continuously. Nothing makes a client submit,
cancel or read. `ReadingSpec` (only for `stream_end`) assumes instead that each consumer goes on reading (strong
fairness, for the same reason: a task with an event in its queue is run at each
await of the others). Under weak fairness alone the model's loop could always be
between awaits when a timeout wants to pass, which no real clock does.

`SerialScheduler` makes the same assumptions for the same reasons; in the run `serial`
the queue timeout passes for `r1` only.
All other modules have safety properties only.

`EventuallyResolved` of the packed loop holds under `FairSpec` only: without timeouts a request can wait
on its consumer for ever. It excepts requests that were cancelled, because of
the defect `cancel_in_flight` shows.

## The proofs

All theorems are checked by TLAPS with no step left out, for every value of the
constants that satisfies the named assumptions of the modules: any number of
requests, connections, blocks, tokens, cells, pairs, devices and times, and any bounds.
Most assumptions say what type a constant has; `ForwardAssumption` (`GraphForward`) in particular asks of budget and chunk what
`config.py:125` asks, that they are positive. Four say more, and rest on the code:

* `OwnersAssumption` (`PagedKVCache`): the owners of blocks are the requests and the entries, and no
  request is named like an entry; requests are `req-<n>` (`scheduler.py:245`), entries `prefix-<n>` (`cache.py:349`).
  With it goes `TextAssumption`: the requests are finitely many, and what a request will have
  been fed begins with its prompt, which is not empty;
* `ThreadsAssumption` (`CacheThreads`): no request is named like the owner of a prefix entry or like
  "none"; requests are `req-<n>` (`scheduler.py:245`), entries `prefix-<n>`;
* `ComparisonAssumption` (`ProtocolV2`): the two sides of a comparison are of one length, and vLLM has returned choices for each
  token. The harness fixes the output length (`ignore_eos`, `protocol_v2.py:476`,
  and `eos_token_id=None` on its own side, `:422`) and asks vLLM for the choices (`logprobs=TOP_K`);
* `OutputAssumption` (`ProtocolAudit`): the same of the outputs the audit compares.

Several statements speak about a recursively defined value: a sum, a maximum, a decoded text, a packed batch.
The library's induction theorems are out of the provers' reach, but induction by the
least counterexample is not: that a recursive *function* exists and is what its equation
says is a lemma for each of them (`FedExists`, `IsText`, `IsSum`, `IsTotal`), and what it computes
follows from the step between two of its arguments.

**PagedKVCache_proofs.** First the allocator by itself. `AllocatorInvariant`: `PoolSound`, its type and `Exact`, is
inductive as it stands. `Allocate` splits the free list into the part it keeps and
`Popped`; `Free` needs that its argument has no repetition and is owned, which
is what `MayFree` checks. `Conserved` (`assert_invariants` of the code) follows by counting: the free list is a
bijection from `1..Len(free)` to the blocks without an owner. `NeverStolen` follows
step by step: what is popped had no owner. This is the allocator
with one caller at a time; with two threads its conservation is what `thread_leak` refutes.

The invariant of the cache is `CacheInv == TypeOK /\ Sound(cache) /\ Whole(cache) /\ BatchSound`.
`Sound` is a conjunction over the owners, and that is what makes the proof of many operations short: an owner *owns*
the blocks of its table, each once, and nobody else does (`Owns`); what these hold is its own history (`Content`); and an owner that
is neither resident nor cached has none (`Placed`). An operation that works on one owner's blocks leaves the others'
alone because blocks of two owners are apart, which is said once (`SoundAfter`, `ContentKept`). `Whole` is the one fact that is not kept within an operation: an
entry has all the tokens of its key. Between its parts (`Granted`, then `Copied`) the new entry has blocks and no
tokens, so the two are proved separately. `BatchSound` is what a plan in the worker relies on: its items are different requests,
none of which is released meanwhile; after `Pack` their tables reach their ends (`Ready`), after `Forward` the new
positions hold their own tokens (`Written`), which is what `Commit` turns into committed ones. Without it `KVContent` is not
inductive, since a commit believes that the forward has written. That the forward itself destroys nothing needs that no
two positions share a slot (`SlotsApart`, `PlaceApart`): the delicate case is the block that
is partly filled by committed tokens.

`Shrunk(c, d)` says what eviction and trimming may do, whatever they drop: entries go, their blocks
are free, everything else is as it was. It is transitive, so that it goes through the turns of both loops, whose existence as functions
is `Recursion` and whose induction is `Upto`. `EvictedSound` adds when eviction stops: the blocks suffice, or nothing that may go is
left. That is why a refused growth has emptied the prefix cache (`EvictedBeforeRefused`), and why a copy never reads an entry the
same operation has evicted: the protected one stays. `LastTokenIsLeft` is arithmetic on the aligned length of a prompt.
Results besides: `CacheTypeCorrect`, `BlocksAreExact`, `ContentIsOwn`.

**EngineWorker_proofs.** What the two threads cannot break although nothing locks them
out of each other's operations. `ThreadsInv` says at which places each thread can be
(`ThreadPlaces`), that the worker's plan and the event loop's request are different
ones (`PlansApart`), and where each block is between two steps: in the free list, in a table, in
an entry of the prefix cache, or in the hand of the thread that popped or gives it
(`BlocksApart`, `EntriesApart`, `TablesApart`). The invariant must name the hands, because most
steps move a block from one place into a hand or out of it. `BlocksAreExclusive` follows: the
missing lock can lose blocks (`thread_leak`) but never puts one in two places.
`GrowthIsWhole` follows from `TablesApart`: however a growth ended, a request owns the blocks of its
table and no others.

For the serial modes the invariant is `ServingInv`: the slots of a request are its own (`PlacesApart`), whole pages that are in
neither another table nor the free list or a buffer of its own (`PagesOwn`, `BuffersOwn`); up to the length of a request each
position holds its own token (`HoldsOwn`); and between two steps that length is what has been fed, with
room for the rest (`ServingCached`). The last part makes `Start` right, and a decode by the kernel, which masks by nothing but the
length. Each operation of the cache has a lemma (`ReserveSound`, `AppendSound`, `ReleaseSound`), a call of the
model has one (`ForwardOwn`: it appends behind what the cache knows and attends to all of it), and the replay is that call,
repeated (`ReplayOwn`). `StepsAttendOwn` follows for each of the five modes.

For the ragged engine it is `ForwardInv`: the blocks of a table are neither shared nor free (`TablesOwn`), every position a
request has been fed lies in its table, and its slot holds the request's own token (`PoolOwn`); a graph has as many rows of logits as
its size says (`GraphsSized`), and until the warm-up no block has an owner (`NotYetWarm`), which is why the warm-up may write where it
likes. `AttendsOwn` is about a whole plan, so most lemmas are inductions over its items, one for each of the model's recursive functions:
the plan feeds each request at most once, from where it stands (`PlanIs`); the growth covers every item's end and
keeps the blocks apart (`GrowthIs`); and in the packed batch each position to be fed has a row, every row goes to the slot
its request's table gives and reads by that table, and each sampled request's logits are of its last row (`PackedIs`). Then all
rows are written, and a slot holds the token of a row that addresses it, all of which have the same one, or what it held before
(`WrittenOwn`). Padding repeats the last row, so it writes the same token once more.
What the rows of the logits mean depends on what is sampled. When all items of a graph's batch are sampled, row `k` of the logits is row
`k` of the batch and stays it when the batch is padded (`PaddedOwn`), and the graph of that size has as many (`GraphsSized`), so
that a replay has the right shape. `PlanDecodes` says when they are: unless the budget is not above the active limit or
the chunk is one token. With a chunk above one at most the *last* decode is not sampled, cut off by
the budget: the batch is then either used as it is (`Unpadded`, `CopiedOwn`) or padded, copied and refused, and
whatever is answered has still read its own rows. With a chunk of one the claim is only that such a batch is what `unsampled` says.
`QueriesAttendOwn` follows, for every budget and every chunk.

**Scheduler_proofs.** What the two loops share, once: what queue operations do to the
members of a sequence; that each of their moves — admission, submission, cancellation, an end — keeps `Places`,
that is types and `Residence`; that delivery, finalization, draining, consumption and a stall of the
consumer keep `Streaming == StreamType /\ StreamExact /\ BacklogBounded`, given which requests publish nothing
(`Published`); and that a step which changes one request in one of five ways (`Shifts`, `Emits`, `Completes`, `Ends`,
`ClosesMarked`) is a step of `RequestLifecycle` (`ChangeIsStep`), and one that changes no state, counter or future
a stutter (`QuietIsStutter`). `StreamExact` rests on one lemma about `Deliver` (what moves from pending to the queue
leaves the concatenation as it was), for which concatenation is kept opaque with two facts,
closure and associativity. By `StreamExact` the published stream is what a request is owed by its counters
(`Owed`), so that the refinement is about `state`, `gen` and `resolved` alone.

**RaggedScheduler_proofs.** The inductive invariant of the control half is
`Control == ControlType /\ Residence /\ InFlightPinned /\ PlanPlace`. `Residence` is not
inductive alone: that a settled request can be taken out of the active list
needs that it is there, which is `InFlightPinned`; and that nobody takes a planned
request out needs to know at which `pc` a plan can exist, which is `PlanPlace`
(outside plan, flight and settle the plan is empty). The proof has one lemma per
action; `Cancel` uses that at an await a planned request is in `Inflight`. From it:
`ResidenceHolds`, `PinnedInFlight`, and `TerminalIsFinal` ([][...]_vars).

On top of it, `Feeding`: a request being computed that no unsettled plan holds has less
fed than is known (`Working`); every item of a plan begins where its request stands and ends at
most at its last token (`ItemSound`); and the forward has an outcome only while one is
settled (`OutcomePlace`). The delicate step is `SettleChunk`, which moves
`tokens_fed` to the end of the item: that the request still has work there
is the item's `sample` flag, fixed when the plan was made. `RunnableHasWork` follows.
`PlansAreSound` adds the budget: while a plan is built, what is left of the budget and what the plan
feeds make up `max_batched_tokens` (`Spent`), whatever was preempted in between.

`Streams` adds `CaughtUp` to `Streaming`: a request in a plan had nothing pending when it was
planned, and nothing is added to its backlog until its item is settled; `BacklogBounded`
needs it. Results: `StreamIsExact`, `BacklogIsBounded`, `TypeCorrect`.

Last, `LoopImplementsLifecycle`: `StepChanges` shows that a step changes nothing of the abstract state or one
request in one of the five ways. The one strengthening is `OnlyMarked`: the only terminal
requests without a resolved future are the ones cancelled in flight.

**SerialScheduler_proofs.** `SerialInv` has `Places`; where a request can be in flight
(`FlightPlace`, `InFlightPinned`); that what is left of the copy has been admitted once
(`RoundAdmitted`); `tokens_fed` against what has been generated (`FedGenerated`: equal
but for the request whose step is over and not settled, and for those that have failed); and
that a terminal request is resolved or in flight (`EndsResolved`). `SerialResidence`, `SerialPinned`,
`SerialFeedsNext` and `SerialResolves` follow. The last one has no counterpart in the
packed loop. `SerialStreams` needs another `CaughtUp`: nothing is pending for the request in
flight and for those not admitted yet. `SerialTypes` needs that the budget is never overdrawn (`Budgeted`).
`SerialImplementsLifecycle` follows as in the packed loop.

**TenantGate_proofs.** `GateInv` is the type of `phase` and `LeasesExact`, which is
inductive with it: a lease is granted below the policy only, and every end of a
holder is one `Done`. Two lemmas say what a step does to the set of holders
(`SubmitHolds`, `DoneReleases`), a third that all others leave it alone; they serve
both `LeasesAreExact` and `GateImplementsLeasePool`, in which each step of the gate
is an `Acquire`, a `Release` or a stutter of `LeasePool`.

`HistoryInv` is about the history the code cuts from the front and searches by value (`Agree`): at every
later cut it has the total of what was granted and not rolled back, and it has as many copies of
each entry of the window. Both halves are needed, because a rollback removes the first *equal* entry,
perhaps that of another request, which does no harm as equal entries count the same. `HistoryIsExact` and
`BudgetIsHeld` follow; `RetryIsEnough` is arithmetic about the oldest entry and the rounding up to a second.

**RedisTenantGate_proofs.** Two invariants. `Account` says of a request none of whose calls was repeated, raised or
cancelled that at most one command of it is on its way, the one its handler waits for, and that its lease is stored
only between the grant and the release. `GateInv` says what Redis knows: no stamp is in the future of its
clock (`Stamped`); a request that is served has its lease in the set until every clock takes it for expired
(`LeasesKept`); the leases *no* clock takes for expired are at most the policy (`SlotsCounted`, `Lead`); and what was granted
within the window of the fastest clock is counted with all its tokens (`BudgetKept`) and within the budget (`BudgetHeld`). The
fastest clock is the strengthening: a container whose clock is ahead removes leases others still take for valid, so
the bound must hold for what it leaves. `LimitIsHeld`, `BudgetIsHeld`, `NothingLeaks` and the types follow.

**ModalApp_proofs.** `ChildInv` bounds what the engine of a child has
been given: prompts of earlier cells and of earlier phases of this one, whose seeds
are different because the phase is part of them. `PilotInv` says of a pair under way that its children are
those of its order and that only the last may have ended badly (`ChildrenInOrder`), of a
pair on disk without a stop that it is sound (`PairsOnDiskSound`), and counts the pairs whose workload cannot be read (`Lost`: those on disk without a line, and the one under way
whose append went on a torn line) against the kills in the middle of an append, of which a line that is still torn has one to spare
(`LossesCounted`). `ServerInv` accounts for every terminal request (`EndsAccounted`), and
knows that closing has cancelled everyone but latecomers and that nothing flies
without a loop. `AnswersInv` relates what a handler has sent to what its request has generated (`PiecesMatch`, for the
decoding of any prefix, by `IsText`). `ProtocolInv` says what has been compared: while no child has crashed, every request
of the batches that have run. `AuditInv` says what the children have returned and what the report was made from.
Each is about one function of the app; the last lemmas carry them over to `ModalApp`, in which a step of one
function leaves the others' state alone. Results: `ColdPhasesAreCold`,
`ClaimsAreSound`, `WorkloadsAreOnDisk`, `NobodyIsAbandoned`, `StreamsAreSound`, `GateIsSound`,
`CandidatesDoQualify`, `AuditIsSound`.

Only model-checked is liveness, `EventuallyResolved` of both loops, which is beyond the prover.

## Where code and documentation disagree

Three are runs that TLC must find violated; PROJECT.json quotes the lines.

1. `cancel_in_flight` (`TerminalResolved`). A request cancelled while its batch is in
   the worker thread is only marked (`scheduler.py:282`). If the batch then raises
   `CacheCapacityFull`, the capacity branch (`scheduler.py:384-394`) never finalizes
   it, unlike the other two outcomes: it stays in the active list with its blocks,
   its future unresolved.
2. `stream_end` (`StreamEnds`). A request that ends while its queue is full keeps its
   last token or STOP in `pending_events`; only active requests are drained again
   (`scheduler.py:431-434`, `642-653`), so its consumer waits for ever.
3. `thread_leak` (`Conserved`). `allocate` tests the length of the free list
   (`cache.py:121`) and then pops (`cache.py:125`); a release in the other thread may
   empty the list in between. The pop raises, and the blocks popped before are
   neither free nor owned, against "free_blocks + allocated_blocks == total_blocks"
   (`cache.py:84`). Related: whatever escapes a release is swallowed by `_finalize`
   (`scheduler.py:646-649`), and the request's table and blocks stay.

The others were met while modelling and are not the subject of a run.

*Scheduler.* The queue timeout of a preempted request counts from its first arrival
(`scheduler.py:568`), so a victim may be timed out instead of recomputed; no
statement says which is meant. In the serial loop a prompt longer than
`max_batched_tokens` fits no iteration (`scheduler.py:330`) and holds up the queue
until it times out.

*Cache and runner.* A growth that is refused has already evicted the prefix cache
(`cache.py:380`), where the class says that an iteration "either acquires every
required block or changes nothing" (`cache.py:240-242`); `GrowthWhole` is about
tables and owners, for which it is true. `stats` (`cache.py:507`) iterates over the prefix
entries in the event loop while the worker may evict.

A plan calls every item of one token behind the prompt a decode (`scheduler.py:514`), also a token of a
recomputation after which nothing is sampled yet. That takes a budget not above the active limit or a chunk of
one token; `validate_config` accepts both (`config.py:125`), and no shipped configuration has either (a budget of
2048 for 16 active requests, a chunk of 256). With CUDA graphs a batch with such an item has fewer rows of logits
than rows; the run `engine_worker` reaches it. With a chunk above one it is computed rightly or refused: `copy_`
gets tensors of another shape, or the padding finds no sampled request to repeat (`engine.py:303-314`, `353-356`), and
the forward raises for all its requests. With a chunk of one token it can go wrong silently: a batch of a decode, an
item that is not sampled and another decode is padded to four rows, which then all count as sampled, and the
third request gets the token of the second one's row. These two cases are the only exceptions of `AttendsOwn`.

*API.* A Redis lease runs out after `lease_seconds` whatever its request does
(`api.py:307`), where README.md:590-591 says that it is held through the full SSE lifecycle. A stream that is dropped before its
generator starts (`api.py:867`) releases nothing: its lease stays for good in the process-local gate and until it expires in Redis, though
every call was answered, and its engine request runs on; docs/architecture.md:91-92 says that every end converges on "the same idempotent
release path". `LeasesExact` and `NoLeak` name this case. The
audit of a request follows the release of its lease, so that a release that raises,
or a handler cancelled in `wait()`, skips it (`api.py:833`, `890`), where README.md:595
says that every terminal request is audited. An event stream sends `output_text.done`
whatever ended the request. And README.md:657-658 says that the "Concatenated deltas equal both
`response.output_text.done.text` and the final response text", as a test does for pieces that split no character (`tests/test_api.py:320-330`). The
text of `output_text.done` is the concatenation; the final response is decoded from all tokens, and where
a character is split over tokens, the deltas have a replacement character and the response has the character
(`api.py:854-865`: the delta is what lies behind the *length* of the text before). `StreamSound` states the equality
with exactly this exception: every split character, and no other, was streamed as the replacement character.

*Sentinel pilot.* NEXT_EXPERIMENT_HANDOFF.md:60 says of a failed pair "Do not replace or silently omit"; a
start without `--resume` runs it again and overwrites its file. A resumed run
overwrites `source-manifest.json` (`modal_app.py:1874`) though earlier pairs may come from another
commit. `workloads.jsonl` is documented as one line per mode and pair
(`experiments/sentinel-pilot/README.md:55`); a repeated pair appends another line, and a
line torn by a kill spoils the next, whose pair is then on disk without a workload (`WorkloadOnDisk` bounds how many).
`_sentinel_self_consistency_check` (`modal_app.py:1917-1980`) looks for a child's cells
also where the child has left a stop instead of a result.

*Protocol v2.* Of the hard failures that requirement 5 lists (CORRECTNESS_PROTOCOL_V2.md:91-115), the gate
evaluates neither drift between a request alone and batched nor identity or KV corruption between requests (99-109):
`classify_request` has two arguments for them, which no caller passes (`protocol_v2.py:228-241`; its docstring admits as
much). Nor does it look at vLLM's own choices, though the requirement speaks of an engine's own token and top-k: `verified` is the
constant `True` there (`protocol_v2.py:499`). So a holdout with such a failure can pass, and `GateSound` claims
nothing about them. Besides, `batch_vs_solo_drift` finds no drift between two lists of best choices that
have nothing in common, and `first_disagreement` compares only the window both
outputs have; `GateSound` and `AuditSound` are checked over outputs of one length, as
the harness's fixed output length makes them.

## What is not modelled

* Floating-point numerics: scores, softmax, strides, tiles, layers, checkpoints. What a
  query reads and writes is in `GraphForward` and `SerialForward`; that a masked weight
  is exactly zero is assumed.
* Metrics and profiling ranges: nothing reads them back into control. `recompute_until` and
  `recomputed_tokens` are metrics of this kind.
* Clock values: only whether a timeout has passed. Throughputs: only whether a
  warm-up may count as steady.
* `Scheduler.drain`, which nothing calls; a `StopIteration` out of the worker, which
  asyncio does not deliver before Python 3.12.
* Loss of the data of Redis in a restart, and the failure of a container of the
  service: nothing in the code handles either but the expiry of leases, which is modelled.
* Request validation, authentication, rendering of metrics, the command line and the
  console: sequential, stateless, or outside the service.
* Smoke tests, load generators, GPU suites, the controlled experiment and other benchmarks,
  the pilot's self-consistency check and the divergence diagnostic of protocol v2:
  fixed lists of runs whose results are read by a person.
* The composition of the scheduler with the cache in one state space: each module assumes of the
  other what that one is checked for (`InFlightPinned` on one side, any outcome of the runner on the
  other).

## The plan

Done, in this order: `BlockAllocator` and its proofs; `PagedKVCache`;
`RequestLifecycle`, `RaggedScheduler` and their proofs; `LeasePool`,
`ResponsesHandler`, `TenantGate` and its proofs; `RedisTenantGate` and its proofs;
`Scheduler` as the common part of `RaggedScheduler` and `SerialScheduler`;
`CacheThreads`, `GraphForward`, `SerialForward`; `ApiServer`; `SentinelChild`,
`SentinelPilot`, `ProtocolV2`, `ProtocolAudit`; the proofs of `AlwaysWork`, of both
loops' refinement of `RequestLifecycle` and of their streams, of the server, of the
pilot and of the protocol; the inductive invariant of `PagedKVCache` and what follows from it; `StepAttendsOwn` of the serial modes
and `AttendsOwn` of the ragged forward.

Next:

1. *RaggedEngine*: `RaggedScheduler` with `PagedKVCache` as its runner, so that what the two
   modules assume of each other becomes a property.
