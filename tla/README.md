# TLA+ models of the KVarN K4V2 runtime

This directory holds the formal model of the runtime's own core: the exact-row
pool of the KVarN MLA cache, the live block tracker that decides which cache
blocks must have exact rows, the asynchronous scheduler whose optimistic token
counts the tracker works from, the block pool and prefix cache that hand physical
blocks from request to request, and the threads that settle a batch. The rest of
the repository (a vendored vLLM, the quantised attention kernels, images and
scripts) surrounds that core and is listed below with what is taken from it.

The modules follow the deployed overlay: `src/active-r634-kvarn-k4-native/`,
`src/active-r634-b12x-compact/` and `src/active-r634-runner/` override the files
of the same name of the vLLM build in `src/build-exact-h16-v1/`. The launch
script `src/start-full-expert-335-512k-c2-b2048-g4.sh` fixes the features that
matter: asynchronous scheduling, prefix caching, three MTP draft tokens, decode
context parallelism over four ranks, a block of 64 rows per rank, a precision
tail and a boundary ("sink") of exact tokens.

Running a check: `tlc -config MCExactPool.cfg MCExactPool` and likewise for the
other rows of the table of runs. Checking the proofs: `tlapm ExactPool_proofs.tla`,
and likewise for the other modules whose name ends in `_proofs`.

## 1. The system

### 1.1 What the runtime does

A token's latent KV row is first written exactly (fp8) into a slot of a small
*exact pool*; when its block is no longer among those that must stay exact, the
block is quantised ("packed") into the paged cache and its slot is reused. Which
blocks must stay exact is decided on the CPU, before every step, from the token
counts of the scheduler. Those counts are optimistic: with asynchronous
scheduling the next step is scheduled before the GPU has said how many draft
tokens of the last one were accepted. If a block lacks a slot, the scatter
kernel drops its rows without an error; if a block loses its slot before it is
full, its rows are lost; if a slot is given to two blocks, the context of one
request leaks into another. None of these shows as an exception.

### 1.2 Components

| Component | State | Operations | Interacts with |
|---|---|---|---|
| Exact pool, `KVarNMLAStateManager` / `_GroupState` | `mapping`, `free_slots`, `block_fill`, `flushed`, device mirror `block_to_slot`; per layer the slots and the packed records | `prepare_step`, `rebind_cache_pointers`, `reset_cache_bindings`, `ensure_mirror` | called twice a step by the attention metadata builders; calls the pack and rehydrate kernels of each layer |
| Live block tracker, `KVarNMLALiveBlockTracker` | `request_blocks`, `step_blocks`, `pending_blocks`, `epoch_blocks`, `resolved_blocks`, `request_full_context_groups` | `update`, `resolve_async`, `block_fills`, `mark_request_unknown` | updated by the runner, read by `prepare_step` |
| Runner, `model_runner.py` | request states, `_kvarn_mla_pending_resolution`, `ownership_step` | `execute_model`, `finish_requests`, `add_requests`, `_update_kvarn_mla_ownership`, `sample_tokens`, completion callback | scheduler output in, ownership out |
| Scheduler, `Scheduler` / `AsyncScheduler` | `running`, `waiting`, `num_computed_tokens`, `num_output_placeholders`, `finished_req_ids` | `schedule`, `_update_after_schedule`, `update_from_output`, `finish_requests` | KV cache manager; engine loop |
| KV cache manager and prefix cache: `KVCacheManager`, `FullAttentionManager`, `BlockPool`, `FreeKVCacheBlockQueue` | the doubly linked free queue with its counter, `ref_cnt` and `block_hash` of a block, `cached_block_hash_to_block`, `req_to_blocks`, `num_cached_block` | `get_computed_blocks`, `allocate_slots`, `cache_blocks`, `free`, `reset_prefix_cache` | called by the scheduler |
| Engine loop, `EngineCore.step_with_batch_queue` | the batch queue | start a step, complete the oldest batch, aborts | scheduler and executor |
| Worker outputs, `AsyncOutput`, `WorkerProc` | `completion_callback`, `completion_lock`, `copy_event`, `async_output_queue` | `resolve_completion`, `get_output`, `handle_output` | main thread and output thread of a worker |
| Slot mapping, `block_table.py` | block tables | which rank stores a position, and where | kernels |
| Kernels: scatter, pack, rehydrate, `kvarn_mla.py` | none of their own | row writes, packing | the pool and the records |
| Sizing, `KVarNMLAConfig.pool_slots` | none | number of slots of the pool | allocation of the pool |
| Speculator; quantised attention; sparse indexer; vendored engine; launch scripts | — | — | not modelled, see section 7 |

### 1.3 The hard behaviours

* **Two clocks.** `num_computed_tokens` in the scheduler counts drafts of batches
  in flight as accepted; the GPU's row count does not. Ownership is computed from
  the first, rows are written according to the second.
* **Two threads, one unlocked tracker.** The callback of a batch may run on the
  output thread or on the main thread; the tracker and
  `_kvarn_mla_pending_resolution` have no lock.
* **Two `prepare_step` calls per step**, for the target's and for the
  speculator's layers, on shared bookkeeping.
* **Retire, pack, free, reallocate, rehydrate in one call**, and an error in the
  middle of it.
* **Preemption and aborts while a batch of the request is in flight**, followed by
  reuse of its blocks, by prefix hits on them, and by a late correction.
* **Empty steps**, which update the tracker and return before `prepare_step`.
* **Hits against eviction**: a freed block keeps its hash until it is handed out
  again, a hit takes it back out of the free queue, and the capacity check runs
  before either.
* **Registered before written**: a block enters the prefix cache when its step is
  scheduled, not when it has run, and drafts of that step may be rejected.
* **Boundaries**: ends of blocks, of the precision tail, of `max_model_len`, of
  the interleave of a context-parallel rank.

`PROJECT.json` lists the hazards line by line, each with the properties aimed at it.

### 1.4 What makes each component correct

* Pool: a slot belongs to one block or is free; the mirror agrees with the mapping;
  every reader finds the latest rows of its own block; the pool error is only a
  sizing error; the second `prepare_step` of a step is a no-op.
* Tracker: every block a step writes rows into is in the snapshot; a block with
  readable rows leaves it only after it was published as full; the precision tail
  and the sink stay; the snapshot fits the pool; dead requests hold nothing.
* Scheduler: its counters and the worker's agree once the batches in flight are
  accounted for; every request finishes.
* Cache manager: an allocation that was found to fit goes through; free queue,
  counts and index agree; a request reads rows of its own text only; a chain of
  hashes is never broken in the middle; blocks that cannot be hit go first.
* Settlement: exactly one thread settles a batch, before ownership moves on, for the
  epoch that is open, and every batch is answered.

## 2. Modules

```
TokenBlocks     pure token arithmetic of one rank
  BlockTracker      the tracker: its variables and operations
                                                       (BlockTracker_proofs, for both)
    KVarNServing        scheduler + engine queue + runner + tracker + prepare_step
      MCKVarNServing             (KVarNServing_proofs, KVarNBlocks_proofs on top of it)
    TrackedSequences    the tracker over long sequences and over DCP ranks
                                                       (TrackedSequences_proofs)
ExactPool       the pool, against the contract of the tracker
  MCExactPool                                          (ExactPool_proofs)
Settlement      abstract: a batch is settled in one step, before ownership moves on
AsyncOutput     main thread, output thread, lock, event, pending resolution;
                implements Settlement                  (AsyncOutput_proofs)
PrefixCache     abstract: how blocks pass from request to request
                                                       (PrefixCache_proofs)
FreeQueue       the doubly linked list of free blocks
  BlockPool         counts, eviction, hash index, allocate_slots;
    MCBlockPool     implements PrefixCache             (BlockPool_proofs, for both)
```

The specifications meet at these interfaces. `ExactPool` assumes of the
tracker only `MayLeave` (a block with readable rows leaves the snapshot after it
was published as full) and that rows are written into named blocks;
`KVarNServing` makes exactly these two promises, as `LeavesOnlyFull` and
`RowsNeverDropped`, checked and proved. `KVarNServing` treats settling a batch as one atomic step
before the next ownership update; this is `Settlement`, and `AsyncOutput` is shown
to implement it by a refinement. `KVarNServing` lets any free block be taken and any
cached blocks be hit; `BlockPool` has the real order and the real index, and is proved
to implement `PrefixCache`.

### 2.1 `ExactPool`

One `_GroupState` with the layers that share it. Each variable has the name of
its Python counterpart where there is one.

| TLA+ | Code |
|---|---|
| `mapping`, `free`, `full`, `flushed`, `mirror` | `state.mapping`, `free_slots`, `block_fill`, `flushed`, `block_to_slot` |
| `pool`, `record`, `valid` | per layer the slots of `_kvarn_latent_pool`, the packed tiles of the paged cache, and the rows readers may ask for |
| `bound` | `_kvarn_cache_ref is not None` |
| `Publish` | the snapshot of the tracker arrives (`_get_kvarn_mla_block_fills`) |
| `PrepareTarget`, `PrepareDraft` | `prepare_step` from the builders of target and draft |
| `ForwardTarget`, `ForwardDraft` | binding the cache tensor and `scatter_kvarn_mla_exact` |
| `Reassign`, `Rollback` | a block gets a new owner; rejected drafts give rows back |
| `Rebind`, `Reset` | `rebind_cache_pointers`; `initialize_kv_cache` with `reset_cache_bindings` |

Abstractions. Bytes are not modelled: a slot holds *whose* rows it has and how
many leading ones are current; a record how many leading rows it restores.
`block_fill` is the set of the blocks published with a fill of `config.group`,
the only distinction `prepare_step` makes. `mapping` and `mirror` are total
functions with `NoSlot` for an absent entry. The LIFO list of free slots is a
set and any assignment of distinct free slots is allowed, which covers the one
the code takes. The pool-exhausted `RuntimeError` (`Exhaust`) leaves what the code
has changed by then and stops the worker. `ensure_mirror` is part of `Init`.

### 2.2 `TokenBlocks` and `BlockTracker`

`TokenBlocks` is the arithmetic: the closed formula for a rank's share of a
prefix (`LocalTokensOf`), the blocks to keep (`Kept`, `PersistentBlocks`), and,
independently, the position-by-position rule of the slot mapping kernel
(`IsLocal`, `BlocksOf`). `BlockTracker` is the tracker: `Update`, `ResolveAsync`
and `BlockFills`. An epoch id is the tracker key, since the runner passes none;
the generation of a key only separates lives of one request id and is folded into
it. `rollback_tokens` of a request is 0 whenever `Update` runs, because settling
the last batch has reset it. A fill of 0 stands for the code's `None`.
`mark_request_unknown` is left out: the pending output is resolved before a
request is removed, so that its guard never holds there.

### 2.3 `KVarNServing`

| Action | Code |
|---|---|
| `StartStep` | `step_with_batch_queue` decides to schedule |
| `ScheduleRunning`, `Preempt` | the loop over `running` in `schedule()`: a request has its `Turn` when those before it had theirs and `tokenBudget` is left |
| `AdmitNew`, `Resume` | the loop over `waiting` |
| `Dispatch` | the rest of `schedule()`, `_update_after_schedule`, and `execute_model`: request states, tracker update, `prepare_step`, forward pass and sampling; for a batch of no tokens only up to the early return |
| `Settle` | the completion callback reports accepted ends to the tracker |
| `Complete` | the oldest batch leaves the queue: `update_from_output` |
| `Abort` | `finish_requests` from a client |

Execution is atomic at `Dispatch`: the rejections are chosen there, the tracker
hears of them at `Settle`, the scheduler at `Complete`. In between the engine may
schedule another batch, preempt, abort and reuse blocks. The mode (asynchronous
scheduling or not) is fixed at the start and both are explored.

Abstractions. Token values are not modelled: rejections, stops and prompts are
free choices, and a prefix hit may take any blocks that were cached at the right
positions (a superset of the hits the hashes allow). The free list is a set: any
free block may be taken, whatever the order of eviction. `batch`, `dropped` and
`lost` are the batch under construction and the two records the properties read.
Rows of draft and lookahead tokens are written as far as the table goes. The
request of a new name waits outside until it is admitted; the watermark is 0;
`scheduler_reserve_full_isl` is on.

### 2.4 `TrackedSequences`

The tracker alone, under *any* scheduler that respects the token budget, with
sequences long enough for blocks to leave the precision tail. It is where the
tail, the sink, the size of the snapshot and the deal of tokens to ranks are
checked, which would need too many states in `KVarNServing`.

`rows` is what the GPU has valid rows for, `computed` is the scheduler's
`num_computed_tokens`. `Schedule` raises `computed` by all tokens of the step and
`rows` by the accepted ones; `Settle` is the completion callback, which reports the
end `computed` gives it to the tracker; `Report` is `update_from_output`, which takes
the rejected tokens back. A request first prefills in chunks and then decodes one
token and its drafts at a time (`decoding`). A step may also leave every followed
request out. `tables` are the block tables, with the lookahead reserved or not.

### 2.5 `AsyncOutput`

Both threads step through `resolve_completion`, `get_output` and
`_run_completion_callback`: `Check` (look at the callback under the lock),
`Synchronize` (wait for the event), `Claim` (take the callback and the lock),
`SettleRequest` (one request of the callback), `Clear` (last statement and
unlock). The main thread adds `Take`, `Update`, `Stash` and `Answer`, the output
thread `Dequeue` and `Deliver`. `outputRank` says whether this rank answers the
engine; on any other rank nobody but the main thread ever settles a batch.
Batches are numbered; the number is also `ownership_step`, so that the two guards
of the callback are one comparison. A batch of no tokens has no callback. Failures
of the forward pass and shutdown are left out.

`Settlement` says what this amounts to: `MoveOn` (ownership goes to the next batch,
only when nothing is unsettled), `Settle` (a whole batch at once) and `AnswerNext`.
Under the refinement mapping of `AsyncOutput` the batch is unsettled until the last
request of its callback has been reported, all smaller steps of the threads stutter.

### 2.6 `FreeQueue` and `BlockPool`

`FreeQueue` is `FreeKVCacheBlockQueue`: `next` and `prev` pointers with the two fake
ends and the separate counter `num`. `PopLeftN`, `RemoveBlock`, `AppendN` and
`PrependN` splice as the methods do; `Connect` is the chain of pointer assignments
they share.

| `BlockPool` | Code |
|---|---|
| `pool` | `BlockPool`: the queue, `ref_cnt` (`refs`), `block_hash` (`hash`), `cached_block_hash_to_block` (`index`) |
| `table`, `cached` | `req_to_blocks`, `num_cached_block` |
| `request` | status, known text, `num_tokens`, `num_computed_tokens` |
| `rows` | what the kernels wrote into a block: for which text, how many rows |
| `error` | the exception or failed assertion that ended the engine |
| `Admit` | `get_computed_blocks` (`Hits`) and `allocate_slots` of a waiting request |
| `Continue` | `allocate_slots` of a running request |
| `Receive` | the outcome of its step: rejected drafts are taken back |
| `Release` | `free` on preemption, finish or abort, also with the step in flight |
| `ResetPrefixCache` | `reset_prefix_cache` |

`AllocateSlots` keeps the order of the code: capacity check against the free queue,
touch the hits, take new blocks and evict what they carried, register full blocks,
and every place on the way that can raise leads to `error`. Tokens are modelled per
block: `Content` is what the tokens of one block may be, a hash is the sequence of
contents from the start (`Key`), which is what chaining achieves if hashes do not
collide. `BlockPool` has one step of a request in flight, since the second adds only
to the counts that `KVarNServing` treats; a preempted request comes back after the
outcome that was outstanding. `useEagle` (`drop_eagle_block`) is chosen at the start,
both ways are explored.

`PrefixCache` knows texts, tables, `sealed` blocks (the registered beginning of a
table) and hashes, neither queue nor counts. `Hold` says when a block may be shared:
only as a hit for the request's own text; every other new block is held by nobody.

## 3. Runs

| Run | Instance | Question |
|---|---|---|
| `exact_pool` | 3 blocks, 2 slots, a target and a draft layer, 2 rows per block; 440k states | `SlotExclusive`, `MirrorAgrees`, `ReadsOwnRows`, `ExhaustedOnlyBySize`, `DraftPrepareIsNoop` |
| `exact_pool_rebind` | 3 blocks, 2 slots, one row per block, bindings may be dropped, every retired block is packed; 98k states | `LostOnlyUnbound`: what `rebind_cache_pointers` can cost is confined to the blocks moved while a layer is unbound |
| `exact_pool_rebind_reads` | 3 blocks, bindings may be dropped | finding 1: contents do not survive it |
| `exact_pool_orphan` | 3 blocks | finding 2: a fresh block is taken for an orphan |
| `serving` | 2 requests, 5 blocks of 3 rows, 2 drafts, 11 tokens, both modes; 115k states | `RowsNeverDropped`, `LeavesOnlyFull`, `CountersAgree`, `EpochsSettle`, `DeadBlocksLeave`, no deadlock |
| `serving_live` | 2 requests, 3 blocks of 2 rows, 1 draft, both modes; 77k states | `RequestsFinish` under fairness |
| `serving_hits` | blocks of 2 rows, 2 drafts, `use_eagle` off | finding 3 |
| `serving_dead` | 4 blocks of 3 rows, 2 drafts, fair | finding 5 |
| `sequences` | 1 sequence of 41 tokens on the first of 2 ranks, interleave 1, blocks of 2 rows, tail 5, sink 2, 3 drafts; 24k states | `PrecisionKept`, `SnapshotFits`, `RowsNeverDropped`, `LeavesPacked` |
| `sequences_no_tail` | 1 sequence of 12 tokens, blocks of 3 rows, no tail, 2 drafts | finding 4: `LeavesPacked` needs a tail |
| `block_pool` | 2 requests, 3 blocks of 2 tokens, 2 contents, 6 tokens, 1 draft, with and without the dropped last block of a hit; 206k states | `NeverFails`, `FreeListSound`, `IndexSound`, `ContextIntact`, `ChainsComplete`, `UnregisteredFirst`, `SharedTextsAgree`, `ImplementsPrefixCache`, no deadlock |
| `async_output` | 2 requests, 4 batches, 2 in flight, both kinds of rank; 34k states | `NeverFails`, `PendingKept`, `CurrentEpochOnly`, `TrackerExclusive`, `EveryBatchAnswered`, `ImplementsSettlement` |

### 3.1 Bounds, and why they are enough to be interesting

* `exact_pool`: with three blocks and two slots every step can retire, pack, free,
  reallocate and rehydrate at once, and the pool can be too small for a snapshot.
  Two rows per block tell empty, partial and full blocks apart. Blocks and slots
  are interchangeable (`SYMMETRY`), since any free slot may be taken.
* `exact_pool_rebind`: the same blocks, slots and layers with unbinding at any idle
  point. Its question is about blocks, which are moved, kept or lost as a whole, so
  one row per block is enough; with two rows it has 4.6 million states and holds as
  well, and `UnboundTheorem` proves it for every number of rows. A single step can
  keep one block, retire a second and bring back a third, bound or not.
* `serving`: `Lookahead` 2 with `Group` 3 lets a rejection cross a block boundary
  and lets a step start before the block the scheduler believes in; two batches in
  flight (`Depth`) are what the engine allows; five blocks are less than two
  requests of 11 tokens need, so they preempt each other and reuse blocks; four
  prompt tokens with `Budget` 3 force chunked prefill. `MaxLen` above `MaxTokens`
  or equal to it reaches both ends of a request. Names of requests are reused, but
  not while anything still knows them. Requests and blocks are interchangeable.
* `sequences`: 41 tokens are several times the sum of tail, sink and lookahead, so
  that blocks leave the tail and the full-context mode ends, and they make more blocks
  than the pool has slots. Three drafts against blocks of four tokens let the reported
  end of a step lie a block too far; a tail of five is more than the lookahead, so
  that `PrecisionKept` says something, and short enough for `LeavesPacked` to depend
  on it. Requests have blocks of their own, so one is enough: a step of other requests
  is a step of no tokens. Interleaves above one are covered by the proofs.
  `SnapshotFits` counts `pool_slots` *without* its
  eight spare slots; it is checked for asynchronous scheduling and with a tail that
  is longer than the budget of a batch, as in the deployed configuration (a tail of
  3072, batches of 2048), which it depends on (section 4). `SnapshotTheorem` proves it
  for a tail that covers a batch and twice the lookahead, any number of requests and
  both scheduling modes (section 5); the run shows that one request gets by with less.
* `block_pool`: two requests of three blocks each compete for three blocks, so every
  hit is a race with an eviction, and a request is preempted before it can finish;
  two contents make texts that agree for a while and then part; a block of two tokens
  and one draft let a rejection cross the end of a block.
* `async_output`: four batches let a late `Clear` meet the next batch's pending
  resolution and the one after it. `MaxBatch` only bounds the run.

Deadlock is checked in the runs of `KVarNServing`, `TrackedSequences` and `BlockPool`,
where the engine never stops. It is not checked in `ExactPool` (the pool error ends
the worker) and in `AsyncOutput` (`MaxBatch`).

### 3.2 Fairness

`KVarNServing` assumes that the engine's busy loop keeps running while it has
requests or batches in flight (it schedules, dispatches and completes), and that
the output thread or the next `execute_model` settles a batch. It assumes nothing
of clients: neither new requests nor aborts are fair. The conditions are stated
through the variable in which an action shows, which is the same as fairness of
the action and cheaper to evaluate. `AsyncOutput` assumes that both threads run,
that the GPU finishes copies and that another rank's answer arrives; that the
engine sends a further batch is not assumed.

### 3.3 Slips

A definition introduced by "Slip:" is a plausible mistake in the definition below
it. It is used by no specification; replacing the one by the other must break the
property that `PROJECT.json` names, which shows that the property depends on the
code it is about.

## 4. Findings

1. `rebind_cache_pointers` says it is safe in the middle of serving. A block that is
   retired before the next forward pass of its layer is entered in `flushed` without
   having been packed, since the layer has no cache tensor to pack into; when it
   comes back, `rehydrate` restores stale rows (`exact_pool_rebind_reads`). A block that
   comes back while its layer is unbound is not rehydrated at all. Nothing else is
   lost, because the mappings and the flushed set persist as the docstring says:
   `exact_pool_rebind` and `UnboundTheorem` (`LostOnlyUnbound`).
2. A block that a single prefill step fills is published as full in its first
   snapshot, and `prepare_step` reports it as a "provenance-lost re-entry"; with
   `KVARN_MLA_ORPHAN_RAISE=1` the worker stops, otherwise the slot is zeroed before
   its rows are written, which is harmless (`exact_pool_orphan`).
3. `KVarNPathAudit.md` (I3) argues that a full block that is hit was packed by its
   first owner. When that owner ends at `max_model_len` its last correction is
   consumed by the update of an empty step, which returns before `prepare_step`.
   With `use_eagle`, as deployed, the last block of a hit is dropped and the block
   cannot be hit: `serving` finds `LeavesOnlyFull` to hold, and `FullTheorem` proves it
   for a lookahead of up to a block and one token; without `use_eagle`
   `serving_hits` finds the violation.
4. `KVarNPathAudit.md` (I2) concludes that a retired block "always packs 64 valid
   rows". The end a correction reports starts from a count that still contains the
   rejections of the batch before, so it may be up to `num_speculative_tokens` too
   far. A precision tail hides this: blocks near the end are kept anyway. With
   `precision_tail_tokens` 0, the default, the tracker drops a block that still
   misses rows and publishes it as full; if its request is left out of the next two
   steps, the block is packed incomplete (`sequences_no_tail`). What is lost is
   exactness, not rows: when the request continues, the block comes back and its
   first rows are restored from the packed copy.
5. The comment in `_consume_resolved` says that a dead owner's correction does not
   raise the fills of the new owner of a block. The method runs before the requests
   of the step are registered and does not see the new owner (`serving_dead`).

One more without a run of its own: `pool_slots` reserves room for the blocks of one
batch. The blocks of a chunk of prefill are in the snapshot twice, when the chunk is
computed and again when its correction is published (`_consume_resolved`), then
together with those of the next chunk. A tail at least as long as a batch has room
for both (`SnapshotTheorem` asks for twice the lookahead more); without one, the default, a long prefill runs out of slots, the eight spare
ones included, and `prepare_step` raises its pool-exhausted error. To see it, check
`Cardinality(needed) <= PoolSlots + 8` on `TrackedSequences` with `Group = 2`,
`World = 1`, `Boundary = 2`, `PrecisionTail = 0`, `Lookahead = 1`, `Async = TRUE`,
`MaxLen = 60`, `Budget = 28`: the second chunk of 28 tokens needs 28 slots of 27. The
boot scripts have a tail of 3072 for batches of 2048 and four ranks to share them.

Three smaller remarks: the guard of `mark_request_unknown` cannot hold
in the runner; the audit's I4 describes a group key made of layer names while the
code keys `_GroupState` by the identity of the cache spec; and a published fill may
exceed the rows that are valid after the step, because the widening by the rollback is
clipped at the start of the sequence while the end is widened by the lookahead. The
last is harmless, since a block published full too early stays in the snapshot until
it is full (`LeavesPacked`, `LeavesOnlyFull`).

## 5. Proofs

`ExactPool_proofs` proves, for any finite sets of blocks and slots, any set of
layers and any number of rows per block (the named assumption `PoolAssumption` and
nothing else):

* `SlotTheorem` (with `PoolTypeTheorem` and `MirrorTheorem` for its parts): `Spec => [](TypeOK /\ SlotExclusive /\ MirrorAgrees)`. The three
  formulas together are inductive, whatever the scheduler does and whether or not
  bindings are dropped. One lemma per piece of `prepare_step` (`PackType`,
  `RestoreType`, ...) gives types, and the step is split by action, with
  `Allocate` and `Exhaust` treated apart.
* `UnboundTheorem`: `Spec => LostOnlyUnbound`, with bindings dropped between any two
  steps. Next to `SlotTheorem`'s invariant it needs what the bookkeeping promises
  about rows, `BookInv`, which no unbinding can break:
  - `PlanInv`: what a snapshot promises while its step runs (full blocks and rows to
    write lie in named blocks);
  - `DropsOnlyFull`: a mapped block the current snapshot does not name may leave;
  - `PreparedInv`: after `prepare_step` the named blocks are exactly the mapped ones;
  - `UnmappedFlushed`: an unmapped block with readable rows is in the flushed set, so
    that it will be rehydrated when it comes back.
  The step lemmas (`PrepareTargetKeeps`, `ForwardKeeps`, ...) follow one block on one
  layer: if its rows are found before the step they are found after it, unless
  `Excused`. No claim is made about rows already lost.
* `ReadTheorem`: `Spec => []ReadsOwnRows` if bindings are never dropped
  (`~AllowRebind`; finding 1 shows why). It follows from the same step lemmas with
  `RowsNeedCache`, a layer with readable rows has its cache tensor: then no loss is
  excused.
* `DraftPrepareTheorem`: `Spec => DraftPrepareIsNoop` from `PreparedInv`: nothing is
  retired and nothing is missing the second time, bindings or not.
* `SizeTheorem`: `Spec => []ExhaustedOnlyBySize`, by counting: by `SlotExclusive` the
  slots are the free ones and one for each mapped block, and before `Exhaust` the
  mapped blocks are among the named ones.

`AsyncOutput_proofs` proves, for any requests, depth and number of batches, with the
inductive invariant `IInv`:

* `TypeTheorem`, `NeverFailsTheorem`, `TrackerTheorem`, `PendingTheorem`,
  `EpochTheorem`: the five safety properties of the run `async_output`. Next to types,
  `IInv` has `LockInv` (who holds a lock is in its callback, never both threads),
  `LiveInv` (only the last batch can be unclaimed, and none is when ownership moves
  on), `PendingInv` (the pending resolution is that batch unless the main thread is
  settling it), `EpochInv` (open epochs are those of the last batch, and a running
  callback will close what is left) and `QueueInv` (batches are answered in order).
* `SettlementTheorem`: `Spec => Promise!Spec`, the safety part of the refinement of
  `Settlement`. Fairness of the refinement is checked by `ImplementsSettlement` only.

`PrefixCache_proofs` proves, for any blocks, requests and contents, that `PrefixCache`
keeps `TypeOK` and `SharedTextsAgree` (`CacheTypeTheorem`, `SharedTheorem`). The
invariant adds `SealedHashes` (the sealed blocks of a request are registered for its
own text) and `PrivateBlocks` (a block that is not sealed has one place in one table);
two places of one block are then both sealed, carry one hash, and so one text.
`BlockPool` inherits the promise through `RefinementTheorem`.

The first part of `BlockPool_proofs` is about the linked list, for any set of blocks in which the names
`NoBlock`, `FakeHead` and `FakeTail` do not occur (`NodesAssumption`). `Chain(q, c, n)`
says that the queue `q` has the blocks `c[1], ..., c[n]` between its fake ends, linked
both ways, and that every other block has no links. A lemma per method shows the chain
afterwards: `PopLeftN` leaves it without its beginning (`Beyond`), `RemoveBlock`
without one block (`Without`), `PrependN` and `AppendN` splice a sequence in
(`Inserted`), `QueueOf` makes it from a sequence. `ChainSound` turns a chain into
`WellLinked`, and `Order` into `c`. The lemmas speak of the pointers, so a method that
forgets one of them or the counter has no such lemma. `Ahead(q, x, y)` says that `x` is
evicted before `y`; `AheadRemove`, `AheadPop` and `AheadSpliced` show which pairs each
method keeps in their order and which it adds.

The rest of `BlockPool_proofs` proves, for any finite sets of blocks, requests and contents, any
block size above 0, any length of the model and any lookahead
(`BlockPoolAssumption`), every property of the run `block_pool`:

* `InvTheorem`: `Spec => []IInv`, where `IInv` is the conjunction of
  - `PoolInv`: the queue is the chain of the blocks with no references, unregistered
    ones first (`FreeRow`), and hashes and index name each other (`Indexed`);
  - `TableInv`: the references of a block are the tables it is in, at most once each;
  - `SealInv`: the blocks of a table up to `num_cached_block` are registered for the
    text of the request, the others are not registered and are in no other table.
    Without it neither the assertion of `cache_full_blocks` nor a correction would be
    safe: both rest on a block under construction being nobody else's;
  - `RequestInv`, `HashInv`: the bounds of a request's counters by its table and text,
    and the type of hashes;
  - `error = NoError`. This is what a failed `remove`, `get_new_blocks` or assertion
    would break, so the step that allocates is proved to take none of these branches:
    `HitsAreOK` and `RoomOf` (a hit on a free block was counted by
    `get_num_blocks_to_allocate`, so the queue still has room after `touch`) and
    `OpenBlocks` (a block to be registered is not registered yet).
* `FailureTheorem`, `FreeListTheorem`, `IndexTheorem`, `EvictionTheorem` and
  `TypeTheorem` follow from `IInv`; `SharedTextsTheorem` follows from `SealInv` by the
  argument of `SharedTheorem`.
* `ContextTheorem`: `Spec => []ContextIntact`. Its invariant adds `RowInv`: what a
  request has computed lies, in order and of its own text, in the blocks of its table
  (`Reads`), and a registered block has all its rows (`Promised`). The step that writes
  (`AllocateRows`) starts at `computed`, which is never before the sealed blocks; the
  correction (`ReceiveRows`) takes rows back only after the sealed blocks, where by
  `SealInv` nobody else reads; a freed block loses its rows only when it is not
  registered.
* `ChainsTheorem`: `Spec => []ChainsComplete`. Its invariant adds `OrderInv`: a free
  registered block behind the first of its text has a registered block with the hash
  before it that is in use or later in the queue. It is not inductive alone: what
  follows a block that is in use comes from `SealInv` (`HeldContinues`), and that the
  block is still there from `IInv`. `touch` and `get_new_blocks` keep the order of what
  they leave (`Keeps`), and take nothing that is behind a free block they leave;
  `free_blocks` puts the registered blocks of a request behind everything that was free,
  the last of its text first (`Ranked`), which is where the reversal in
  `SingleTypeKVCacheManager.free` is needed.
* `RefinementTheorem`: `Spec => ImplementsPrefixCache`. Each call of the scheduler is
  mapped to a `Hold`, `Release` or `Forget` of `PrefixCache` or to a stutter; that the
  new blocks of a table are held by nobody and lose their hashes is `GrowingHolds`, from
  what `get_new_blocks` returns.

`touch`, `get_new_blocks`, `cache_full_blocks` and the two lists of `free_blocks` are
folds over sequences of blocks, and what a fold computes needs an induction over its
length. The induction theorems of the library cannot be instantiated, so
the module proves instead that a set of naturals that has a member has a least
one (`LeastNatural`, from well-foundedness), and with it that a set with 0 that is
closed under successor up to a bound has everything up to it (`BoundedInduction`).
`FoldStepwise` gives a fold of the pool as a sequence of intermediate pools, and
`TouchAll`, `TakeAll`, `CacheAll`, `ThoseOf` carry an invariant along that sequence.

`BlockTracker_proofs`, `KernelAgrees`: for any number of ranks, group and interleave
(`GeometryAssumption`), the tracker's closed formula and the slot mapping of the
kernel give a local token the same row and the same block. The argument splits a
position into cycle, rank and offset; its lemmas (`CountMonotone`, `RowBlock`,
`PersistentRow`) and those on `Update` and `ResolveAsync` carry the next modules.

`KVarNServing_proofs` and, from `SharingTheorem` on, `KVarNBlocks_proofs` prove, for any
numbers of requests, blocks, drafts and ranks, any budget and both scheduling modes
(`ServingAssumption`), all safety properties of the run `serving`:

* `TypeTheorem`, `CountersTheorem` and `ScatterTheorem` (`RowsNeverDropped`) from one
  inductive invariant. Next to the types (`TypesInv`) it has
  - `QueuesInv`: a request is in one place, and a granted one had its turn before
    those behind it, so that preemption from the end of `running` never takes back
    a grant;
  - `FlightInv`: the queue has room while a step is put together, and a request
    preempted in an earlier step is at most in the oldest batch. That batch is
    complete before the next step starts, so a request that is resumed has no result
    outstanding that would be added to its fresh counters;
  - `RequestInv`, `CountInv`: the scheduler's counters of a request stay inside its
    limits and are ahead of the worker by the rejections in flight;
  - `BatchInv`, `TablesInv`: what is granted follows the counters, and the worker's
    table is a beginning of the scheduler's;
  - `TrackedInv`: the tracker keeps blocks of the tables the worker has.
  `RowsNeverDropped` then follows as in `RowsTheorem` below: the step starts at most
  `Lookahead` after the first row it writes, which is what the runner's rollback covers.
* `SlotsReturnTheorem` (`DeadBlocksLeave`), from `TrackedInv`.
* `EpochTheorem`: `Spec => []EpochsSettle`. The formula is inductive as it stands: only
  `Dispatch` opens epochs, for the batch it makes unsettled, and only `Settle` ends it.
* `FullTheorem`: `Spec => []LeavesOnlyFull` if `UseEagle` and
  `Lookahead <= BlockTokens + 1`. It does not follow from the tracker alone: scheduler,
  prefix cache, worker and tracker have to agree on which rows of which block are final.
  Its invariant `FullInv` rests on six others, each proved of `Spec` before it:
  - the counters are exact (`AheadTheorem`: `ExactInv`, `GrantInv`): who awaits tokens
    has been computed up to the last of them, and a grant stays inside the table;
  - `SharingTheorem`: requests share a block only at the position it is cached for,
    and a cached block has all its rows in every table that holds it (`Stable`), unless
    the batch that is being put together computes them (`Arriving`). So whatever one
    request does to a block in the middle of being written concerns nobody else;
  - `PendingInv`: the blocks of an open epoch are at their place in the worker's table,
    and a correction that is not published is of a request of the newest batch;
  - `BudgetInv`, a count of granted and of sampled tokens against `Budget`;
  - `RoomInv`: behind an empty batch nobody is left out. An empty step runs the update
    but no `prepare_step`, so a correction it consumes is published by nobody. What
    saves the rows is that every request that goes on is in the next batch, because
    the room those requests have left fits the budget. This is where the argument needs
    the budget to be counted;
  - `CachedFull`: a block a hit can return is packed or still arriving. With
    `use_eagle` the last block of a hit is dropped, so what a request that ends at
    `max_model_len` leaves unpacked cannot be hit (finding 3 is the other case).

  `FullInv` itself keeps two marks per request the worker knows (`MarksInv`): a block
  that ends before the first, where the scheduler's count would be if all drafts in
  flight were rejected, is packed when it leaves; one that ends before the second has
  been published as full wherever it is named. The step that takes a snapshot
  (`DispatchFull`) moves both marks; its lemmas `SnapshotSays` to `NothingLost` go
  through the requests of the batch, the others, and those that have gone.
  The bound on the lookahead is exact: with `Lookahead = BlockTokens + 2` the property
  is false (`Group = 4`, `World = 1`, `Lookahead = 6`, `MaxLen = 22`, `Budget = 14`,
  one prompt of 14 tokens, six blocks, no tail): the last step of a request can then
  complete more blocks than the one a hit drops, and their correction is lost.
  The deployed blocks have 64 rows on each of four ranks, for three drafts.

`TrackedSequences_proofs` proves, for any requests, geometry, tail, sink, lookahead,
budget and scheduling mode:

* `RowsTheorem`: `Spec => []RowsNeverDropped`. Its invariant is `CountInv`: the
  scheduler's count is the rows of the GPU plus the rejections in flight. When a step
  is scheduled at most one batch is unreported, so the count is ahead by at most
  `Lookahead`; the rollback of a step is at least that, so what is touched starts at or
  before the first row written and ends at or after the last.
* `PrecisionTheorem`: `Spec => []PrecisionKept`. `PrecisionInv` adds `TablesInv`
  (tables name the blocks of their request and have room for its rows), `EndsInv` (a
  reported end is right or too far by at most `Lookahead`), `KeptInv` (the exact rows
  of a request lie in blocks it keeps, with the help of the open epoch; all its rows
  do in full-context mode) and `NeededInv` (and so in the snapshot). `KeptInv` has to
  speak of kept blocks rather than of the snapshot because a settled batch shrinks the
  former and leaves the latter alone.
* `PackedTheorem`: `(PrecisionTail >= Lookahead /\ Spec) => []LeavesPacked`. `PackedInv`
  adds to `PrecisionInv` that the tracker holds for a request only blocks of its table
  (`OwnInv`), and that every block with rows is kept or pending, or else `Ripe`, that
  is, beyond the reach of any correction, and then published as full wherever it is
  named (`PublishedInv`). The bound on the tail is needed: a reported end may be too
  far by `Lookahead`, and only the tail keeps the blocks in between. Finding 4
  (`sequences_no_tail`) is what happens below it; the deployed tail is 3072.
* `SnapshotTheorem`: `Spec => []SnapshotFits` if
  `PrecisionTail >= Budget + 2 * Lookahead` and, without asynchronous scheduling,
  `2 * Lookahead <= Group`. The invariant `FitsInv` bounds what the tracker keeps of one
  request: once its batch is settled, the blocks of the sink and `TailBlocks` blocks in a
  row, with every published correction among them (the tail is what makes the
  correction of a long chunk fall inside). The step that follows adds the blocks its
  drafts and lookahead put in doubt (`ScheduledFits`), so a snapshot has per request the
  sink, a tail and `Ceil(drafts + Lookahead)` blocks (`NeededFits`). The sum over the
  requests is taken without a sum: each block gets a number within its request
  (`Numbered`), each row in doubt is a pair of a request and a number (`Doubts`), and
  injections between sets of such pairs compare the cardinalities (`CountPairs`,
  `WholeDoubts`, `DoubtsCount`). `AsyncPool` finds room in `pool_slots` for the
  rows in doubt in its rollback blocks; without asynchronous scheduling there are none,
  although the runner widens a step all the same, and `SyncPool` makes do with the one
  block per request of `boundary_overlap`, enough when `2 * Lookahead <= Group`.
  The deployed configuration (tail 3072, batches of 2048, three drafts) meets both.

Only model-checked:

* liveness and everything under fairness (`RequestsFinish`, `EveryBatchAnswered`, the
  fairness part of `ImplementsSettlement`), which is out of reach of the proof system.

Every safety property and action property a passing run checks is stated by a theorem.
A theorem with a condition on the constants says nothing outside it: `SnapshotFits` is
only model-checked in the run `sequences`, whose tail is shorter than the theorem asks
for.

## 6. Plan

Done: every module of section 2, with the proofs of section 5. What would come next,
in this order:

1. The least tail for which `SnapshotFits` holds, between the budget and the budget
   with twice the lookahead (section 5), and what the eight spare slots add to it.
2. The contract between tracker and pool as a specification of its own (snapshots,
   `MayLeave`), implemented by `KVarNServing` and used by `ExactPool`.
3. `BlockPool` in place of the set of free blocks in `KVarNServing`, for hits that
   follow the order of eviction.
4. The broadcast ring buffer between engine and workers
   (`distributed/device_communicators/shm_broadcast.py`).

## 7. Not modelled

* Numerical kernels (quantisation, sinkhorn, materialise and direct packed decode,
  the sparse indexer): functions of tensors with no state between steps. What
  scatter, pack and rehydrate do to *which* rows is in `ExactPool`.
* The draft model. Its rows and its second `prepare_step` are modelled.
* Of the scheduler: priority policy, encoders, KV connectors, LoRA, structured
  output, streaming sessions, pausing, pipeline parallelism, dynamic speculative
  depth, prefill throttling, deferred freeing of blocks. The serving configuration
  uses none (the optional mode that extracts hidden states has a KV connector).
* Of the cache manager: hits inside a block and their copy-on-write
  (`single_type_kv_cache_manager.py:755`), which need a hash size below the block
  size and are not met with the deployed layout; hybrid and lockstep groups (the model
  has one full-attention group); connectors, events, and the watermark, which is one
  more reason to refuse a request.
* Reinitialisation of the cache while a callback of the old one is outstanding
  (`model_runner.py:787`): it happens at start-up and during profiling only, before
  there are requests. The generation number that guards against it is left out.
* Of the pool: `validate_records_storage`, growth of the mirror, forensic logging.
* The API server, executors, model zoo and the rest of the vendored engine; launch
  scripts, images, probes.
