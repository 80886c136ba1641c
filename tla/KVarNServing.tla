---------------------------- MODULE KVarNServing ----------------------------
(***************************************************************************)
(* One engine with one worker rank: the vLLM scheduler with asynchronous   *)
(* scheduling and prefix caching, the model runner, the live block tracker *)
(* and the bookkeeping of prepare_step, with the batch queue between the   *)
(* scheduler and the worker.                                               *)
(*                                                                         *)
(* The worker runs a batch when it is dispatched, but the scheduler learns *)
(* the outcome only when it takes the batch off the queue: its token       *)
(* counts, from which the tracker decides which blocks stay exact, assume  *)
(* that no draft token of the batches in flight was rejected.              *)
(*                                                                         *)
(* Token values are not modelled.  A rejection, a stop and the contents of *)
(* a prompt are free choices; a prefix hit may pick any cached blocks that *)
(* were cached at the right positions (the code also compares hashes).     *)
(* The free list is a set.                                                 *)
(***************************************************************************)
EXTENDS BlockTracker, Integers, FiniteSets, Functions, FiniteSetsExt,
        SequencesExt

CONSTANTS
    Block,      \* physical blocks
    Lookahead,  \* num_spec_tokens = num_lookahead_tokens
    UseEagle,   \* use_eagle: the last block of a prefix hit is dropped
    MaxSeqs,    \* max_num_running_reqs
    MaxLen,     \* max_model_len
    MaxTokens,  \* num_prompt_tokens + max_tokens of a request
    Budget,     \* max_num_scheduled_tokens
    Prompts     \* prompt lengths

ASSUME ServingAssumption ==
    /\ IsFiniteSet(Block) /\ IsFiniteSet(Req)
    /\ Lookahead \in Nat \ {0} /\ MaxSeqs \in Nat \ {0}
    /\ UseEagle \in BOOLEAN
    /\ MaxLen \in Nat /\ MaxTokens \in Nat /\ Budget \in Nat \ {0}
    \* One request of the greatest length fits the cache.
    /\ (MaxLen + Group * World - 1) \div (Group * World) <= Cardinality(Block)
    /\ Prompts \subseteq 1 .. Lesser(MaxLen, MaxTokens) - 1

VARIABLES
    async,     \* async_scheduling, fixed when the engine starts
    request,   \* the scheduler's counters and block table of each request
    running,   \* the running list
    waiting,   \* the waiting queue: the preempted requests.  A new request
               \* reaches its head only when it is admitted (AdmitNew)
    cachedAt,  \* per block, 0 or the position its hash was cached for
    batch,     \* the batch being put together
    tokenBudget, \* token_budget: what this schedule() may still grant
    phase,     \* "idle", or "scheduling" inside schedule()
    finished,  \* finished_req_ids not yet sent to the worker
    preempted, \* the requests preempted by this schedule()
    inflight,  \* the batch queue: per batch, what became of its drafts
    worker,    \* the runner's request states
    unsettled, \* _kvarn_mla_pending_resolution: accepted ends to report
    needed,    \* the blocks of the last snapshot given to prepare_step
    full,      \* state.block_fill: blocks last published as full
    dropped,   \* blocks for which scatter found no slot
    lost       \* blocks retired with readable rows and no packed record

queues    == <<running, waiting>>
scheduler == <<async, request, queues, cachedAt, batch, tokenBudget, phase, finished,
               preempted>>
runner    == <<worker, unsettled, needed, full, dropped, lost>>
vars      == <<scheduler, inflight, runner, tracker>>

Depth       == IF async THEN 2 ELSE 1  \* max_concurrent_batches
BlocksFor(tokens) == (tokens + BlockTokens - 1) \div BlockTokens
Limit       == Lesser(MaxLen, MaxTokens)
NoBatch     == << >>

Idle == [computed |-> 0, total |-> 0, placeholders |-> 0, decoding |-> FALSE,
         table |-> << >>]

With(f, r, value) == [x \in DOMAIN f \cup {r} |-> IF x = r THEN value ELSE f[x]]

Running    == Range(running)
Unfinished == Running \cup Range(waiting)
Owned      == UNION {Range(request[r].table) : r \in Req}
FreeBlocks == Block \ Owned
InFlight   == UNION {DOMAIN inflight[i] : i \in DOMAIN inflight}
\* Request names a client may use for a new request.  A name is not reused
\* while anything still knows it.
Unused == Req \ (Unfinished \cup finished \cup InFlight \cup DOMAIN worker)

-----------------------------------------------------------------------------
(* KVCacheManager.allocate_slots. *)

\* The ways to give a table the blocks of so many slots.
Extensions(table, slots) ==
    LET k == Monus(BlocksFor(slots), Len(table))
    IN  {new \in [1 .. k -> FreeBlocks \ Range(table)] : IsInjective(new)}

\* A block that is allocated loses its hash; the full blocks of the first
\* `tokens` tokens get theirs.
Cached(table, new, tokens) ==
    [b \in Block |->
        IF \E i \in 1 .. Lesser(tokens \div BlockTokens, Len(table)) : table[i] = b
        THEN CHOOSE i \in DOMAIN table : table[i] = b
        ELSE IF b \in Range(new) THEN 0 ELSE cachedAt[b]]

-----------------------------------------------------------------------------
(* Scheduler.schedule: the running requests. *)

\* The batches in flight surely reach max_tokens.
Finishing(q) ==
    q.placeholders > 0 /\ q.computed + 2 - q.placeholders >= MaxTokens

\* Slip: the length of the model is not respected.
WantedUncapped(q) ==
    LET spec == IF q.decoding THEN Lookahead ELSE 0
    IN  q.total + spec + q.placeholders - q.computed

Wanted(q) ==
    LET spec == IF q.decoding THEN Lookahead ELSE 0
    IN  Lesser(q.total + spec + q.placeholders - q.computed, MaxLen - q.computed - 1)

Schedulable(r) ==
    /\ r \in Running \ DOMAIN batch
    /\ ~Finishing(request[r])
    /\ Wanted(request[r]) > 0

RunningSlots(r, n) ==
    Lesser(request[r].computed + n + (IF request[r].decoding THEN Lookahead ELSE 0), MaxLen)

FitsRunning(r, n) ==
    BlocksFor(RunningSlots(r, n)) - Len(request[r].table) <= Cardinality(FreeBlocks)

Drafts(q, n) ==
    IF q.decoding THEN Monus(n + q.computed, q.total + q.placeholders) ELSE 0

\* The first of the running requests whose turn is still to come.
Turn(r) ==
    \E i \in DOMAIN running :
        /\ running[i] = r /\ Schedulable(r)
        /\ \A j \in 1 .. i - 1 : ~Schedulable(running[j])

AllHadTheirTurn == \A r \in Running : ~Schedulable(r)

Granted(r) == Lesser(Wanted(request[r]), tokenBudget)

ScheduleRunning ==
    /\ phase = "scheduling" /\ tokenBudget > 0
    /\ \E r \in Running :
        LET q == request[r]  n == Granted(r)
        IN  /\ Turn(r) /\ FitsRunning(r, n)
            /\ \E new \in Extensions(q.table, RunningSlots(r, n)) :
                /\ request' = [request EXCEPT ![r].table = @ \o new]
                /\ cachedAt' = Cached(q.table \o new, new, Lesser(q.computed + n, q.total))
            /\ batch' = With(batch, r, [start |-> q.computed, sched |-> n,
                                        drafts |-> Drafts(q, n)])
            /\ tokenBudget' = tokenBudget - n
    /\ UNCHANGED <<async, queues, phase, finished, preempted, inflight, runner, tracker>>

\* No room for a running request: the last of the running list gives its
\* blocks back and waits again, until there is room or it was that request.
Preempt ==
    /\ phase = "scheduling" /\ tokenBudget > 0
    /\ \E r \in Running : Turn(r) /\ ~FitsRunning(r, Granted(r))
    /\ LET v == Last(running)
       IN  /\ request' = [request EXCEPT ![v].computed = 0, ![v].decoding = FALSE,
                                         ![v].table = << >>]
           /\ preempted' = preempted \cup {v}
           /\ waiting' = << v >> \o waiting
    /\ running' = Front(running)
    /\ UNCHANGED <<async, cachedAt, batch, tokenBudget, phase, finished, inflight, runner,
                   tracker>>

-----------------------------------------------------------------------------
(* Scheduler.schedule: the waiting requests. *)

\* How many blocks of a request can be prefix hits: at least one token is left
\* to compute, and with UseEagle one whole block.
Hittable(total) ==
    Monus((total - 1) \div BlockTokens, IF UseEagle THEN 1 ELSE 0)

\* The prefixes that may hit, as sequences of cached blocks.
Hits(total) ==
    UNION {{hit \in [1 .. m -> {b \in Block : cachedAt[b] > 0}] :
                \A i \in 1 .. m : cachedAt[hit[i]] = i}
           : m \in 0 .. Hittable(total)}

\* A decode-only batch pads a request that needs one token to the width of a
\* speculative decode.
Padded(n) ==
    LET decodes == DOMAIN batch \cap DOMAIN worker
    IN  n = 1 /\ decodes # {} /\ \A r \in decodes : request[r].decoding

FirstTokens(total, start) ==
    IF Padded(total - start) THEN 1 + Lookahead ELSE Lesser(total - start, tokenBudget)

FirstSlots(total, start) ==
    Lesser(start + FirstTokens(total, start) + Lookahead, MaxLen)

\* A padded decode is not cut short, and the whole request must fit
\* (scheduler_reserve_full_isl).
MayStart(total, hit) ==
    LET start == Len(hit) * BlockTokens
    IN  /\ Padded(total - start) =>
              /\ 1 + Lookahead <= tokenBudget
              /\ start + 1 + Lookahead <= MaxLen
        /\ BlocksFor(Greater(FirstSlots(total, start), total)) - Len(hit)
              <= Cardinality(FreeBlocks \ Range(hit))

\* A new or resumed request of `total` tokens, with `hit` already computed.
Admit(r, total, hit) ==
    LET start == Len(hit) * BlockTokens
        n     == FirstTokens(total, start)
    IN  /\ MayStart(total, hit)
        /\ \E new \in Extensions(hit, FirstSlots(total, start)) :
            /\ request' = [request EXCEPT ![r].computed = start, ![r].total = total,
                                          ![r].table = hit \o new]
            /\ cachedAt' = Cached(hit \o new, new, Lesser(start + n, total))
        /\ batch' = With(batch, r,
                [start |-> start, sched |-> n,
                 drafts |-> IF Padded(total - start) THEN Lookahead ELSE 0])
        /\ tokenBudget' = tokenBudget - n
        /\ running' = Append(running, r)
        /\ UNCHANGED <<async, phase, finished, preempted, inflight, runner, tracker>>

\* The waiting requests follow the running ones, unless one was preempted.
AdmissionOpen ==
    /\ phase = "scheduling" /\ preempted = {}
    /\ AllHadTheirTurn
    /\ Len(running) < MaxSeqs /\ tokenBudget > 0

\* A client's request is behind every request that was preempted.
AdmitNew(r) ==
    /\ AdmissionOpen /\ waiting = << >> /\ r \in Unused
    /\ \E total \in Prompts : \E hit \in Hits(total) : Admit(r, total, hit)
    /\ UNCHANGED waiting

Resume ==
    /\ AdmissionOpen /\ waiting # << >>
    /\ LET r == Head(waiting)
       IN  \E hit \in Hits(request[r].total) : Admit(r, request[r].total, hit)
    /\ waiting' = Tail(waiting)

-----------------------------------------------------------------------------
(* The end of schedule(), and execute_model on the worker. *)

Removed == finished \cup preempted

HasRequests == Unfinished # {} \/ finished # {}

\* Every running request has had its turn, and the first of the waiting ones,
\* if it could be tried, has to stay.
Assembled ==
    /\ tokenBudget = 0 \/ AllHadTheirTurn
    /\ AdmissionOpen /\ waiting # << >> =>
          LET total == request[Head(waiting)].total
          IN  \E hit \in Hits(total) : ~MayStart(total, hit)
    /\ batch = NoBatch => HasRequests

\* _update_after_schedule of both schedulers.
Advanced(r) ==
    LET q    == request[r]  e == batch[r]
        done == q.computed + e.sched >= q.total + q.placeholders
    IN  [q EXCEPT !.computed = @ + e.sched, !.decoding = done,
                  !.placeholders = IF done /\ async THEN @ + 1 + e.drafts ELSE @]

\* What _update_kvarn_mla_ownership tells the tracker of a batched request.
\* (request.rollback_tokens is 0: settling the last batch has reset it.)
Entry(r, table) ==
    [start |-> batch[r].start, tokens |-> batch[r].sched + Lookahead,
     rollback |-> batch[r].drafts + Lookahead, table |-> table]

\* finish_requests, add_requests and update_requests: the rows the GPU really
\* holds of an old request, and of a new one its prefix hit.
Updated ==
    [r \in (DOMAIN worker \ Removed) \cup DOMAIN batch |->
        [ids |-> IF r \in DOMAIN batch THEN request[r].table ELSE worker[r].ids,
         rows |-> IF r \in DOMAIN worker THEN worker[r].rows ELSE batch[r].start]]

\* The rows the target and the draft model store: those of the scheduled
\* tokens and of the lookahead, as far as the table goes.
Written(r, w) == BlocksOf(w.ids, w.rows, w.rows + batch[r].sched + Lookahead)

\* A block with rows somebody can still ask for: a prefix hit (of a request of
\* fewer than MaxLen tokens), or the context of a request the worker knows.
Readable(states) ==
    {b \in Block : cachedAt[b] \in 1 .. Hittable(MaxLen - 1)}
        \cup UNION {BlocksOf(states[r].ids, 0, states[r].rows) : r \in DOMAIN states}

\* prepare_step: the blocks known to be full once the snapshot is read.
Published(fills) ==
    {b \in DOMAIN fills : fills[b] = Group} \cup (full \ DOMAIN fills)

PrepareAndForward(states, fills) ==
    LET retired == needed \ DOMAIN fills
    IN  /\ needed' = DOMAIN fills
        /\ full' = Published(fills) \ retired
        /\ lost' = lost \cup ((retired \ Published(fills)) \cap Readable(states))
        /\ dropped' = dropped \cup
              ((UNION {Written(r, states[r]) : r \in DOMAIN batch}) \ DOMAIN fills)
        /\ \E rej \in [DOMAIN batch -> 0 .. Lookahead] :
            /\ \A r \in DOMAIN batch : rej[r] <= batch[r].drafts
            /\ worker' = [r \in DOMAIN states |->
                  IF r \in DOMAIN batch
                  THEN [states[r] EXCEPT !.rows = @ + batch[r].sched - rej[r]]
                  ELSE states[r]]
            /\ unsettled' = [r \in DOMAIN batch |->
                  batch[r].start + batch[r].sched - rej[r]]
            /\ inflight' = Append(inflight, [r \in DOMAIN batch |->
                  [drafts |-> batch[r].drafts, rej |-> rej[r],
                   sampled |-> Advanced(r).decoding]])

\* A batch of no tokens brings the request states and the tracker up to date
\* and returns before prepare_step.
ReturnEmpty(states) ==
    /\ worker' = states
    /\ inflight' = Append(inflight, NoBatch)
    /\ UNCHANGED <<unsettled, needed, full, lost, dropped>>

MayDispatch == phase = "scheduling" /\ Assembled /\ unsettled = NoBatch

Dispatch ==
    /\ MayDispatch
    /\ Update(Removed, [r \in DOMAIN batch |-> Entry(r, request[r].table)])
    /\ IF batch = NoBatch THEN ReturnEmpty(Updated)
       ELSE PrepareAndForward(Updated, BlockFills')
    /\ request' = [r \in Req |-> IF r \in DOMAIN batch THEN Advanced(r) ELSE request[r]]
    /\ batch' = NoBatch /\ tokenBudget' = 0 /\ phase' = "idle"
    /\ finished' = {} /\ preempted' = {}
    /\ UNCHANGED <<async, queues, cachedAt>>

\* The acceptance counts of a batch reach the tracker: the output thread runs
\* the callback, or the next execute_model runs it first.
Settle ==
    /\ unsettled # NoBatch
    /\ ResolveAsync(unsettled, [r \in DOMAIN worker |-> worker[r].ids])
    /\ unsettled' = NoBatch
    /\ UNCHANGED <<scheduler, inflight, worker, needed, full, dropped, lost>>

-----------------------------------------------------------------------------
(* The engine loop. *)

\* step_with_batch_queue schedules while the queue has room and there is work.
MayStartStep == phase = "idle" /\ Len(inflight) < Depth

StartStep ==
    /\ MayStartStep
    /\ HasRequests \/ Unused # {}
    /\ phase' = "scheduling" /\ tokenBudget' = Budget
    /\ UNCHANGED <<async, request, queues, cachedAt, batch, finished, preempted,
                   inflight, runner, tracker>>

\* The tokens a request keeps of a sampled batch, and whether it stops.
Outcomes(q, e) ==
    {o \in [kept : 0 .. Lookahead + 1, stops : BOOLEAN] :
        IF ~e.sampled THEN o.kept = 0 /\ ~o.stops
        ELSE /\ o.kept \in 1 .. 1 + e.drafts - e.rej
             /\ q.total + o.kept <= Limit
             /\ q.total + o.kept = Limit => o.stops
             /\ ~o.stops => o.kept = 1 + e.drafts - e.rej}

\* Slip: rejected drafts stay counted as placeholders.
AwaitedWithRejected(q, e, o) == IF async THEN q.placeholders - o.kept ELSE 0

\* num_output_placeholders once an outcome is known.
Awaited(q, e, o) ==
    IF ~async THEN 0
    ELSE IF q.placeholders > 0 THEN q.placeholders - e.rej - o.kept
    ELSE q.placeholders - o.kept

\* Slip: rejected drafts stay counted as computed.
ReceivedAsIs(q, e, o) ==
    IF o.stops THEN Idle
    ELSE [q EXCEPT !.placeholders = Awaited(q, e, o), !.total = @ + o.kept]

\* update_from_output for one request.
Received(q, e, o) ==
    IF o.stops THEN Idle
    ELSE [q EXCEPT !.computed = Monus(@, e.rej),
                   !.placeholders = Awaited(q, e, o), !.total = @ + o.kept]

\* remove_all.
RemoveAll(s, items) ==
    LET left[i \in 0 .. Len(s)] ==
            IF i = 0 THEN << >>
            ELSE IF s[i] \in items THEN left[i - 1] ELSE Append(left[i - 1], s[i])
    IN  left[Len(s)]

LeaveQueues(stopped) ==
    /\ running' = RemoveAll(running, stopped)
    /\ waiting' = RemoveAll(waiting, stopped)

\* The blocks the asynchronous scheduler caches when an outcome arrives, each
\* with its position.
NewlyCached(q, e, o) ==
    LET tokens == q.computed - e.rej - Awaited(q, e, o)
    IN  IF async /\ e.sampled
        THEN {<<q.table[i], i>> : i \in 1 .. Lesser(tokens \div BlockTokens, Len(q.table))}
        ELSE {}

\* The engine takes the oldest batch off the queue once the queue is full or
\* nothing is left to schedule; its callback has run by then.
MayComplete ==
    /\ phase = "idle" /\ inflight # << >>
    /\ Len(inflight) = Depth \/ ~HasRequests
    /\ Len(inflight) = 1 => unsettled = NoBatch

Complete ==
    /\ MayComplete
    /\ LET e     == Head(inflight)
           known == DOMAIN e \cap Unfinished
       IN  \E o \in [known -> [kept : 0 .. Lookahead + 1, stops : BOOLEAN]] :
            LET hashed == UNION {NewlyCached(request[r], e[r], o[r]) : r \in known \cap Running}
            IN  /\ \A r \in known : o[r] \in Outcomes(request[r], e[r])
                /\ request' = [r \in Req |-> IF r \in known
                                THEN Received(request[r], e[r], o[r]) ELSE request[r]]
                /\ cachedAt' = [b \in Block |->
                        IF \E i \in 1 .. Cardinality(Block) : <<b, i>> \in hashed
                        THEN CHOOSE i \in 1 .. Cardinality(Block) : <<b, i>> \in hashed
                        ELSE cachedAt[b]]
                /\ finished' = finished \cup {r \in known : o[r].stops}
                /\ LeaveQueues({r \in known : o[r].stops})
    /\ inflight' = Tail(inflight)
    /\ UNCHANGED <<async, batch, tokenBudget, phase, preempted, runner, tracker>>

\* finish_requests: a client gives a request up.
Abort(r) ==
    /\ phase = "idle" /\ r \in Unfinished
    /\ request' = [request EXCEPT ![r] = Idle]
    /\ LeaveQueues({r})
    /\ finished' = finished \cup {r}
    /\ UNCHANGED <<async, cachedAt, batch, tokenBudget, phase, preempted, inflight, runner,
                   tracker>>

Init ==
    /\ async \in BOOLEAN
    /\ request = [r \in Req |-> Idle]
    /\ running = << >> /\ waiting = << >>
    /\ cachedAt = [b \in Block |-> 0]
    /\ batch = NoBatch /\ tokenBudget = 0 /\ phase = "idle"
    /\ finished = {} /\ preempted = {}
    /\ inflight = << >>
    /\ worker = NoBatch /\ unsettled = NoBatch
    /\ needed = {} /\ full = {} /\ dropped = {} /\ lost = {}
    /\ TrackerInit

Next ==
    \/ StartStep \/ ScheduleRunning \/ Preempt \/ Resume \/ Dispatch
    \/ Settle \/ Complete
    \/ \E r \in Req : AdmitNew(r) \/ Abort(r)

Spec == Init /\ [][Next]_vars

\* The engine's busy loop runs while it has requests or batches in flight, and
\* the output thread gets every batch it was given.  Each step is named by its
\* guard and by the variable in which it shows.
Fairness ==
    /\ WF_phase(HasRequests /\ MayStartStep /\ phase' = "scheduling")
    /\ WF_vars(ScheduleRunning) /\ WF_vars(Preempt) /\ WF_vars(Resume)
    /\ WF_phase(MayDispatch /\ phase' = "idle")
    /\ WF_unsettled(unsettled # NoBatch /\ unsettled' = NoBatch)
    /\ WF_inflight(MayComplete /\ inflight' = Tail(inflight))

FairSpec == Spec /\ Fairness

-----------------------------------------------------------------------------
(* Properties. *)

Fills    == UNION {[B -> 0 .. Group] : B \in SUBSET Block}
Requests == [computed : 0 .. MaxLen,
             total : 0 .. MaxLen, placeholders : 0 .. 2 * (Lookahead + 1),
             decoding : BOOLEAN, table : Seq(Block)]

\* Counters stay natural (the scheduler asserts it of the placeholders) and
\* inside the limits of the request, tables name blocks, fills are fills.
TypeOK ==
    /\ async \in BOOLEAN
    /\ request \in [Req -> Requests]
    /\ IsInjective(running \o waiting) /\ Unfinished \subseteq Req
    /\ cachedAt \in [Block -> 0 .. Cardinality(Block)]
    /\ phase \in {"idle", "scheduling"}
    /\ finished \subseteq Req /\ preempted \subseteq Req
    /\ DOMAIN batch \subseteq Req
    /\ tokenBudget \in 0 .. Budget
    /\ Len(inflight) <= Depth
    /\ DOMAIN worker \subseteq Req /\ DOMAIN unsettled \subseteq DOMAIN worker
    /\ needed \subseteq Block /\ full \subseteq needed
    /\ stepBlocks \in Fills
    /\ \A t \in {requestBlocks, epochBlocks, resolvedBlocks, pendingBlocks} :
            DOMAIN t = Req /\ \A r \in Req : DOMAIN t[r] \subseteq Block

\* scatter_kvarn_mla_exact silently drops a row whose block has no slot.  The
\* snapshot published before a step names every block the step stores rows in,
\* although the starts it was computed from ignore the rejections of the batch
\* in flight.
RowsNeverDropped == dropped = {}

\* The other half of the pool's contract (MayLeave in ExactPool): a block with
\* rows that a live request or a prefix hit can still read leaves the snapshot
\* only after it has been published as full, so that prepare_step packs it.
LeavesOnlyFull == lost = {}

\* KVarNPathAudit, I3: a full block that can be a prefix hit was retired full by
\* its first owner, hence packed.
HitsWereFull == lost = {}

\* What the i-th batch of the queue has still to tell of a request: rejected
\* drafts, and tokens that the scheduler awaits.
Rejected(i, r) ==
    IF i \in DOMAIN inflight /\ r \in DOMAIN inflight[i] THEN inflight[i][r].rej ELSE 0

Sampled(i, r) ==
    IF i \in DOMAIN inflight /\ r \in DOMAIN inflight[i] /\ inflight[i][r].sampled
    THEN 1 + inflight[i][r].drafts ELSE 0

\* Between two steps the scheduler's optimistic counters and the worker agree
\* once the batches in flight (two at most) are accounted for:
\* num_computed_tokens exceeds the rows the GPU holds by exactly the rejections
\* not yet reported, and the placeholders are the tokens those batches were to
\* sample.
CountersAgree ==
    phase = "idle" => \A r \in Running :
        /\ request[r].computed = worker[r].rows + Rejected(1, r) + Rejected(2, r)
        /\ async => request[r].placeholders = Sampled(1, r) + Sampled(2, r)

\* The runner raises "correction was not resolved before the next scheduler
\* step" when a scheduled request still has pending blocks: an epoch is open
\* only while the counts of its batch are unsettled, and Dispatch waits for it.
EpochsSettle ==
    \A r \in Req : DOMAIN pendingBlocks[r] # {} => r \in DOMAIN unsettled

\* Every request finishes or is aborted: no preemption, rejection or guard that
\* waits for outcomes in flight leaves it behind, and rejected drafts do not
\* make the scheduler believe forever that a batch in flight will finish it.
RequestsFinish == \A r \in Req : r \in Unfinished ~> r \notin Unfinished

\* A block no live request holds stays in the snapshot for one step at most,
\* the one that removes its last owner: dead requests do not hold slots.
DeadBlocksLeave ==
    [][\A b \in needed' :
         (phase = "scheduling" /\ phase' = "idle" /\ batch # NoBatch) =>
            \/ \E r \in DOMAIN worker' : b \in Range(worker'[r].ids)
            \/ \E r \in DOMAIN worker \cap Removed : b \in Range(worker[r].ids)]_vars

\* The comment in _consume_resolved: the correction of a dead owner does not
\* raise the fill of a block that a new request has taken over.
DeadCorrectionsDie ==
    [][\A r \in DOMAIN worker' \ (DOMAIN worker \ Removed) :
         \A b \in DOMAIN requestBlocks'[r] \cap DOMAIN stepBlocks' :
            (phase = "scheduling" /\ phase' = "idle"
               /\ \A x \in DOMAIN worker' \ {r} : b \notin Range(worker'[x].ids))
            => stepBlocks'[b] <= requestBlocks'[r][b]]_vars
=============================================================================
