----------------------------- MODULE ExactPool -----------------------------
(***************************************************************************)
(* The exact-row pool behind the KVarN MLA cache: KVarNMLAStateManager and *)
(* one _GroupState (kvarn_mla_state.py), with the kernels it drives        *)
(* (scatter, pack and rehydrate of kvarn_mla.py).                          *)
(*                                                                         *)
(* A physical cache block lives either in a pool slot (exact rows) or in   *)
(* the paged cache (one packed record).  Before every forward pass         *)
(* prepare_step receives the ownership snapshot published by the live      *)
(* block tracker, retires the mapped blocks the snapshot does not name,    *)
(* packs those that must survive, and gives slots to the missing ones.     *)
(*                                                                         *)
(* Data abstraction.  The bytes of a row are not modelled; a copy of a     *)
(* block is described by how many of its leading rows hold the latest      *)
(* value written to that row.  A pool slot also remembers which block its  *)
(* rows belong to, so that rows of another block are never "current".      *)
(* prepare_step tells the fills of a snapshot apart only by whether they   *)
(* reach config.group, so block_fill is the set of the blocks whose entry  *)
(* does; an absent entry, None and a smaller count are all outside it.     *)
(***************************************************************************)
EXTENDS Naturals, FiniteSets

CONSTANTS
    Block,        \* physical block ids of one cache group
    Slot,         \* slots of the exact pool (_kvarn_pool_size)
    Layer,        \* the attention layers that share the group state
    DraftLayer,   \* those the speculator's own metadata builder names
    Group,        \* rows per block (config.group)
    NoSlot,       \* the mirror's -1
    FlushAll,     \* KVARN_MLA_FLUSH_ALL
    AllowRebind   \* whether rebind_cache_pointers may run between two steps

ASSUME PoolAssumption ==
    /\ Group \in Nat \ {0}
    /\ NoSlot \notin Slot
    /\ DraftLayer \subseteq Layer
    /\ IsFiniteSet(Block) /\ IsFiniteSet(Slot)
    /\ FlushAll \in BOOLEAN /\ AllowRebind \in BOOLEAN

VARIABLES
    mapping,   \* state.mapping: block -> slot
    free,      \* state.free_slots
    full,      \* state.block_fill: the blocks last published as full
    flushed,   \* state.flushed: blocks with a packed record
    mirror,    \* the device tensor block_to_slot the kernels read
    pool,      \* per layer and slot: whose rows, and how many are current
    record,    \* per layer and block: current rows of the packed record
    bound,     \* layers whose _kvarn_cache_ref is set
    valid,     \* per layer and block: rows readers may ask for
    plan,      \* the snapshot of the step and the rows it will write
    phase,     \* where the step is
    status     \* "ok", or "exhausted" after the RuntimeError

bookkeeping == <<mapping, free, full, flushed, mirror>>
contents    == <<pool, record, bound, valid>>
vars        == <<bookkeeping, contents, plan, phase, status>>

Fill    == 0 .. Group
Phase   == {"idle", "target", "targetForward", "draft", "draftForward"}
SlotRow == [blk : Block, rows : Fill]
Plan    == [needed : SUBSET Block, full : SUBSET Block, upto : [Block -> Fill]]

Less(m, n) == IF m < n THEN m ELSE n

Mapped  == {b \in Block : mapping[b] # NoSlot}
NoRows  == [b \in Block |-> 0]
NoPlan  == [needed |-> {}, full |-> {}, upto |-> NoRows]

-----------------------------------------------------------------------------
(* What prepare_step computes from the snapshot. *)

\* The snapshot is authoritative for the blocks it names, the others keep
\* their entry.
Published == plan.full \cup (full \ plan.needed)

Retired == Mapped \ plan.needed
Missing == plan.needed \ Mapped

\* Slip: full blocks are packed while they still own their slot.
FlushEager == {b \in Mapped : FlushAll \/ b \in Published}

FlushIds == {b \in Retired : FlushAll \/ b \in Published \/ b \in flushed}

\* Slip: only the packed blocks give their slot back.
FreedWhenPacked == {mapping[b] : b \in FlushIds}

Freed == {mapping[b] : b \in Retired}

\* Blocks the code takes for re-entries whose rows have been lost.
Orphans == (Missing \cap plan.full) \ (flushed \cup FlushIds)

\* Slip: a block published as full is taken for one this step writes whole.
RehydratePartial == (Missing \cap (flushed \cup FlushIds)) \ plan.full

Rehydrated == Missing \cap (flushed \cup FlushIds)

\* pack_kvarn_mla_blocks on the layers of the caller, skipped by a layer that
\* has no cache tensor yet.
Pack(callers) ==
    [l \in Layer |-> [b \in Block |->
        IF l \in callers /\ bound[l] /\ b \in FlushIds
        THEN IF pool[l][mapping[b]].blk = b THEN pool[l][mapping[b]].rows ELSE 0
        ELSE record[l][b]]]

\* The slots of alloc after zero_() and rehydrate; a slot that is neither
\* keeps the rows of the block that had it before.
Restore(callers, alloc, packed) ==
    [l \in Layer |-> [s \in Slot |->
        IF \E b \in Missing : alloc[b] = s
        THEN LET b == CHOOSE c \in Missing : alloc[c] = s IN
             IF b \in Orphans THEN [blk |-> b, rows |-> 0]
             ELSE IF b \in Rehydrated /\ l \in callers /\ bound[l]
                  THEN [blk |-> b, rows |-> packed[l][b]]
                  ELSE pool[l][s]
        ELSE pool[l][s]]]

\* Slots for the missing blocks.  The code pops a LIFO list in sorted block
\* order; any assignment of distinct free slots is allowed here.
\* Slip: a slot is read from the free list without being popped.
AllocationsPeek(available) == [Missing -> available]

Allocations(available) ==
    {alloc \in [Missing -> available] :
        \A b, c \in Missing : b # c => alloc[b] # alloc[c]}

Remapped(old, alloc) ==
    [b \in Block |-> IF b \in Missing THEN alloc[b]
                     ELSE IF b \in Retired THEN NoSlot ELSE old[b]]

\* Slip: the mirror learns the new slots and forgets no old one.
MirrorKeepsRetired(alloc) ==
    [b \in Block |-> IF b \in Missing THEN alloc[b] ELSE mirror[b]]

\* The one batched _update_mirror of the step.
MirrorUpdate(alloc) == Remapped(mirror, alloc)

\* The RuntimeError leaves the retirement behind but no allocation and no
\* mirror update.
Exhaust ==
    /\ Cardinality(Missing) > Cardinality(free \cup Freed)
    /\ mapping' = [b \in Block |-> IF b \in Retired THEN NoSlot ELSE mapping[b]]
    /\ free' = free \cup Freed
    /\ status' = "exhausted"
    /\ UNCHANGED <<mirror, pool>>

Allocate(callers) ==
    /\ Cardinality(Missing) <= Cardinality(free \cup Freed)
    /\ \E alloc \in Allocations(free \cup Freed) :
        /\ mapping' = Remapped(mapping, alloc)
        /\ mirror' = MirrorUpdate(alloc)
        /\ free' = (free \cup Freed) \ {alloc[b] : b \in Missing}
        /\ pool' = Restore(callers, alloc, Pack(callers))
    /\ UNCHANGED status

PrepareStep(callers) ==
    /\ full' = Published \ Retired
    /\ record' = Pack(callers)
    /\ flushed' = flushed \cup FlushIds
    /\ Exhaust \/ Allocate(callers)
    /\ UNCHANGED <<bound, valid, plan>>

-----------------------------------------------------------------------------
(* Row writes. *)

\* Writing rows from .. to-1 of block b leaves every other copy of the block
\* with at most `from` current rows.
\* Slip: rows are counted as appended, not as written at their offset.
ScatteredAppend(old, b, from, to) ==
    IF old.blk = b
    THEN [old EXCEPT !.rows = IF old.rows >= from THEN @ + (to - from) ELSE @]
    ELSE [blk |-> b, rows |-> IF from = 0 THEN to ELSE 0]

Scattered(old, b, from, to) ==
    IF old.blk = b
    THEN [blk |-> b, rows |-> IF old.rows >= from THEN to ELSE old.rows]
    ELSE [blk |-> b, rows |-> IF from = 0 THEN to ELSE 0]

Aged(old, b, from) == IF old.blk = b THEN [old EXCEPT !.rows = Less(@, from)] ELSE old

\* scatter_kvarn_mla_exact of the planned rows of every block on one layer: a
\* row whose block has no slot in the mirror is dropped.
Writes(l) == {b \in plan.needed : plan.upto[b] > valid[l][b]}

ScatterPool(l) ==
    [s \in Slot |->
        IF \E b \in Writes(l) : mirror[b] = s
        THEN LET b == CHOOSE c \in Writes(l) : mirror[c] = s
             IN  Scattered(pool[l][s], b, valid[l][b], plan.upto[b])
        ELSE IF pool[l][s].blk \in Writes(l)
             THEN Aged(pool[l][s], pool[l][s].blk, valid[l][pool[l][s].blk])
             ELSE pool[l][s]]

\* do_kv_cache_update of the layers: bind the cache tensor, then scatter.
Forward(layers) ==
    /\ bound' = [l \in Layer |-> bound[l] \/ l \in layers]
    /\ pool' = [l \in Layer |-> IF l \in layers THEN ScatterPool(l) ELSE pool[l]]
    /\ record' = [l \in Layer |-> [b \in Block |->
                     IF l \in layers /\ b \in Writes(l)
                     THEN Less(record[l][b], valid[l][b]) ELSE record[l][b]]]
    /\ valid' = [l \in Layer |-> [b \in Block |->
                     IF l \in layers /\ b \in Writes(l) THEN plan.upto[b] ELSE valid[l][b]]]
    /\ UNCHANGED <<bookkeeping, status>>

-----------------------------------------------------------------------------
(* The scheduler and the tracker, as prepare_step meets them. *)

\* The tracker lets a block with readable rows leave the snapshot only after
\* it has published it as full; with FlushAll nothing is asked of it.
MayLeave(b) ==
    \/ \A l \in Layer : valid[l][b] = 0
    \/ b \in full
    \/ FlushAll

\* A new snapshot: any of the blocks it names may be published as full, early
\* or late, and there are some rows to write, all of them in named blocks.
Publish ==
    /\ phase = "idle" /\ status = "ok"
    /\ \E needed \in SUBSET Block, upto \in [Block -> Fill] : \E fullNow \in SUBSET needed :
        /\ \A b \in Mapped \ needed : MayLeave(b)
        /\ \A b \in Block \ needed : upto[b] = 0
        /\ \E b \in needed : \A l \in Layer : upto[b] > valid[l][b]
        /\ \A b \in needed : upto[b] = 0 \/ \A l \in Layer : upto[b] > valid[l][b]
        /\ plan' = [needed |-> needed, full |-> fullNow, upto |-> upto]
    /\ phase' = "target"
    /\ UNCHANGED <<bookkeeping, contents, status>>

\* The target's builder names every layer of the cache group.
PrepareTarget ==
    /\ phase = "target" /\ status = "ok"
    /\ PrepareStep(Layer)
    /\ phase' = "targetForward"

ForwardTarget ==
    /\ phase = "targetForward" /\ status = "ok"
    /\ Forward(Layer \ DraftLayer)
    /\ phase' = "draft"
    /\ UNCHANGED plan

\* The speculator rebuilds its metadata with the same snapshot.
PrepareDraft ==
    /\ phase = "draft" /\ status = "ok"
    /\ PrepareStep(DraftLayer)
    /\ phase' = "draftForward"

ForwardDraft ==
    /\ phase = "draftForward" /\ status = "ok"
    /\ Forward(DraftLayer)
    /\ plan' = NoPlan
    /\ phase' = "idle"

\* The block pool hands a block to a new owner: its rows mean nothing to
\* the new owner, wherever copies of them are.
Reassign(b) ==
    /\ phase = "idle" /\ status = "ok"
    /\ \E l \in Layer : valid[l][b] > 0
    /\ valid' = [l \in Layer |-> [valid[l] EXCEPT ![b] = 0]]
    /\ record' = [l \in Layer |-> [record[l] EXCEPT ![b] = 0]]
    /\ pool' = [l \in Layer |-> [s \in Slot |-> Aged(pool[l][s], b, 0)]]
    /\ UNCHANGED <<bookkeeping, bound, plan, phase, status>>

\* Rejected draft tokens give back the last rows of a block.
Rollback(b) ==
    /\ phase = "idle" /\ status = "ok"
    /\ \E n \in 1 .. Group - 1 :
        /\ \A l \in Layer : valid[l][b] > n
        /\ valid' = [l \in Layer |-> [valid[l] EXCEPT ![b] = n]]
    /\ UNCHANGED <<bookkeeping, pool, record, bound, plan, phase, status>>

\* Slip: the flushed set goes with the bindings.
RebindForgets ==
    /\ AllowRebind
    /\ phase = "idle" /\ status = "ok"
    /\ bound' = [l \in Layer |-> FALSE]
    /\ flushed' = {}
    /\ UNCHANGED <<mapping, free, full, mirror>>
    /\ UNCHANGED <<pool, record, valid, plan, phase, status>>

\* rebind_cache_pointers: the impls forget their tensors, the group state stays.
Rebind ==
    /\ AllowRebind
    /\ phase = "idle" /\ status = "ok"
    /\ bound' = [l \in Layer |-> FALSE]
    /\ UNCHANGED <<bookkeeping, pool, record, valid, plan, phase, status>>

Unmapped == [b \in Block |-> NoSlot]

\* _GroupState.__post_init__ and the impls before their first forward pass.
Init ==
    /\ mapping = Unmapped /\ mirror = Unmapped
    /\ free = Slot
    /\ full = {}
    /\ flushed = {}
    /\ \E b \in Block : pool = [l \in Layer |-> [s \in Slot |-> [blk |-> b, rows |-> 0]]]
    /\ record = [l \in Layer |-> NoRows]
    /\ valid = [l \in Layer |-> NoRows]
    /\ bound = [l \in Layer |-> FALSE]
    /\ plan = NoPlan
    /\ phase = "idle"
    /\ status = "ok"

\* initialize_kv_cache: a new cache tensor, reset_cache_bindings, and a
\* scheduler that starts with no cached block.
Reset ==
    /\ phase = "idle" /\ status = "ok"
    /\ mapping' = Unmapped /\ mirror' = Unmapped
    /\ free' = Slot
    /\ full' = {}
    /\ flushed' = {}
    /\ pool' = [l \in Layer |-> [s \in Slot |-> [pool[l][s] EXCEPT !.rows = 0]]]
    /\ record' = [l \in Layer |-> NoRows]
    /\ valid' = [l \in Layer |-> NoRows]
    /\ bound' = [l \in Layer |-> FALSE]
    /\ UNCHANGED <<plan, phase, status>>

Next ==
    \/ Publish
    \/ PrepareTarget
    \/ ForwardTarget
    \/ PrepareDraft
    \/ ForwardDraft
    \/ \E b \in Block : Reassign(b) \/ Rollback(b)
    \/ Rebind
    \/ Reset

Spec == Init /\ [][Next]_vars

-----------------------------------------------------------------------------
(* Properties. *)

\* Every variable has the type its Python counterpart has.
TypeOK ==
    /\ mapping \in [Block -> Slot \cup {NoSlot}]
    /\ free \subseteq Slot
    /\ full \subseteq Block
    /\ flushed \subseteq Block
    /\ mirror \in [Block -> Slot \cup {NoSlot}]
    /\ pool \in [Layer -> [Slot -> SlotRow]]
    /\ record \in [Layer -> [Block -> Fill]]
    /\ bound \in [Layer -> BOOLEAN]
    /\ valid \in [Layer -> [Block -> Fill]]
    /\ plan \in Plan
    /\ phase \in Phase
    /\ status \in {"ok", "exhausted"}

\* No slot is owned twice and none leaks: through retirement, reallocation in
\* the same step and the pool-exhausted error, a slot is either free or the
\* slot of exactly one block (free_slots and mapping of prepare_step).
SlotExclusive ==
    /\ \A b, c \in Mapped : mapping[b] = mapping[c] => b = c
    /\ free = Slot \ {mapping[b] : b \in Mapped}

\* What the kernels see is what the Python side decided: while the worker is
\* up the device mirror block_to_slot is the mapping (_update_mirror).
MirrorAgrees == status = "ok" => mirror = mapping

\* A reader of layer l that follows the mirror to a pool slot, or falls back
\* to the packed record, finds every row of block b it may ask for.
Found(l, b) ==
    valid[l][b] > 0 =>
        IF mirror[b] = NoSlot
        THEN record[l][b] >= valid[l][b]
        ELSE /\ pool[l][mirror[b]].blk = b
             /\ pool[l][mirror[b]].rows >= valid[l][b]

\* The promise of the pool: at every point of a step, a reader that follows
\* the mirror to a pool slot, or falls back to the packed record, finds the
\* latest rows of that very block, for every row it may ask for.
ReadsOwnRows ==
    status = "ok" => \A l \in Layer, b \in Block : Found(l, b)

\* What dropping the bindings in the middle of serving can cost
\* (rebind_cache_pointers, "mappings/flushed sets must persist"): rows that
\* layer l could find go missing only in a prepare_step that moves their
\* block in or out of the pool while l has no cache tensor; the blocks that
\* stay put, and all that moves once l has run again, keep every row.
LostOnlyUnbound ==
    [][\A l \in Layer, b \in Block :
          Found(l, b) /\ ~ Found(l, b)'
              => phase = "target" /\ ~ bound[l] /\ b \in Retired \cup Missing]_vars

\* The RuntimeError of prepare_step is a sizing error, never a leak: it is
\* raised only for a snapshot that by itself names more blocks than slots.
ExhaustedOnlyBySize ==
    status = "exhausted" => Cardinality(plan.needed) > Cardinality(Slot)

\* The target's builder prepares every layer, so the second prepare_step of a
\* step, by the speculator's builder on the same snapshot, changes nothing:
\* no slot moves between the target's forward pass and the draft's.
DraftPrepareIsNoop ==
    [][phase = "draft" => UNCHANGED <<bookkeeping, pool, record>>]_vars

\* What the messages of prepare_step say of an orphan ("provenance-lost
\* re-entry"): a block that had rows and lost their provenance, so that zeroing its slot drops its context.
OrphanHadRows ==
    phase = "target" => \A b \in Orphans : \E l \in Layer : valid[l][b] > 0
=============================================================================
