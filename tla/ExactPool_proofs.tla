-------------------------- MODULE ExactPool_proofs --------------------------
(***************************************************************************)
(* Proofs about ExactPool for any sets of blocks, slots and layers: no     *)
(* slot is shared or lost, the mirror the kernels read agrees with the     *)
(* mapping, rows are lost only where a layer is unbound, and the           *)
(* speculator's second prepare_step moves nothing.                         *)
(***************************************************************************)
EXTENDS ExactPool, FiniteSetTheorems, TLAPS

(***************************************************************************)
(* Slots.  Types, exclusive slots and the mirror form an inductive         *)
(* invariant of their own, whatever the scheduler does.                    *)
(***************************************************************************)
SlotInv == TypeOK /\ SlotExclusive /\ MirrorAgrees

LEMMA InitSlots == Init => SlotInv
BY PoolAssumption
   DEF Init, SlotInv, TypeOK, SlotExclusive, MirrorAgrees, Mapped, Unmapped,
       NoRows, NoPlan, Plan, Phase, SlotRow, Fill

\* What a packed record can hold.
LEMMA PackType ==
    ASSUME TypeOK, NEW callers
    PROVE  Pack(callers) \in [Layer -> [Block -> Fill]]
<1>1. ASSUME NEW l \in Layer, NEW b \in Block, b \in FlushIds
      PROVE  pool[l][mapping[b]].rows \in Fill
  BY <1>1 DEF TypeOK, SlotRow, FlushIds, Retired, Mapped
<1>2. 0 \in Fill
  BY PoolAssumption DEF Fill
<1> QED
  BY <1>1, <1>2 DEF Pack, TypeOK

LEMMA RestoreType ==
    ASSUME TypeOK, NEW callers, NEW alloc,
           NEW packed \in [Layer -> [Block -> Fill]]
    PROVE  Restore(callers, alloc, packed) \in [Layer -> [Slot -> SlotRow]]
<1>1. ASSUME NEW l \in Layer, NEW s \in Slot
      PROVE  Restore(callers, alloc, packed)[l][s] \in SlotRow
  <2> DEFINE c == CHOOSE b \in Missing : alloc[b] = s
  <2>1. CASE \E b \in Missing : alloc[b] = s
    <3>1. c \in Missing
      BY <2>1
    <3>2. c \in Block
      BY <3>1 DEF Missing, TypeOK, Plan
    <3>3. packed[l][c] \in Fill /\ 0 \in Fill /\ pool[l][s] \in SlotRow
      BY <3>2, PoolAssumption DEF Fill, TypeOK
    <3> QED
      BY <2>1, <3>2, <3>3 DEF Restore, SlotRow
  <2>2. CASE ~ \E b \in Missing : alloc[b] = s
    BY <2>2 DEF Restore, TypeOK
  <2> QED
    BY <2>1, <2>2
<1> QED
  BY <1>1 DEF Restore

LEMMA ScatterType ==
    ASSUME TypeOK, NEW l \in Layer
    PROVE  ScatterPool(l) \in [Slot -> SlotRow]
<1>1. ASSUME NEW s \in Slot PROVE ScatterPool(l)[s] \in SlotRow
  <2> DEFINE c == CHOOSE b \in Writes(l) : mirror[b] = s
  <2>0. pool[l][s] \in SlotRow /\ pool[l][s].blk \in Block /\ pool[l][s].rows \in Fill
    BY DEF TypeOK, SlotRow
  <2>1. CASE \E b \in Writes(l) : mirror[b] = s
    <3>1. c \in Writes(l)
      BY <2>1
    <3>2. c \in Block /\ plan.upto[c] \in Fill /\ 0 \in Fill
      BY <3>1, PoolAssumption DEF Writes, TypeOK, Plan, Fill
    <3>3. Scattered(pool[l][s], c, valid[l][c], plan.upto[c]) \in SlotRow
      BY <2>0, <3>2 DEF Scattered, SlotRow
    <3> QED
      BY <2>1, <3>3 DEF ScatterPool
  <2>2. CASE ~ \E b \in Writes(l) : mirror[b] = s
    <3>1. valid[l][pool[l][s].blk] \in Fill
      BY <2>0 DEF TypeOK
    <3>2. Less(pool[l][s].rows, valid[l][pool[l][s].blk]) \in Fill
      BY <2>0, <3>1 DEF Less
    <3>3. [pool[l][s] EXCEPT !.rows = Less(@, valid[l][pool[l][s].blk])] \in SlotRow
      BY <2>0, <3>2 DEF SlotRow
    <3> QED
      BY <2>0, <2>2, <3>3 DEF ScatterPool, Aged
  <2> QED
    BY <2>1, <2>2
<1> QED
  BY <1>1 DEF ScatterPool

\* Both outcomes of prepare_step keep the slots apart.
LEMMA PrepareSlots ==
    ASSUME SlotInv, NEW callers, PrepareStep(callers), status = "ok", phase' \in Phase
    PROVE  SlotInv'
<1> USE DEF SlotInv
<1>1. Published \subseteq Block /\ FlushIds \subseteq Block /\ Missing \subseteq Block
      /\ Retired = Mapped \ plan.needed /\ Mapped \subseteq Block
  BY DEF TypeOK, Plan, Published, FlushIds, Missing, Retired, Mapped
<1>2. Freed \subseteq Slot
  BY DEF Freed, Retired, Mapped, TypeOK
<1>3. record' \in [Layer -> [Block -> Fill]]
  BY PackType DEF PrepareStep
<1>4. full' \subseteq Block /\ flushed' \subseteq Block
  BY <1>1 DEF PrepareStep, TypeOK
<1>5. CASE Exhaust
  <2>1. mapping' = [b \in Block |-> IF b \in Retired THEN NoSlot ELSE mapping[b]]
    BY <1>5 DEF Exhaust
  <2>2. Mapped' = Mapped \ Retired
    BY <2>1, <1>1 DEF Mapped
  <2>3. \A b \in Mapped' : mapping'[b] = mapping[b]
    BY <2>1, <2>2 DEF Mapped
  <2>4. SlotExclusive'
    BY <2>2, <2>3, <1>1, <1>2, <1>5 DEF SlotExclusive, Exhaust, Freed
  <2>5. TypeOK'
    BY <1>1, <1>2, <1>3, <1>4, <1>5, <2>1 DEF TypeOK, PrepareStep, Exhaust
  <2>6. MirrorAgrees'
    BY <1>5 DEF MirrorAgrees, Exhaust
  <2> QED
    BY <2>4, <2>5, <2>6
<1>6. CASE Allocate(callers)
  <2> DEFINE open == free \cup Freed
  <2>1. PICK alloc \in Allocations(open) :
          /\ mapping' = Remapped(mapping, alloc)
          /\ mirror' = MirrorUpdate(alloc)
          /\ free' = open \ {alloc[b] : b \in Missing}
          /\ pool' = Restore(callers, alloc, Pack(callers))
    BY <1>6 DEF Allocate
  <2>2. open \subseteq Slot /\ alloc \in [Missing -> open]
        /\ \A b, c \in Missing : b # c => alloc[b] # alloc[c]
    BY <2>1, <1>2 DEF Allocations, TypeOK
  <2>3. \A b \in Missing : mapping'[b] = alloc[b]
    BY <2>1, <1>1 DEF Remapped
  <2>4. \A b \in Mapped \ Retired : mapping'[b] = mapping[b]
    BY <2>1, <1>1 DEF Remapped, Missing
  <2>5. Mapped' = (Mapped \ Retired) \cup Missing
    BY <2>1, <2>2, <1>1, PoolAssumption DEF Remapped, Mapped, Missing
  <2>6. \A b \in Mapped \ Retired : mapping[b] \in Slot /\ mapping[b] \notin open
    BY <1>1 DEF SlotExclusive, Freed, Mapped, TypeOK
  <2>7. \A b, c \in Mapped' : mapping'[b] = mapping'[c] => b = c
    BY <2>2, <2>3, <2>4, <2>5, <2>6 DEF SlotExclusive
  <2>8. open = Slot \ {mapping[b] : b \in Mapped \ Retired}
    BY <1>1 DEF SlotExclusive, Freed, Mapped, TypeOK
  <2>9. free' = Slot \ {mapping'[b] : b \in Mapped'}
    <3>1. {mapping'[b] : b \in Mapped'} =
             {mapping[b] : b \in Mapped \ Retired} \cup {alloc[b] : b \in Missing}
      BY <2>3, <2>4, <2>5
    <3> QED
      BY <2>1, <2>8, <3>1
  <2>10. pool' \in [Layer -> [Slot -> SlotRow]]
    BY <2>1, PackType, RestoreType
  <2>11. mapping' \in [Block -> Slot \cup {NoSlot}] /\ mirror' = mapping'
    BY <2>1, <2>2, <1>1, PoolAssumption DEF Remapped, MirrorUpdate, MirrorAgrees, TypeOK
  <2>12. free' \subseteq Slot
    BY <2>1, <2>2
  <2>13. TypeOK'
    BY <1>3, <1>4, <1>6, <2>10, <2>11, <2>12 DEF TypeOK, PrepareStep, Allocate
  <2> QED
    BY <2>7, <2>9, <2>11, <2>13 DEF SlotExclusive, MirrorAgrees
<1> QED
  BY <1>5, <1>6 DEF PrepareStep

LEMMA ForwardSlots ==
    ASSUME SlotInv, NEW layers, Forward(layers), phase' \in Phase, plan' \in Plan
    PROVE  SlotInv'
<1> USE DEF SlotInv
<1>1. pool' \in [Layer -> [Slot -> SlotRow]]
  BY ScatterType DEF Forward, TypeOK
<1>2. record' \in [Layer -> [Block -> Fill]]
  BY DEF Forward, TypeOK, Less
<1>3. valid' \in [Layer -> [Block -> Fill]]
  BY DEF Forward, TypeOK, Plan
<1>4. bound' \in [Layer -> BOOLEAN]
  BY DEF Forward, TypeOK
<1> QED
  BY <1>1, <1>2, <1>3, <1>4
     DEF Forward, bookkeeping, TypeOK, SlotExclusive, MirrorAgrees, Mapped
LEMMA AgedType ==
    ASSUME NEW old \in SlotRow, NEW b, NEW n \in Fill
    PROVE  Aged(old, b, n) \in SlotRow
BY DEF Aged, SlotRow, Less

\* The steps of the scheduler leave the slots alone.
LEMMA SchedulerSlots ==
    ASSUME SlotInv,
           \/ Publish
           \/ \E b \in Block : Reassign(b) \/ Rollback(b)
           \/ Rebind
    PROVE  SlotInv'
<1> USE DEF SlotInv
<1>1. CASE Publish
  <2>1. plan' \in Plan
    BY <1>1 DEF Publish, Plan
  <2> QED
    BY <1>1, <2>1 DEF Publish, bookkeeping, contents, TypeOK, Phase, SlotExclusive,
                      MirrorAgrees, Mapped
<1>2. ASSUME NEW b \in Block, Reassign(b)
      PROVE  SlotInv'
  <2>1. 0 \in Fill
    BY PoolAssumption DEF Fill
  <2>2. pool' \in [Layer -> [Slot -> SlotRow]]
    BY <1>2, <2>1, AgedType DEF Reassign, TypeOK
  <2>3. valid' \in [Layer -> [Block -> Fill]] /\ record' \in [Layer -> [Block -> Fill]]
    BY <1>2, <2>1 DEF Reassign, TypeOK
  <2> QED
    BY <1>2, <2>2, <2>3 DEF Reassign, bookkeeping, TypeOK, SlotExclusive, MirrorAgrees, Mapped
<1>3. ASSUME NEW b \in Block, Rollback(b)
      PROVE  SlotInv'
  <2>1. valid' \in [Layer -> [Block -> Fill]]
    BY <1>3, PoolAssumption DEF Rollback, TypeOK, Fill
  <2> QED
    BY <1>3, <2>1 DEF Rollback, bookkeeping, TypeOK, SlotExclusive, MirrorAgrees, Mapped
<1>4. CASE Rebind
  BY <1>4 DEF Rebind, bookkeeping, TypeOK, SlotExclusive, MirrorAgrees, Mapped
<1> QED
  BY <1>1, <1>2, <1>3, <1>4

LEMMA ResetSlots ==
    ASSUME SlotInv, Reset
    PROVE  SlotInv'
<1>1. 0 \in Fill
  BY PoolAssumption DEF Fill
<1>2. pool' \in [Layer -> [Slot -> SlotRow]]
  <2>1. \A old \in SlotRow : [old EXCEPT !.rows = 0] \in SlotRow
    BY <1>1 DEF SlotRow
  <2> QED
    BY <2>1 DEF Reset, SlotInv, TypeOK
<1>3. Mapped' = {}
  BY DEF Reset, Mapped, Unmapped
<1>4. /\ mapping' \in [Block -> Slot \cup {NoSlot}]
      /\ record' \in [Layer -> [Block -> Fill]]
      /\ valid' \in [Layer -> [Block -> Fill]]
  BY <1>1 DEF Reset, Unmapped, NoRows
<1> QED
  BY <1>2, <1>3, <1>4 DEF Reset, SlotInv, TypeOK, SlotExclusive, MirrorAgrees

LEMMA NextSlots ==
    ASSUME SlotInv, [Next]_vars
    PROVE  SlotInv'
<1> USE DEF SlotInv
<1>1. CASE PrepareTarget
  BY <1>1, PrepareSlots DEF PrepareTarget, Phase
<1>2. CASE ForwardTarget
  BY <1>2, ForwardSlots DEF ForwardTarget, Phase, TypeOK
<1>3. CASE PrepareDraft
  BY <1>3, PrepareSlots DEF PrepareDraft, Phase
<1>4. CASE ForwardDraft
  <2>1. plan' \in Plan
    BY <1>4, PoolAssumption DEF ForwardDraft, NoPlan, NoRows, Plan, Fill
  <2> QED
    BY <1>4, <2>1, ForwardSlots DEF ForwardDraft, Phase
<1>5. CASE UNCHANGED vars
  BY <1>5 DEF vars, bookkeeping, contents, TypeOK, SlotExclusive, MirrorAgrees, Mapped
<1> QED
  BY <1>1, <1>2, <1>3, <1>4, <1>5, SchedulerSlots, ResetSlots DEF Next

\* Every variable keeps its type, no slot is shared or lost, and the mirror
\* the kernels read is the mapping of the Python side, for any pool.
THEOREM SlotTheorem == Spec => [](TypeOK /\ SlotExclusive /\ MirrorAgrees)
<1>1. Init => SlotInv
  BY InitSlots
<1>2. SlotInv /\ [Next]_vars => SlotInv'
  BY NextSlots
<1> QED
  BY <1>1, <1>2, PTL DEF Spec, SlotInv

\* Every variable keeps its type: in particular no slot is named that does
\* not exist, and no copy of a block has more rows than a block holds.
THEOREM PoolTypeTheorem == Spec => []TypeOK
  BY SlotTheorem, PTL

\* While the worker is up the kernels' mirror is the mapping.
THEOREM MirrorTheorem == Spec => []MirrorAgrees
  BY SlotTheorem, PTL

\* Because slots are not shared and none leaks, a snapshot that finds too few
\* free slots names more blocks than there are slots.
LEMMA ExhaustSize ==
    ASSUME SlotInv, Exhaust
    PROVE  Cardinality(plan.needed) > Cardinality(Slot)
<1> DEFINE kept   == Mapped \cap plan.needed
           owned  == {mapping[b] : b \in kept}
           open   == free \cup Freed
           f      == [b \in kept |-> mapping[b]]
<1>1. /\ plan.needed \subseteq Block /\ Mapped \subseteq Block
      /\ Missing = plan.needed \ Mapped /\ Retired = Mapped \ plan.needed
  BY DEF SlotInv, TypeOK, Plan, Missing, Retired, Mapped
<1>2. /\ IsFiniteSet(plan.needed) /\ IsFiniteSet(kept) /\ IsFiniteSet(Missing)
      /\ IsFiniteSet(Slot)
  BY <1>1, FS_Subset, PoolAssumption
<1>3. open \subseteq Slot /\ Slot \ owned \subseteq open /\ owned \subseteq Slot
  BY <1>1 DEF SlotInv, TypeOK, SlotExclusive, Freed, Mapped
<1>4. IsFiniteSet(open) /\ IsFiniteSet(owned) /\ IsFiniteSet(Slot \ owned)
  BY <1>2, <1>3, FS_Subset
<1>5. Cardinality(owned) <= Cardinality(kept)
  <2>1. f \in Surjection(kept, owned)
    BY DEF Surjection
  <2> QED
    BY <1>2, <2>1, FS_Surjection
<1>6. Cardinality(Slot \ owned) = Cardinality(Slot) - Cardinality(owned)
  <2>1. Slot \cap owned = owned
    BY <1>3
  <2> QED
    BY <1>2, <2>1, FS_Difference
<1>7. Cardinality(Slot \ owned) <= Cardinality(open)
  BY <1>3, <1>4, FS_Subset
<1>8. Cardinality(plan.needed) = Cardinality(Missing) + Cardinality(kept)
  <2>1. plan.needed \cap Mapped = kept
    OBVIOUS
  <2>2. Cardinality(Missing) = Cardinality(plan.needed) - Cardinality(kept)
    BY <1>1, <1>2, <2>1, FS_Difference
  <2> QED
    BY <1>2, <2>2, FS_CardinalityType
<1>9. Cardinality(Missing) > Cardinality(open)
  BY DEF Exhaust
<1>10. /\ Cardinality(plan.needed) \in Nat /\ Cardinality(Missing) \in Nat
       /\ Cardinality(kept) \in Nat /\ Cardinality(owned) \in Nat
       /\ Cardinality(open) \in Nat /\ Cardinality(Slot) \in Nat
  BY <1>2, <1>4, FS_CardinalityType
<1> QED
  BY <1>5, <1>6, <1>7, <1>8, <1>9, <1>10

\* The pool-exhausted error of prepare_step is a sizing error for any pool and
\* any scheduler: pool_slots was too small for the snapshot, no slot is lost.
THEOREM SizeTheorem == Spec => []ExhaustedOnlyBySize
<1>1. Init => ExhaustedOnlyBySize
  BY DEF Init, ExhaustedOnlyBySize
<1>2. SlotInv /\ ExhaustedOnlyBySize /\ [Next]_vars => ExhaustedOnlyBySize'
  <2> SUFFICES ASSUME SlotInv, ExhaustedOnlyBySize, [Next]_vars
               PROVE  ExhaustedOnlyBySize'
    OBVIOUS
  <2>1. ASSUME NEW callers, status = "ok", PrepareStep(callers)
        PROVE  ExhaustedOnlyBySize'
    <3>1. plan' = plan
      BY <2>1 DEF PrepareStep
    <3>2. CASE Exhaust
      BY <3>1, <3>2, ExhaustSize DEF ExhaustedOnlyBySize
    <3>3. CASE Allocate(callers)
      BY <2>1, <3>3 DEF Allocate, ExhaustedOnlyBySize
    <3> QED
      BY <2>1, <3>2, <3>3 DEF PrepareStep
  <2>2. CASE PrepareTarget \/ PrepareDraft
    BY <2>1, <2>2 DEF PrepareTarget, PrepareDraft
  <2>3. CASE UNCHANGED vars
    BY <2>3 DEF vars, ExhaustedOnlyBySize
  <2>4. CASE ~ (PrepareTarget \/ PrepareDraft) /\ Next
    BY <2>4 DEF Next, Publish, ForwardTarget, ForwardDraft, Forward, Reassign, Rollback,
                Rebind, Reset, ExhaustedOnlyBySize
  <2> QED
    BY <2>2, <2>3, <2>4
<1>3. Init => SlotInv
  BY InitSlots
<1>4. SlotInv /\ [Next]_vars => SlotInv'
  BY NextSlots
<1> QED
  BY <1>1, <1>2, <1>3, <1>4, PTL DEF Spec

(***************************************************************************)
(* Rows.  What the bookkeeping promises about rows is inductive whether or *)
(* not bindings are dropped: the tracker drops only full blocks, a         *)
(* prepared pool holds exactly the snapshot, and flushed covers every      *)
(* block with rows outside the pool.                                       *)
(***************************************************************************)
PlanInv ==
    /\ plan.full \subseteq plan.needed
    /\ \A b \in Block : plan.upto[b] > 0 => b \in plan.needed

DropsOnlyFull ==
    phase = "target" => \A b \in Mapped \ plan.needed : MayLeave(b)

PreparedInv ==
    (phase \in {"targetForward", "draft", "draftForward"} /\ status = "ok") =>
        /\ Mapped = plan.needed
        /\ full \cap plan.needed = plan.full

UnmappedFlushed ==
    status = "ok" =>
        \A l \in Layer, b \in Block :
            valid[l][b] > 0 /\ b \notin Mapped => b \in flushed

BookInv == PlanInv /\ DropsOnlyFull /\ PreparedInv /\ UnmappedFlushed

LEMMA InitBook == Init => BookInv
BY PoolAssumption
   DEF Init, BookInv, PlanInv, DropsOnlyFull, PreparedInv, UnmappedFlushed, NoRows, NoPlan

\* What a successful allocation does to the mapping.
LEMMA AllocateFacts ==
    ASSUME SlotInv, NEW callers, Allocate(callers)
    PROVE  \E alloc \in [Missing -> Slot] :
              /\ pool' = Restore(callers, alloc, Pack(callers))
              /\ \A b, c \in Missing : alloc[b] = alloc[c] => b = c
              /\ Mapped' = plan.needed
              /\ \A b \in Missing : mapping'[b] = alloc[b]
              /\ \A b \in Mapped \cap plan.needed :
                    /\ mapping'[b] = mapping[b]
                    /\ \A c \in Missing : alloc[c] # mapping[b]
<1> USE DEF SlotInv
<1>1. /\ Missing = plan.needed \ Mapped /\ Retired = Mapped \ plan.needed
      /\ plan.needed \subseteq Block /\ Mapped \subseteq Block
  BY DEF TypeOK, Plan, Missing, Retired, Mapped
<1> DEFINE open == free \cup Freed
<1>2. PICK alloc \in Allocations(open) :
        /\ mapping' = Remapped(mapping, alloc)
        /\ pool' = Restore(callers, alloc, Pack(callers))
  BY DEF Allocate
<1>3. open \subseteq Slot
  BY <1>1 DEF Freed, Mapped, TypeOK
<1>4. alloc \in [Missing -> open] /\ \A b, c \in Missing : alloc[b] = alloc[c] => b = c
  BY <1>2 DEF Allocations
<1>5. \A b \in Missing : mapping'[b] = alloc[b]
  BY <1>1, <1>2 DEF Remapped
<1>6. \A b \in Mapped \cap plan.needed : mapping'[b] = mapping[b] /\ mapping[b] \notin open
  BY <1>1, <1>2 DEF Remapped, SlotExclusive, Freed, Mapped
<1>7. Mapped' = plan.needed
  BY <1>1, <1>2, <1>3, <1>4, PoolAssumption DEF Remapped, Mapped
<1> QED
  BY <1>2, <1>3, <1>4, <1>5, <1>6, <1>7

\* A block with readable rows that prepare_step retires is among those it packs.
LEMMA RetiredPacked ==
    ASSUME SlotInv, DropsOnlyFull, phase = "target"
    PROVE  \A l \in Layer, b \in Retired : valid[l][b] > 0 => b \in FlushIds
<1> SUFFICES ASSUME NEW l \in Layer, NEW b \in Retired, valid[l][b] > 0
             PROVE  b \in FlushIds
  OBVIOUS
<1>1. b \in Block /\ b \in Mapped /\ b \notin plan.needed
  BY DEF Retired, Mapped
<1>2. MayLeave(b) /\ valid[l][b] # 0
  BY <1>1 DEF DropsOnlyFull, SlotInv, TypeOK, Fill
<1>3. b \in full \/ FlushAll
  BY <1>2 DEF MayLeave
<1> QED
  BY <1>1, <1>3 DEF FlushIds, Published

LEMMA PrepareTargetBook ==
    ASSUME SlotInv, BookInv, PrepareTarget
    PROVE  BookInv'
<1> USE DEF SlotInv, BookInv
<1>1. /\ PrepareStep(Layer) /\ phase = "target" /\ phase' = "targetForward"
      /\ status = "ok" /\ plan' = plan /\ valid' = valid
  BY DEF PrepareTarget, PrepareStep
<1>2. PlanInv' /\ DropsOnlyFull'
  BY <1>1 DEF PlanInv, DropsOnlyFull
<1>3. CASE Exhaust
  BY <1>2, <1>3 DEF Exhaust, PreparedInv, UnmappedFlushed
<1>4. CASE Allocate(Layer)
  <2>1. Mapped' = plan.needed
    BY <1>4, AllocateFacts
  <2>2. flushed' = flushed \cup FlushIds /\ full' = Published \ Retired
    BY <1>1 DEF PrepareStep
  <2>3. /\ Retired = Mapped \ plan.needed
        /\ plan.needed \subseteq Block /\ Mapped \subseteq Block
    BY DEF TypeOK, Plan, Retired, Mapped
  <2>4. full' \cap plan.needed = plan.full
    BY <2>2, <2>3 DEF Published, PlanInv
  <2>5. PreparedInv'
    BY <1>1, <2>1, <2>4 DEF PreparedInv
  <2>6. UnmappedFlushed'
    BY <1>1, <2>1, <2>2, <2>3, RetiredPacked DEF UnmappedFlushed
  <2> QED
    BY <1>2, <2>5, <2>6
<1> QED
  BY <1>1, <1>3, <1>4 DEF PrepareStep

\* The draft's prepare_step finds the pool prepared: there is nothing to
\* retire, pack or allocate.
LEMMA PrepareDraftUnchanged ==
    ASSUME SlotInv, PreparedInv, PlanInv, PrepareDraft
    PROVE  UNCHANGED <<bookkeeping, pool, record, bound, valid, plan, status>>
<1> USE DEF SlotInv
<1>1. /\ PrepareStep(DraftLayer) /\ phase = "draft" /\ status = "ok"
      /\ Mapped = plan.needed /\ full \cap plan.needed = plan.full
  BY DEF PrepareDraft, PreparedInv
<1>2. Missing = {} /\ Retired = {} /\ Freed = {}
  BY <1>1 DEF Missing, Retired, Freed
<1>3. FlushIds = {} /\ Published = full
  BY <1>1, <1>2 DEF FlushIds, Published, TypeOK
<1>4. record' = record
  BY <1>1, <1>3 DEF PrepareStep, Pack, TypeOK
<1>5. full' = full /\ flushed' = flushed /\ UNCHANGED <<bound, valid, plan>>
  BY <1>1, <1>2, <1>3 DEF PrepareStep
<1>6. IsFiniteSet(free \cup Freed) /\ Cardinality(Missing) = 0
  BY <1>2, FS_EmptySet, FS_Subset, PoolAssumption DEF TypeOK
<1>7. ~ Exhaust
  BY <1>6, FS_CardinalityType DEF Exhaust
<1>8. Allocate(DraftLayer)
  BY <1>1, <1>7 DEF PrepareStep
<1>9. PICK alloc \in Allocations(free \cup Freed) :
        /\ mapping' = Remapped(mapping, alloc)
        /\ mirror' = Remapped(mirror, alloc)
        /\ free' = (free \cup Freed) \ {alloc[b] : b \in Missing}
        /\ pool' = Restore(DraftLayer, alloc, Pack(DraftLayer))
  BY <1>8 DEF Allocate, MirrorUpdate
<1>10. mapping' = mapping /\ mirror' = mirror
  BY <1>2, <1>9 DEF Remapped, TypeOK
<1>11. free' = free
  BY <1>2, <1>9
<1>12. pool' = pool
  BY <1>2, <1>9 DEF Restore, TypeOK
<1> QED
  BY <1>4, <1>5, <1>8, <1>10, <1>11, <1>12 DEF bookkeeping, Allocate

\* A forward pass writes rows only of blocks in the pool.
LEMMA ForwardBook ==
    ASSUME SlotInv, BookInv, NEW layers \in SUBSET Layer, Forward(layers),
           phase \in {"targetForward", "draftForward"}, status = "ok"
    PROVE  UnmappedFlushed'
<1> SUFFICES ASSUME NEW l \in Layer, NEW b \in Block, valid'[l][b] > 0, b \notin Mapped'
             PROVE  b \in flushed'
  BY DEF UnmappedFlushed
<1>1. Mapped' = Mapped /\ flushed' = flushed /\ Mapped = plan.needed
  BY DEF Forward, bookkeeping, Mapped, BookInv, PreparedInv
<1>2. valid'[l][b] = valid[l][b]
  BY <1>1 DEF Forward, Writes
<1> QED
  BY <1>1, <1>2 DEF BookInv, UnmappedFlushed

LEMMA PublishBook ==
    ASSUME SlotInv, BookInv, Publish
    PROVE  BookInv'
<1> USE DEF SlotInv, BookInv
<1>1. PICK needed \in SUBSET Block, upto \in [Block -> Fill], fullNow \in SUBSET Block :
        /\ fullNow \subseteq needed
        /\ \A b \in Mapped \ needed : MayLeave(b)
        /\ \A b \in Block \ needed : upto[b] = 0
        /\ plan' = [needed |-> needed, full |-> fullNow, upto |-> upto]
  BY DEF Publish
<1>2. phase' = "target" /\ UNCHANGED <<bookkeeping, contents, status>>
  BY DEF Publish
<1>3. PlanInv'
  <2>1. /\ plan'.needed = needed /\ plan'.full = fullNow /\ plan'.upto = upto
    BY <1>1
  <2>2. \A b \in Block : upto[b] > 0 => b \in needed
    BY <1>1
  <2> QED
    BY <1>1, <2>1, <2>2 DEF PlanInv
<1>4. DropsOnlyFull'
  BY <1>1, <1>2 DEF DropsOnlyFull, MayLeave, Mapped, bookkeeping, contents
<1> QED
  BY <1>2, <1>3, <1>4 DEF PreparedInv, UnmappedFlushed, Mapped, bookkeeping, contents

\* Between two steps rows are only given up, and the bookkeeping stays or
\* starts anew.
LEMMA IdleBook ==
    ASSUME SlotInv, BookInv, (\E b \in Block : Reassign(b) \/ Rollback(b)) \/ Rebind \/ Reset
    PROVE  BookInv'
<1> USE DEF SlotInv, BookInv
<1>1. phase' = "idle" /\ plan' = plan /\ status = "ok"
  BY DEF Reassign, Rollback, Rebind, Reset
<1>2. CASE Reset
  <2>1. \A l \in Layer, b \in Block : ~ (valid'[l][b] > 0)
    BY <1>2 DEF Reset, NoRows
  <2> QED
    BY <1>1, <2>1 DEF PlanInv, DropsOnlyFull, PreparedInv, UnmappedFlushed
<1>3. CASE (\E b \in Block : Reassign(b) \/ Rollback(b)) \/ Rebind
  <2>1. Mapped' = Mapped /\ flushed' = flushed
    BY <1>3 DEF Reassign, Rollback, Rebind, bookkeeping, Mapped
  <2>2. \A l \in Layer, c \in Block : valid'[l][c] > 0 => valid[l][c] > 0
    <3>1. CASE Rebind
      BY <3>1 DEF Rebind
    <3>2. CASE \E b \in Block : Reassign(b)
      BY <3>2 DEF Reassign, TypeOK
    <3>3. CASE \E b \in Block : Rollback(b)
      <4>1. PICK b \in Block, n \in 1 .. Group - 1 :
              /\ \A l \in Layer : valid[l][b] > n
              /\ valid' = [l \in Layer |-> [valid[l] EXCEPT ![b] = n]]
        BY <3>3 DEF Rollback
      <4>2. \A l \in Layer : valid[l][b] \in Nat /\ valid[l][b] > 0
        BY <4>1, PoolAssumption DEF TypeOK, Fill
      <4> QED
        BY <4>1, <4>2 DEF TypeOK
    <3> QED
      BY <1>3, <3>1, <3>2, <3>3
  <2> QED
    BY <1>1, <2>1, <2>2 DEF PlanInv, DropsOnlyFull, PreparedInv, UnmappedFlushed
<1> QED
  BY <1>2, <1>3

LEMMA NextBook ==
    ASSUME SlotInv, BookInv, [Next]_vars
    PROVE  BookInv'
<1> USE DEF BookInv
<1>1. CASE ForwardTarget
  <2>1. Layer \ DraftLayer \in SUBSET Layer
    OBVIOUS
  <2>2. /\ Forward(Layer \ DraftLayer) /\ phase = "targetForward" /\ status = "ok"
        /\ phase' = "draft" /\ plan' = plan
    BY <1>1 DEF ForwardTarget
  <2>3. mapping' = mapping /\ full' = full /\ status' = status
    BY <2>2 DEF Forward, bookkeeping
  <2>4. UnmappedFlushed'
    BY <2>1, <2>2, ForwardBook
  <2> QED
    BY <2>2, <2>3, <2>4 DEF PlanInv, DropsOnlyFull, PreparedInv, Mapped
<1>2. CASE PrepareDraft
  <2>1. UNCHANGED <<bookkeeping, pool, record, bound, valid, plan, status>>
    BY <1>2, PrepareDraftUnchanged
  <2>2. phase = "draft" /\ phase' = "draftForward"
    BY <1>2 DEF PrepareDraft
  <2> QED
    BY <2>1, <2>2 DEF PlanInv, DropsOnlyFull, PreparedInv, UnmappedFlushed, Mapped,
                      bookkeeping
<1>3. CASE ForwardDraft
  <2>1. DraftLayer \in SUBSET Layer
    BY PoolAssumption
  <2>2. /\ Forward(DraftLayer) /\ phase = "draftForward" /\ status = "ok"
        /\ phase' = "idle" /\ plan' = NoPlan
    BY <1>3 DEF ForwardDraft
  <2>3. UnmappedFlushed'
    BY <2>1, <2>2, ForwardBook
  <2>4. PlanInv'
    BY <2>2 DEF PlanInv, NoPlan, NoRows
  <2> QED
    BY <2>2, <2>3, <2>4 DEF DropsOnlyFull, PreparedInv
<1>4. CASE UNCHANGED vars
  BY <1>4 DEF vars, bookkeeping, contents, PlanInv, DropsOnlyFull, PreparedInv,
              UnmappedFlushed, Mapped, MayLeave
<1> QED
  BY <1>1, <1>2, <1>3, <1>4, PrepareTargetBook, PublishBook, IdleBook DEF Next

(***************************************************************************)
(* Contents.  No step loses rows a layer could find, except a prepare_step *)
(* that moves their block while the layer is unbound.                      *)
(***************************************************************************)
Excused(l, b) == phase = "target" /\ ~ bound[l] /\ b \in Retired \cup Missing

\* prepare_step for the target moves rows between the pool and the packed
\* records without losing any, on the layers that have a cache tensor.
LEMMA PrepareTargetKeeps ==
    ASSUME SlotInv, BookInv, PrepareTarget,
           NEW l \in Layer, NEW b \in Block, Found(l, b), ~ Excused(l, b)
    PROVE  Found(l, b)'
<1> USE DEF SlotInv, BookInv
<1>1. /\ PrepareStep(Layer) /\ phase = "target" /\ phase' = "targetForward"
      /\ status = "ok" /\ plan' = plan /\ valid' = valid /\ bound' = bound
  BY DEF PrepareTarget, PrepareStep
<1>2. SlotInv'
  BY <1>1, PrepareSlots DEF Phase
<1>3. mirror = mapping
  BY <1>1 DEF MirrorAgrees
<1>4. record' = Pack(Layer)
  BY <1>1 DEF PrepareStep
<1>5. /\ Missing = plan.needed \ Mapped /\ Retired = Mapped \ plan.needed
      /\ plan.needed \subseteq Block /\ Mapped \subseteq Block
  BY DEF TypeOK, Plan, Missing, Retired, Mapped
<1> SUFFICES ASSUME valid[l][b] > 0
             PROVE  IF mirror'[b] = NoSlot
                    THEN record'[l][b] >= valid[l][b]
                    ELSE /\ pool'[l][mirror'[b]].blk = b
                         /\ pool'[l][mirror'[b]].rows >= valid[l][b]
  BY <1>1 DEF Found
<1>6. /\ mapping[b] = NoSlot => record[l][b] >= valid[l][b]
      /\ mapping[b] # NoSlot => /\ pool[l][mapping[b]].blk = b
                                /\ pool[l][mapping[b]].rows >= valid[l][b]
  BY <1>3 DEF Found
<1>7. bound[l] \/ b \notin Retired \cup Missing
  BY <1>1 DEF Excused
<1>8. b \notin Mapped => mapping[b] = NoSlot /\ record'[l][b] = record[l][b]
  <2> SUFFICES ASSUME b \notin Mapped PROVE mapping[b] = NoSlot /\ record'[l][b] = record[l][b]
    OBVIOUS
  <2>1. mapping[b] = NoSlot /\ b \notin FlushIds
    BY <1>5 DEF Mapped, FlushIds
  <2> QED
    BY <1>4, <2>1 DEF Pack
<1>9. CASE Exhaust
  <2>1. mirror' = mirror /\ pool' = pool
    BY <1>9 DEF Exhaust
  <2> QED
    BY <1>3, <1>6, <1>8, <2>1 DEF Mapped
<1>10. CASE Allocate(Layer)
  <2>1. PICK alloc \in [Missing -> Slot] :
              /\ pool' = Restore(Layer, alloc, Pack(Layer))
              /\ \A c, d \in Missing : alloc[c] = alloc[d] => c = d
              /\ Mapped' = plan.needed
              /\ \A c \in Missing : mapping'[c] = alloc[c]
              /\ \A c \in Mapped \cap plan.needed :
                    /\ mapping'[c] = mapping[c]
                    /\ \A d \in Missing : alloc[d] # mapping[c]
    BY <1>10, AllocateFacts
  <2>2. mirror' = mapping'
    BY <1>1, <1>2, <1>10 DEF Allocate, MirrorAgrees
  <2>3. CASE b \in Mapped \cap plan.needed
    <3>1. mirror'[b] = mapping[b] /\ mapping[b] # NoSlot /\ mapping[b] \in Slot
      BY <2>1, <2>2, <2>3 DEF Mapped, TypeOK
    <3>2. ~ \E c \in Missing : alloc[c] = mapping[b]
      BY <2>1, <2>3
    <3>3. pool'[l][mapping[b]] = pool[l][mapping[b]]
      BY <2>1, <3>1, <3>2 DEF Restore
    <3> QED
      BY <1>6, <3>1, <3>3
  <2>4. CASE b \in Retired
    <3>1. b \in FlushIds
      BY <1>1, <2>4, RetiredPacked
    <3>2. mirror'[b] = NoSlot /\ mapping[b] # NoSlot
      BY <1>5, <2>1, <2>2, <2>4 DEF Mapped
    <3>3. record'[l][b] = pool[l][mapping[b]].rows
      BY <1>4, <1>6, <1>7, <2>4, <3>1, <3>2 DEF Pack
    <3> QED
      BY <1>6, <3>2, <3>3
  <2>5. CASE b \in Missing
    <3>1. b \notin Mapped /\ b \in flushed
      BY <1>1, <1>5, <2>5 DEF UnmappedFlushed
    <3>2. b \in Rehydrated /\ b \notin Orphans
      BY <2>5, <3>1 DEF Rehydrated, Orphans
    <3>3. mirror'[b] = alloc[b] /\ alloc[b] \in Slot /\ alloc[b] # NoSlot
      BY <2>1, <2>2, <2>5, PoolAssumption
    <3>4. (CHOOSE c \in Missing : alloc[c] = alloc[b]) = b
      BY <2>1, <2>5
    <3>5. pool'[l][alloc[b]] = [blk |-> b, rows |-> Pack(Layer)[l][b]]
      BY <1>7, <2>1, <2>5, <3>2, <3>3, <3>4 DEF Restore
    <3> QED
      BY <1>4, <1>6, <1>8, <3>1, <3>3, <3>5
  <2>6. CASE b \notin Mapped /\ b \notin plan.needed
    <3>1. mirror'[b] = NoSlot
      BY <2>1, <2>2, <2>6 DEF Mapped
    <3> QED
      BY <1>6, <1>8, <2>6, <3>1
  <2> QED
    BY <1>5, <2>3, <2>4, <2>5, <2>6
<1> QED
  BY <1>1, <1>9, <1>10 DEF PrepareStep

\* The rows a forward pass writes land in the slot of their block, and no
\* other copy of a block is believed to hold them.
LEMMA ForwardKeeps ==
    ASSUME SlotInv, BookInv, NEW layers \in SUBSET Layer, Forward(layers),
           phase \in {"targetForward", "draftForward"}, status = "ok",
           NEW l \in Layer, NEW b \in Block, Found(l, b)
    PROVE  Found(l, b)'
<1> USE DEF SlotInv, BookInv
<1>1. /\ Mapped = plan.needed /\ mirror = mapping
      /\ mapping' = mapping /\ mirror' = mirror
  BY DEF PreparedInv, MirrorAgrees, Forward, bookkeeping
<1>2. ASSUME NEW c \in Writes(l), mirror[c] = mapping[b]
      PROVE  c = b
  <2>1. c \in Block /\ c \in Mapped
    BY <1>1 DEF Writes, TypeOK, Plan
  <2>2. b \in Mapped
    BY <1>1, <1>2, <2>1 DEF Mapped
  <2> QED
    BY <1>1, <1>2, <2>1, <2>2 DEF SlotExclusive
<1>3. CASE l \in layers /\ b \in Writes(l)
  <2>1. b \in plan.needed /\ plan.upto[b] > valid[l][b]
    BY <1>3 DEF Writes
  <2>2. valid[l][b] \in Nat /\ plan.upto[b] \in Nat
    BY DEF TypeOK, Plan, Fill
  <2>3. mapping[b] \in Slot /\ mapping[b] # NoSlot
    BY <1>1, <2>1 DEF Mapped, TypeOK
  <2> DEFINE s == mapping[b]
             old == pool[l][s]
  <2>4. (CHOOSE c \in Writes(l) : mirror[c] = s) = b
    <3>1. mirror[b] = s
      BY <1>1
    <3> QED
      BY <1>2, <1>3, <3>1
  <2>5. pool'[l][s] = Scattered(old, b, valid[l][b], plan.upto[b])
    <3>1. \E c \in Writes(l) : mirror[c] = s
      BY <1>1, <1>3
    <3> QED
      BY <1>3, <2>3, <2>4, <3>1 DEF Forward, ScatterPool
  <2>6. valid[l][b] > 0 => old.blk = b /\ old.rows >= valid[l][b]
    BY <1>1, <2>3 DEF Found
  <2>7. old.rows \in Nat
    BY <2>3 DEF TypeOK, SlotRow, Fill
  <2>8. Scattered(old, b, valid[l][b], plan.upto[b]) = [blk |-> b, rows |-> plan.upto[b]]
    BY <2>1, <2>2, <2>6, <2>7 DEF Scattered
  <2>9. valid'[l][b] = plan.upto[b]
    BY <1>3 DEF Forward
  <2> QED
    BY <1>1, <2>2, <2>3, <2>5, <2>8, <2>9 DEF Found
<1>4. CASE ~ (l \in layers /\ b \in Writes(l))
  <2>1. valid'[l][b] = valid[l][b] /\ record'[l][b] = record[l][b]
    BY <1>4 DEF Forward
  <2>2. ASSUME valid[l][b] > 0, mapping[b] # NoSlot
        PROVE  pool'[l][mapping[b]] = pool[l][mapping[b]]
    <3>1. mapping[b] \in Slot /\ pool[l][mapping[b]].blk = b
      BY <1>1, <2>2 DEF TypeOK, Found
    <3>2. CASE l \notin layers
      BY <3>1, <3>2 DEF Forward
    <3>3. CASE l \in layers
      <4>1. ~ \E c \in Writes(l) : mirror[c] = mapping[b]
        BY <1>2, <1>4, <3>3
      <4> QED
        BY <1>4, <3>1, <3>3, <4>1 DEF Forward, ScatterPool
    <3> QED
      BY <3>2, <3>3
  <2> QED
    BY <1>1, <2>1, <2>2 DEF Found
<1> QED
  BY <1>3, <1>4

\* A new owner asks for no row of the block, and the others keep theirs.
LEMMA ReassignKeeps ==
    ASSUME SlotInv, NEW c \in Block, Reassign(c),
           NEW l \in Layer, NEW b \in Block, Found(l, b)
    PROVE  Found(l, b)'
<1> USE DEF SlotInv
<1>1. mirror' = mirror /\ (mirror[b] # NoSlot => mirror[b] \in Slot)
  BY DEF Reassign, bookkeeping, TypeOK
<1>2. CASE b = c
  <2>1. valid'[l][b] = 0
    BY <1>2 DEF Reassign, TypeOK
  <2> QED
    BY <2>1 DEF Found
<1>3. CASE b # c
  <2>1. valid'[l][b] = valid[l][b] /\ record'[l][b] = record[l][b]
    BY <1>3 DEF Reassign, TypeOK
  <2>2. \A s \in Slot : pool[l][s].blk = b => pool'[l][s] = pool[l][s]
    BY <1>3 DEF Reassign, Aged
  <2> QED
    BY <1>1, <2>1, <2>2 DEF Found
<1> QED
  BY <1>2, <1>3

\* After a rejection readers ask for fewer rows.
LEMMA RollbackKeeps ==
    ASSUME SlotInv, NEW c \in Block, Rollback(c),
           NEW l \in Layer, NEW b \in Block, Found(l, b)
    PROVE  Found(l, b)'
<1> USE DEF SlotInv
<1>1. mirror' = mirror /\ pool' = pool /\ record' = record
  BY DEF Rollback, bookkeeping
<1>2. PICK n \in 1 .. Group - 1 :
        /\ \A m \in Layer : valid[m][c] > n
        /\ valid' = [m \in Layer |-> [valid[m] EXCEPT ![c] = n]]
  BY DEF Rollback
<1>3. valid[l][b] \in Nat /\ valid'[l][b] \in Nat /\ valid'[l][b] <= valid[l][b]
  BY <1>2, PoolAssumption DEF TypeOK, Fill
<1>4. record[l][b] \in Nat
  BY DEF TypeOK, Fill
<1>5. mirror[b] # NoSlot => pool[l][mirror[b]].rows \in Nat
  BY DEF TypeOK, SlotRow, Fill
<1> QED
  BY <1>1, <1>3, <1>4, <1>5 DEF Found

LEMMA NextKeeps ==
    ASSUME SlotInv, BookInv, Next,
           NEW l \in Layer, NEW b \in Block, Found(l, b), ~ Excused(l, b)
    PROVE  Found(l, b)'
<1>1. CASE Publish \/ Rebind
  <2>1. UNCHANGED <<mirror, pool, record, valid>>
    BY <1>1 DEF Publish, Rebind, bookkeeping, contents
  <2> QED
    BY <2>1 DEF Found
<1>2. CASE ForwardTarget
  <2>1. Layer \ DraftLayer \in SUBSET Layer
    OBVIOUS
  <2> QED
    BY <1>2, <2>1, ForwardKeeps DEF ForwardTarget
<1>3. CASE PrepareDraft
  <2>1. UNCHANGED <<mirror, pool, record, valid>>
    BY <1>3, PrepareDraftUnchanged DEF BookInv, bookkeeping
  <2> QED
    BY <2>1 DEF Found
<1>4. CASE ForwardDraft
  BY <1>4, PoolAssumption, ForwardKeeps DEF ForwardDraft
<1>5. CASE Reset
  <2>1. ~ (valid'[l][b] > 0)
    BY <1>5 DEF Reset, NoRows
  <2> QED
    BY <2>1 DEF Found
<1> QED
  BY <1>1, <1>2, <1>3, <1>4, <1>5, PrepareTargetKeeps, ReassignKeeps, RollbackKeeps
     DEF Next

\* Dropping the bindings costs at most the blocks that the next prepare_step
\* moves while a layer is unbound: rows a layer can find go missing in no
\* other step, with rebind_cache_pointers at any time and any mode of packing.
THEOREM UnboundTheorem == Spec => LostOnlyUnbound
<1>1. Init => SlotInv /\ BookInv
  BY InitSlots, InitBook
<1>2. SlotInv /\ BookInv /\ [Next]_vars => (SlotInv /\ BookInv)'
  BY NextSlots, NextBook
<1>3. SlotInv /\ BookInv /\ [Next]_vars
        => [\A l \in Layer, b \in Block :
              Found(l, b) /\ ~ Found(l, b)'
                => phase = "target" /\ ~ bound[l] /\ b \in Retired \cup Missing]_vars
  BY NextKeeps DEF Excused
<1> QED
  BY <1>1, <1>2, <1>3, PTL DEF Spec, LostOnlyUnbound

\* Without unbinding a layer with rows is always bound.
RowsNeedCache == \A l \in Layer, b \in Block : valid[l][b] > 0 => bound[l]

LEMMA NextBound ==
    ASSUME ~ AllowRebind, SlotInv, RowsNeedCache, [Next]_vars
    PROVE  RowsNeedCache'
<1> USE DEF RowsNeedCache
<1>1. CASE UNCHANGED vars
  BY <1>1 DEF vars, contents
<1>2. CASE Publish \/ PrepareTarget \/ PrepareDraft
  BY <1>2 DEF Publish, PrepareTarget, PrepareDraft, PrepareStep, contents
<1>3. CASE ForwardTarget \/ ForwardDraft
  <2>1. PICK layers : Forward(layers)
    BY <1>3 DEF ForwardTarget, ForwardDraft
  <2> QED
    BY <2>1 DEF Forward
<1>4. CASE \E b \in Block : Reassign(b)
  BY <1>4 DEF Reassign, SlotInv, TypeOK
<1>5. CASE \E b \in Block : Rollback(b)
  <2>1. PICK b \in Block, n \in 1 .. Group - 1 :
          /\ \A l \in Layer : valid[l][b] > n
          /\ valid' = [l \in Layer |-> [valid[l] EXCEPT ![b] = n]]
          /\ bound' = bound
    BY <1>5 DEF Rollback
  <2>2. \A l \in Layer : valid[l][b] > 0
    BY <2>1, PoolAssumption DEF SlotInv, TypeOK, Fill
  <2> QED
    BY <2>1, <2>2 DEF SlotInv, TypeOK
<1>6. CASE Reset
  BY <1>6 DEF Reset, NoRows
<1> QED
  BY <1>1, <1>2, <1>3, <1>4, <1>5, <1>6 DEF Next, Rebind

\* While every layer with rows is bound, no step loses any.
LEMMA NextReads ==
    ASSUME SlotInv, BookInv, RowsNeedCache, ReadsOwnRows, [Next]_vars
    PROVE  ReadsOwnRows'
<1>1. CASE UNCHANGED vars
  BY <1>1 DEF vars, bookkeeping, contents, ReadsOwnRows, Found
<1>2. CASE Next
  <2> SUFFICES ASSUME status' = "ok", NEW l \in Layer, NEW b \in Block
               PROVE  Found(l, b)'
    BY DEF ReadsOwnRows
  <2>1. status = "ok"
    BY <1>2 DEF Next, Publish, PrepareTarget, ForwardTarget, PrepareDraft, ForwardDraft,
                Reassign, Rollback, Rebind, Reset
  <2>2. Found(l, b)
    BY <2>1 DEF ReadsOwnRows
  <2>3. CASE ~ Excused(l, b)
    BY <1>2, <2>2, <2>3, NextKeeps
  <2>4. CASE Excused(l, b)
    <3>1. ~ (valid[l][b] > 0) /\ phase = "target"
      BY <2>4 DEF Excused, RowsNeedCache
    <3>2. PrepareTarget
      BY <1>2, <3>1 DEF Next, Publish, ForwardTarget, PrepareDraft, ForwardDraft,
                        Reassign, Rollback, Rebind, Reset
    <3>3. valid' = valid
      BY <3>2 DEF PrepareTarget, PrepareStep
    <3> QED
      BY <3>1, <3>3 DEF Found
  <2> QED
    BY <2>3, <2>4
<1> QED
  BY <1>1, <1>2

\* A reader that follows the mirror, or falls back to the packed record, finds
\* the latest rows of its block: for any pool, layers and interleaving of
\* snapshots, provided the impls are never unbound between two steps.
THEOREM ReadTheorem == ~ AllowRebind => (Spec => []ReadsOwnRows)
<1> SUFFICES ASSUME ~ AllowRebind PROVE Spec => []ReadsOwnRows
  OBVIOUS
<1> DEFINE ReadInv == SlotInv /\ BookInv /\ RowsNeedCache /\ ReadsOwnRows
<1>1. Init => ReadInv
  BY InitSlots, InitBook DEF Init, NoRows, RowsNeedCache, ReadsOwnRows, Found
<1>2. ReadInv /\ [Next]_vars => ReadInv'
  BY NextSlots, NextBook, NextBound, NextReads
<1>3. ReadInv => ReadsOwnRows
  OBVIOUS
<1> QED
  BY <1>1, <1>2, <1>3, PTL DEF Spec

\* Between the target's forward pass and the draft's no slot moves and no
\* record is rewritten: the speculator's prepare_step changes nothing.
THEOREM DraftPrepareTheorem == Spec => DraftPrepareIsNoop
<1>1. Init => SlotInv /\ BookInv
  BY InitSlots, InitBook
<1>2. SlotInv /\ BookInv /\ [Next]_vars => (SlotInv /\ BookInv)'
  BY NextSlots, NextBook
<1>3. SlotInv /\ BookInv /\ [Next]_vars
        => [phase = "draft" => UNCHANGED <<bookkeeping, pool, record>>]_vars
  <2> SUFFICES ASSUME SlotInv, BookInv, Next, phase = "draft"
               PROVE  UNCHANGED <<bookkeeping, pool, record>>
    OBVIOUS
  <2>1. PrepareDraft
    BY DEF Next, Publish, PrepareTarget, ForwardTarget, ForwardDraft, Reassign,
           Rollback, Rebind, Reset
  <2> QED
    BY <2>1, PrepareDraftUnchanged DEF BookInv
<1> QED
  BY <1>1, <1>2, <1>3, PTL DEF Spec, DraftPrepareIsNoop
=============================================================================
