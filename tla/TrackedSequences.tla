-------------------------- MODULE TrackedSequences --------------------------
(***************************************************************************)
(* The live block tracker over long sequences.  KVarNServing composes the  *)
(* tracker with the scheduler's admission, preemption and block reuse,     *)
(* which keeps its sequences short; here a fixed set of requests grows to  *)
(* MaxLen tokens, each in blocks of its own, so that blocks really leave   *)
(* the precision tail and the size of the snapshot means something.        *)
(*                                                                         *)
(* The scheduler is any one that respects Budget: chunks of prefill, until *)
(* the request decodes one token at a time, with drafts or without.        *)
(* Block k of request r is <<r, k>>.                                       *)
(***************************************************************************)
EXTENDS BlockTracker, Integers, FiniteSets, Functions

CONSTANTS
    Lookahead, \* num_speculative_tokens
    Async,     \* async_scheduling
    MaxLen,    \* max_model_len
    Budget     \* max_num_batched_tokens

ASSUME SequencesAssumption ==
    /\ IsFiniteSet(Req) /\ Req # {}
    /\ Lookahead \in Nat /\ MaxLen \in Nat /\ Budget \in Nat \ {0}
    /\ Async \in BOOLEAN

VARIABLES
    rows,       \* the tokens of a request the GPU has valid rows for
    computed,   \* num_computed_tokens: the scheduler's count, corrected late
    decoding,   \* the requests that have decoded with drafts
    tables,     \* the block tables the worker has
    unreported, \* the batches in flight: rejections the scheduler ignores
    unsettled,  \* _kvarn_mla_pending_resolution: accepted ends to report
    needed,     \* the blocks of the last snapshot
    full,       \* state.block_fill: blocks last published as full
    dropped,    \* blocks for which scatter found no slot
    lost        \* blocks that left the snapshot unpublished or incomplete

vars == <<rows, computed, decoding, tables, unreported, unsettled, needed, full, dropped,
          lost, tracker>>

Depth       == IF Async THEN 2 ELSE 1
NoEnds      == << >>

\* The table of a step: its tokens, with the lookahead if the scheduler
\* reserves it, and never shorter than before.
Grown(r, tokens) ==
    LET n == (Lesser(tokens, MaxLen) + BlockTokens - 1) \div BlockTokens
    IN  [k \in 1 .. Greater(Len(tables[r]), n) |-> <<r, k>>]

Entry(r, step, table) ==
    [start |-> computed[r], tokens |-> step[r].tokens + Lookahead,
     rollback |-> step[r].drafts + Lookahead, table |-> table]

\* The blocks this rank has valid rows in.
Valid == UNION {BlocksOf(tables[r], 0, rows[r]) : r \in Req}

\* The blocks with all their rows on this rank.
Complete(b) == b[2] * Group <= LocalTokens(rows[b[1]])

\* One batch: `step` says how many tokens of which requests are computed, how
\* many of them are drafts, and how many drafts get rejected.
Step(step) ==
    LET new == [r \in Req |-> IF r \in DOMAIN step
                    THEN Grown(r, computed[r] + step[r].tokens + step[r].reserved)
                    ELSE tables[r]]
    IN  /\ Len(unreported) < Depth /\ unsettled = NoEnds
        /\ Update({}, [r \in DOMAIN step |-> Entry(r, step, new[r])])
        /\ LET fills   == BlockFills'
               retired == needed \ DOMAIN fills
               known   == {b \in DOMAIN fills : fills[b] = Group} \cup (full \ DOMAIN fills)
           IN  /\ needed' = DOMAIN fills
               /\ full' = known \ retired
               /\ lost' = lost \cup {b \in retired \cap Valid : b \notin known \/ ~Complete(b)}
               /\ dropped' = dropped \cup
                    ((UNION {BlocksOf(new[r], rows[r], rows[r] + step[r].tokens + Lookahead)
                            : r \in DOMAIN step}) \ DOMAIN fills)
        /\ rows' = [r \in Req |-> IF r \in DOMAIN step
                        THEN rows[r] + step[r].tokens - step[r].rejected ELSE rows[r]]
        /\ computed' = [r \in Req |-> IF r \in DOMAIN step
                        THEN computed[r] + step[r].tokens ELSE computed[r]]
        /\ decoding' = decoding \cup {r \in DOMAIN step : step[r].drafts > 0}
        /\ unreported' = Append(unreported,
                [r \in Req |-> IF r \in DOMAIN step THEN step[r].rejected ELSE 0])
        /\ unsettled' = [r \in DOMAIN step |->
                computed[r] + step[r].tokens - step[r].rejected]
        /\ tables' = new

\* A chunk of prefill, or a decode of one token and its drafts.
Shares ==
    {s \in [tokens : 1 .. Budget, drafts : 0 .. Lookahead, rejected : 0 .. Lookahead,
            reserved : {0, Lookahead}] :
        s.drafts \in {0, s.tokens - 1} /\ s.rejected <= s.drafts}

\* The tokens of a step, each named by its request and a number.
TokensOf(step) == UNION {{r} \X (1 .. step[r].tokens) : r \in DOMAIN step}

\* Drafts are made by an earlier step, and no prefill follows a decode.  A step
\* of no tokens here is one of requests that are not followed.
Schedule ==
    \E R \in SUBSET Req : \E step \in [R -> Shares] :
        /\ Cardinality(TokensOf(step)) <= Budget
        /\ \A r \in R : /\ computed[r] + step[r].tokens < MaxLen
                        /\ step[r].drafts > 0 => computed[r] > 0
                        /\ r \in decoding => step[r].tokens = step[r].drafts + 1
        /\ Step(step)

\* The callback of the batch reaches the tracker.
Settle ==
    /\ unsettled # NoEnds
    /\ ResolveAsync(unsettled, tables)
    /\ unsettled' = NoEnds
    /\ UNCHANGED <<rows, computed, decoding, tables, unreported, needed, full, dropped, lost>>

\* The scheduler learns the outcome of the oldest batch and takes back what was
\* rejected.
Report ==
    /\ unreported # << >>
    /\ Len(unreported) = 1 => unsettled = NoEnds
    /\ computed' = [r \in Req |-> computed[r] - Head(unreported)[r]]
    /\ unreported' = Tail(unreported)
    /\ UNCHANGED <<rows, decoding, tables, unsettled, needed, full, dropped, lost, tracker>>

Init ==
    /\ rows = [r \in Req |-> 0] /\ computed = [r \in Req |-> 0]
    /\ decoding = {} /\ tables = [r \in Req |-> << >>]
    /\ unreported = << >> /\ unsettled = NoEnds
    /\ needed = {} /\ full = {} /\ dropped = {} /\ lost = {}
    /\ TrackerInit

Next == Schedule \/ Settle \/ Report

Spec == Init /\ [][Next]_vars

-----------------------------------------------------------------------------
(* Properties. *)

\* A row whose block has no slot is silently dropped by scatter: every block
\* the step stores rows in, wherever the batch in flight really ended, is in
\* the snapshot, on this rank of any deal of the tokens to the ranks.
RowsNeverDropped == dropped = {}

\* A block with rows leaves the snapshot, to be packed, only after it was
\* published as full, and when all its rows are there for good: the fills come
\* from counts that ignore rejections in flight, and the blocks to keep from
\* counts that assume more of them than there are.  Without a precision tail it
\* is false: the correction of a batch starts at a count that ignores the
\* rejections of the batch before.
LeavesPacked == lost = {}

\* The last PrecisionTail tokens of a request and its first Boundary ones are
\* read from the exact pool.  The tracker may see the end of a request up to
\* Lookahead tokens too far.
PrecisionKept ==
    \A r \in Req :
        LET last == BlocksOf(tables[r], Monus(rows[r] + Lookahead, PrecisionTail), rows[r])
            sink == BlocksOf(tables[r], 0, Lesser(Boundary, rows[r]))
        IN  last \cup sink \subseteq needed

\* KVarNMLAConfig.pool_slots, without its eight spare slots.
Ceil(n) == (n + Group - 1) \div Group

ResidentBlocksPerSeq ==
    Ceil(Boundary) + (IF PrecisionTail > 0 THEN Ceil(PrecisionTail + Group - 1) ELSE 1)

PoolSlots ==
    LET seqs == Cardinality(Req)
        rollback == IF Async /\ Lookahead > 0 THEN Ceil(seqs * Lookahead) + seqs ELSE 0
    IN  ResidentBlocksPerSeq * seqs + Ceil(Budget) + seqs + rollback

\* No snapshot names more blocks than the pool has slots, so that prepare_step
\* never raises its pool-exhausted error: the blocks of a batch, the tail, the
\* sink and the corrections published late fit together.  It takes a tail about
\* as long as the budget: the blocks of a chunk of prefill are published again
\* by its correction, in the snapshot of the next chunk.
SnapshotFits == Cardinality(needed) <= PoolSlots
=============================================================================
