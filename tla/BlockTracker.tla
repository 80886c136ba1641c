---------------------------- MODULE BlockTracker ----------------------------
(***************************************************************************)
(* KVarNMLALiveBlockTracker (kvarn_mla_state.py): from the scheduler's     *)
(* token counts it publishes, before every step, which physical blocks     *)
(* must have exact rows, and how full each of them certainly is.           *)
(*                                                                         *)
(* The runner gives one tracker one cache group and passes no epoch ids,   *)
(* so an epoch is named by its tracker key and the epoch of a key is       *)
(* always its latest one: latest_epoch and epoch_owners are the keys that  *)
(* have pending blocks.  The generation in a key only separates lives of   *)
(* one request id; update drops the old key before it registers the new    *)
(* one, so a key is a request here.                                        *)
(*                                                                         *)
(* The module defines the tracker's operations; the runner, in             *)
(* KVarNServing, decides when they run.                                    *)
(***************************************************************************)
EXTENDS TokenBlocks

CONSTANT Req

VARIABLES
    requestBlocks,  \* request_blocks: per request, the fills of what it keeps
    stepBlocks,     \* step_blocks: fills of the blocks touched by this step
    pendingBlocks,  \* pending_blocks: touched blocks -> logical block, while
                    \* the accepted count of the step is unknown
    epochBlocks,    \* epoch_blocks: what the open epoch keeps exact
    resolvedBlocks, \* resolved_blocks: corrected fills not yet published
    fullContext     \* request_full_context_groups

tracker == <<requestBlocks, stepBlocks, pendingBlocks, epochBlocks,
             resolvedBlocks, fullContext>>

Nothing == [r \in Req |-> NoBlocks]

TrackerInit ==
    /\ requestBlocks = Nothing /\ stepBlocks = NoBlocks
    /\ pendingBlocks = Nothing /\ epochBlocks = Nothing
    /\ resolvedBlocks = Nothing
    /\ fullContext = {}

MergeAll(fills) ==
    [b \in UNION {DOMAIN fills[r] : r \in DOMAIN fills} |->
        CHOOSE n \in 0 .. Group :
            /\ \E r \in DOMAIN fills : b \in DOMAIN fills[r] /\ fills[r][b] = n
            /\ \A r \in DOMAIN fills : b \in DOMAIN fills[r] => fills[r][b] <= n]

-----------------------------------------------------------------------------
(* resolve_async: the accepted end of an open epoch is known. *)

\* The pending blocks that turned out to hold rows, at their exact fill.
Corrected(r, end) ==
    LET fill == [b \in DOMAIN pendingBlocks[r] |->
                    BlockFill(LocalTokens(end), pendingBlocks[r][b])]
    IN  [b \in {c \in DOMAIN fill : fill[c] > 0} |-> fill[b]]

\* A request whose whole context stays exact only corrects its pending blocks;
\* any other has its kept blocks computed anew.
Rebuilt(r, table, end) ==
    IF r \in fullContext
    THEN LET kept == DOMAIN requestBlocks[r] \ DOMAIN pendingBlocks[r]
         IN  Merge([b \in kept |-> requestBlocks[r][b]], Corrected(r, end))
    ELSE PersistentBlocks(table, LocalTokens(end), LocalTokens(end),
                          LocalTokens(Monus(end, PrecisionTail)))

\* Slip: the epoch is closed and its correction is not kept.
ResolveForgets(ends, tables) ==
    /\ requestBlocks' = [r \in Req |->
            IF r \in DOMAIN ends /\ DOMAIN pendingBlocks[r] # {}
            THEN Rebuilt(r, tables[r], ends[r]) ELSE requestBlocks[r]]
    /\ pendingBlocks' = [r \in Req |-> IF r \in DOMAIN ends THEN NoBlocks
                                       ELSE pendingBlocks[r]]
    /\ epochBlocks' = [r \in Req |-> IF r \in DOMAIN ends THEN NoBlocks
                                     ELSE epochBlocks[r]]
    /\ UNCHANGED <<resolvedBlocks, stepBlocks, fullContext>>

\* Slip: only the fills are corrected and the epoch stays open.
ResolveLeavesOpen(ends, tables) ==
    /\ requestBlocks' = [r \in Req |->
            IF r \in DOMAIN ends /\ DOMAIN pendingBlocks[r] # {}
            THEN Rebuilt(r, tables[r], ends[r]) ELSE requestBlocks[r]]
    /\ resolvedBlocks' = [r \in Req |->
            IF r \in DOMAIN ends THEN Corrected(r, ends[r]) ELSE resolvedBlocks[r]]
    /\ UNCHANGED <<pendingBlocks, epochBlocks, stepBlocks, fullContext>>

\* `ends` gives the accepted end of every request of the settled batch.
ResolveAsync(ends, tables) ==
    /\ requestBlocks' = [r \in Req |->
            IF r \in DOMAIN ends /\ DOMAIN pendingBlocks[r] # {}
            THEN Rebuilt(r, tables[r], ends[r]) ELSE requestBlocks[r]]
    /\ resolvedBlocks' = [r \in Req |->
            IF r \in DOMAIN ends /\ DOMAIN pendingBlocks[r] # {}
            THEN Corrected(r, ends[r]) ELSE resolvedBlocks[r]]
    /\ pendingBlocks' = [r \in Req |-> IF r \in DOMAIN ends THEN NoBlocks
                                       ELSE pendingBlocks[r]]
    /\ epochBlocks' = [r \in Req |-> IF r \in DOMAIN ends THEN NoBlocks
                                     ELSE epochBlocks[r]]
    /\ UNCHANGED <<stepBlocks, fullContext>>

-----------------------------------------------------------------------------
(* update: the ownership of the next step. *)

\* Slip: a removed request keeps its blocks.
RemainingAll(removed) == requestBlocks

\* What remains of request_blocks once the removed requests are dropped.
Remaining(removed) ==
    [r \in Req |-> IF r \in removed THEN NoBlocks ELSE requestBlocks[r]]

\* _consume_resolved: a correction is published unless some request keeps the
\* block.  (The guard compares the holder, a tracker key, with the request id
\* of the epoch: the two always differ.)
Consumed(removed) ==
    LET held == UNION {DOMAIN Remaining(removed)[r] : r \in Req}
    IN  MergeAll([r \in Req |->
            [b \in DOMAIN resolvedBlocks[r] \ held |-> resolvedBlocks[r][b]]])

\* One entry of scheduled_tokens: where the step starts, how many tokens it
\* may write, how far an unknown rejection may move it back, and the table.
MinStart(e) == Monus(e.start, e.rollback)
MinEnd(e)   == MinStart(e) + e.tokens
MaxEnd(e)   == e.start + e.tokens

\* Slip: only the tokens of this step are touched, rejected ones are not.
TouchedFromStart(e) ==
    LET n == NumLogical(e.table, LocalTokens(MaxEnd(e)))
        first == LocalTokens(e.start)  last == LocalTokens(MaxEnd(e))
    IN  IF first < last
        THEN first \div Group .. Lesser((last - 1) \div Group, Monus(n, 1)) ELSE {}

Touched(e) ==
    LET n == NumLogical(e.table, LocalTokens(MaxEnd(e)))
        first == LocalTokens(MinStart(e))  last == LocalTokens(MaxEnd(e))
    IN  IF n > 0 /\ first < last
        THEN first \div Group .. Lesser((last - 1) \div Group, n - 1) ELSE {}

\* Slip: a context that outgrows the tail stays exact.
FullContextSticks(e) == NumLogical(e.table, LocalTokens(MaxEnd(e))) > 0

HasFullContext(e) ==
    /\ NumLogical(e.table, LocalTokens(MaxEnd(e))) > 0
    /\ Boundary + PrecisionTail >= MaxEnd(e)

\* The blocks a request keeps.  One whose whole context was and stays exact is
\* brought up to date from the first block that can have changed; any other
\* request's are computed anew.
GroupBlocks(e, previous, wasFull) ==
    LET end  == LocalTokens(MinEnd(e))
        n    == NumLogical(e.table, LocalTokens(MaxEnd(e)))
        from == {Monus(Blocks(end), 1)} \cup Touched(e)
        news == {k \in 0 .. n - 1 : \E f \in from : k >= f}
        old  == DOMAIN previous \ {e.table[k + 1] : k \in news}
    IN  IF HasFullContext(e) /\ wasFull
        THEN Merge([b \in old |-> previous[b]], FillsOf(e.table, news, end))
        ELSE PersistentBlocks(e.table, end, LocalTokens(MaxEnd(e)),
                              LocalTokens(Monus(MinEnd(e), PrecisionTail)))

TouchedFills(e) == FillsOf(e.table, Touched(e), LocalTokens(MinEnd(e)))

Update(removed, scheduled) ==
    LET touched == [r \in DOMAIN scheduled |-> TouchedFills(scheduled[r])]
        opened  == {r \in DOMAIN scheduled :
                        scheduled[r].rollback > 0 /\ Touched(scheduled[r]) # {}}
    IN  /\ requestBlocks' = [r \in Req |->
                IF r \in DOMAIN scheduled
                THEN GroupBlocks(scheduled[r], Remaining(removed)[r],
                                 r \in fullContext \ removed)
                ELSE Remaining(removed)[r]]
        /\ fullContext' = {r \in Req :
                IF r \in DOMAIN scheduled THEN HasFullContext(scheduled[r])
                ELSE r \in fullContext \ removed}
        /\ stepBlocks' = Merge(Consumed(removed), MergeAll(touched))
        /\ resolvedBlocks' = Nothing
        /\ pendingBlocks' = [r \in Req |->
                IF r \in opened
                THEN LET e == scheduled[r] IN
                     [b \in DOMAIN touched[r] |->
                        CHOOSE k \in Touched(e) : e.table[k + 1] = b]
                ELSE IF r \in removed THEN NoBlocks ELSE pendingBlocks[r]]
        /\ epochBlocks' = [r \in Req |->
                IF r \in opened
                THEN Merge([b \in DOMAIN touched[r] |-> stepBlocks'[b]],
                           IF HasFullContext(scheduled[r]) THEN NoBlocks
                           ELSE requestBlocks'[r])
                ELSE IF r \in removed THEN NoBlocks ELSE epochBlocks[r]]

\* block_fills: the snapshot prepare_step receives.
BlockFills ==
    Merge(Merge(stepBlocks, MergeAll(requestBlocks)),
          Merge(MergeAll(epochBlocks), MergeAll(resolvedBlocks)))
=============================================================================
