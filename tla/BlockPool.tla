------------------------------ MODULE BlockPool ------------------------------
(***************************************************************************)
(* The KV cache manager of one cache group, and the block pool under it:   *)
(* reference counts, the order in which free blocks are evicted, the hash  *)
(* index of the prefix cache, and the steps of allocate_slots with their   *)
(* check that must be right about how many blocks they will need.          *)
(*                                                                         *)
(* The scheduler is any that calls the manager by its protocol.  The       *)
(* contents of a block are a member of Content; the hash of a block is the *)
(* sequence of contents up to its end.  `rows` records what the kernels    *)
(* wrote, so that a hit on a block without its rows would be seen.         *)
(***************************************************************************)
EXTENDS FreeQueue, Integers, FiniteSets, Functions, FiniteSetsExt

CONSTANTS
    Req,       \* requests
    Content,   \* what the tokens of one block may be
    BlockSize, \* block_size = hash_block_size
    MaxLen,    \* max_model_len
    Lookahead  \* num_lookahead_tokens, and the drafts of a step

ASSUME BlockPoolAssumption ==
    /\ IsFiniteSet(Block) /\ IsFiniteSet(Req) /\ IsFiniteSet(Content)
    /\ BlockSize \in Nat \ {0} /\ MaxLen \in Nat /\ Lookahead \in Nat

VARIABLES
    useEagle, \* drop_eagle_block, fixed when the engine starts
    pool,     \* BlockPool: the free queue, ref_cnt, block_hash and the index
    request,  \* the scheduler's view of each request
    table,    \* req_to_blocks
    cached,   \* num_cached_block, 0 of a request that is not there
    rows,     \* what the rows of a block were written for, and how many
    error     \* the exception that ended the engine

vars == <<useEagle, pool, request, table, cached, rows, error>>

NoHash   == << >>
NoError  == "none"
NoRows   == [key |-> << >>, n |-> 0]
Lesser(a, b) == IF a < b THEN a ELSE b
Monus(a, b)  == IF a > b THEN a - b ELSE 0
CeilDiv(n)   == (n + BlockSize - 1) \div BlockSize

\* Slip: the hash is of the block's own tokens.
KeyUnchained(text, i) == SubSeq(text, i, i)

\* The hash of a request's block: chained over everything before it.
Key(text, i) == SubSeq(text, 1, i)

Nobody == [status |-> "none", text |-> << >>, tokens |-> 0, computed |-> 0,
           busy |-> FALSE, due |-> 0]

-----------------------------------------------------------------------------
(* BlockPool. *)

\* get_one_block: any block registered under the key.
CachedBlocks(p, key) == IF key \in DOMAIN p.index THEN p.index[key] ELSE {}

Registered(p, b) == p.hash[b] # NoHash

\* Slip: the index still leads to the block.
EvictKeepsIndex(p, b) == [p EXCEPT !.hash[b] = NoHash]

\* _remove_cached_block_hashes.
Evict(p, b) ==
    IF ~Registered(p, b) THEN p
    ELSE LET rest == CachedBlocks(p, p.hash[b]) \ {b}
         IN  [p EXCEPT !.hash[b] = NoHash,
                       !.index = IF rest = {} THEN Restrict(@, DOMAIN @ \ {p.hash[b]})
                                 ELSE [@ EXCEPT ![p.hash[b]] = rest]]

\* _insert_block_hash.
Insert(p, key, b) ==
    IF b \in CachedBlocks(p, key) THEN p
    ELSE [p EXCEPT !.hash[b] = key,
                   !.index = [k \in DOMAIN @ \cup {key} |->
                        CachedBlocks(p, k) \cup (IF k = key THEN {b} ELSE {})]]

\* Slip: a block in use is hit without being counted.
TouchUncounted(p, b) ==
    IF p.refs[b] > 0 THEN p
    ELSE [p EXCEPT !.queue = RemoveBlock(@, b), !.refs[b] = 1]

\* A hit takes a block out of the free queue if nobody had it.
TouchOne(p, b) ==
    [p EXCEPT !.queue = IF p.refs[b] = 0 THEN RemoveBlock(@, b) ELSE @,
              !.refs[b] = @ + 1]

Touch(p, blocks) == FoldLeft(TouchOne, p, blocks)

Touchable(p, blocks) ==
    \A i \in DOMAIN blocks : p.refs[blocks[i]] = 0 => Removable(p.queue, blocks[i])

\* Whether get_new_blocks may take so many.
Available(p, n) == n <= p.queue.num

NewBlocks(p, n) == FirstN(p.queue, n)

\* Slip: a block keeps its hash when it changes hands.
TakeWithHash(p, b) == [p EXCEPT !.refs[b] = @ + 1]

TakeOne(p, b) == [Evict(p, b) EXCEPT !.refs[b] = @ + 1]

\* The first blocks of the queue lose their hashes.
GetNewBlocks(p, n) ==
    FoldLeft(TakeOne, [p EXCEPT !.queue = PopLeftN(@, n)], NewBlocks(p, n))

\* The blocks of a list that are in a set, in their order.
Those(blocks, set) ==
    FoldLeft(LAMBDA some, b : IF b \in set THEN Append(some, b) ELSE some, << >>, blocks)

\* Slip: every block goes to the end of the queue.
FreeAppended(p, blocks) ==
    LET refs   == [b \in Block |-> IF b \in ToSet(blocks) THEN p.refs[b] - 1 ELSE p.refs[b]]
        unused == {b \in Block : refs[b] = 0}
    IN  [p EXCEPT !.refs = refs, !.queue = AppendN(@, Those(blocks, unused))]

\* Of the blocks nobody holds any more the registered ones are evicted last.
FreeBlocks(p, blocks) ==
    LET refs   == [b \in Block |-> IF b \in ToSet(blocks) THEN p.refs[b] - 1 ELSE p.refs[b]]
        unused == {b \in Block : refs[b] = 0}
        hashed == {b \in Block : Registered(p, b)}
    IN  [p EXCEPT !.refs = refs,
                  !.queue = AppendN(PrependN(@, Those(blocks, unused \ hashed)),
                                    Those(blocks, unused \cap hashed))]

\* cache_full_blocks for the blocks from..to of a table, and its assertion
\* that a block registered now was not registered before.
CacheFullBlocks(p, text, blocks, from, to) ==
    FoldLeft(LAMBDA q, i : Insert(q, Key(text, i), blocks[i]), p,
             [k \in 1 .. Monus(to + 1, from) |-> from + k - 1])

MayCache(p, blocks, from, to) == \A i \in from .. to : ~Registered(p, blocks[i])

-----------------------------------------------------------------------------
(* KVCacheManager. *)

\* find_longest_cache_hit: at least one token is left to compute; the last
\* block is dropped for the drafter, which needs its hidden states.
HitLength(r) ==
    LET q   == request[r]
        max == (q.tokens - 1) \div BlockSize
        run == CHOOSE n \in 0 .. max :
                  /\ \A i \in 1 .. n : CachedBlocks(pool, Key(q.text, i)) # {}
                  /\ n < max => CachedBlocks(pool, Key(q.text, n + 1)) = {}
    IN  IF useEagle THEN Monus(run, 1) ELSE run

Hits(r) ==
    {hit \in [1 .. HitLength(r) -> Block] :
        \A i \in DOMAIN hit : hit[i] \in CachedBlocks(pool, Key(request[r].text, i))}

\* Slip: a hit is thought to cost nothing.
ToAllocateFreeHits(r, hit, slots) == Monus(CeilDiv(slots), Len(hit) + Len(table[r]))

\* get_num_blocks_to_allocate: a hit on a free block costs a free block, too.
ToAllocate(r, hit, slots) ==
    Monus(CeilDiv(slots), Len(hit) + Len(table[r]))
        + Cardinality({b \in ToSet(hit) : pool.refs[b] = 0})

\* Both checks of allocate_slots; the first one is for a waiting request.
Fits(r, hit, slots) ==
    /\ request[r].status = "waiting" => ToAllocate(r, hit, request[r].tokens) <= pool.queue.num
    /\ ToAllocate(r, hit, slots) <= pool.queue.num

\* Rejected drafts leave no rows.
RolledBack(blocks, computed) ==
    [b \in Block |->
        IF \E i \in computed \div BlockSize + 1 .. Len(blocks) : blocks[i] = b
        THEN LET i == CHOOSE i \in DOMAIN blocks : blocks[i] = b
                 n == Monus(computed, (i - 1) * BlockSize)
             IN  IF n = 0 THEN NoRows ELSE [rows[b] EXCEPT !.n = n]
        ELSE rows[b]]

\* What the kernels write for the tokens from..to of a request.  Rows after a
\* gap, or after rows of another text, do not make a block right.
Written(old, text, blocks, from, to) ==
    [b \in Block |->
        LET I     == {i \in from \div BlockSize + 1 .. CeilDiv(to) : blocks[i] = b}
            i     == CHOOSE i \in I : TRUE
            first == (i - 1) * BlockSize
        IN  IF \/ I = {}
               \/ from > first /\ (old[b].key # Key(text, i) \/ old[b].n < from - first)
            THEN old[b]
            ELSE [key |-> Key(text, i), n |-> Lesser(BlockSize, to - first)]]

\* Rows that nobody can ask for are forgotten.
Tidied(new, p) ==
    [b \in Block |-> IF p.refs[b] = 0 /\ ~Registered(p, b) THEN NoRows ELSE new[b]]

Fail(what) ==
    /\ error' = what
    /\ UNCHANGED <<useEagle, pool, request, table, cached, rows>>

\* Slip: drafts are registered with the rest.
CommitDrafts(r, end) == end

\* The tokens of a step up to `end` that are certain.
Commit(r, end) == Lesser(end, request[r].tokens)

\* cache_blocks for the first `tokens` tokens; p is the pool before it.
CacheBlocks(r, p, text, blocks, known, tokens) ==
    LET to == tokens \div BlockSize
    IN  /\ pool' = CacheFullBlocks(p, text, blocks, known + 1, to)
        /\ cached' = [cached EXCEPT ![r] = IF to > known THEN to ELSE known]

\* allocate_slots for n tokens after the `start` ones that are computed, of
\* which a waiting request takes those of `hit` from the prefix cache; and the
\* step that writes the rows of these tokens.
AllocateSlots(r, hit, start, n, slots, text) ==
    LET base    == hit \o table[r]
        known   == Len(hit) + cached[r]
        k       == Monus(CeilDiv(slots), Len(base))
        touched == Touch(pool, hit)
        new     == NewBlocks(touched, k)
        taken   == GetNewBlocks(touched, k)
        blocks  == base \o new
    IN  /\ Fits(r, hit, slots)
        /\ IF ~Touchable(pool, hit) THEN Fail("remove")
           ELSE IF ~Available(touched, k) THEN Fail("no free blocks")
           ELSE IF ~MayCache(taken, blocks, known + 1, Commit(r, start + n) \div BlockSize) THEN Fail("assertion")
           ELSE /\ CacheBlocks(r, taken, text, blocks, known, Commit(r, start + n))
                /\ table' = [table EXCEPT ![r] = blocks]
                /\ rows' = Written([b \in Block |-> IF b \in ToSet(new) THEN NoRows ELSE rows[b]],
                                   text, blocks, start, start + n)
                /\ request' = [request EXCEPT
                      ![r] = [status |-> "running", text |-> text, tokens |-> @.tokens,
                              computed |-> start + n, busy |-> TRUE,
                              due |-> Monus(start + n + 1, @.tokens)]]
                /\ UNCHANGED <<useEagle, error>>

-----------------------------------------------------------------------------
(* The calls of the scheduler. *)

\* The slots a step asks for: the drafter's may be among them.
Slots(end) == {Lesser(end + look, MaxLen) : look \in {0, Lookahead}}

\* A text that goes on to the end of the block of token n.
Extensions(text, n) ==
    {text \o more : more \in [1 .. Monus(CeilDiv(n), Len(text)) -> Content]}

Arrive(r) ==
    /\ error = NoError /\ request[r].status = "none"
    /\ \E n \in 1 .. MaxLen - 1 : \E text \in Extensions(<< >>, n) :
          request' = [request EXCEPT ![r] =
              [Nobody EXCEPT !.status = "waiting", !.text = text, !.tokens = n]]
    /\ UNCHANGED <<useEagle, pool, table, cached, rows, error>>

\* A new or preempted request, all of it or a first chunk.
Admit(r) ==
    /\ error = NoError /\ request[r].status = "waiting" /\ ~request[r].busy
    /\ request[r].tokens < MaxLen
    /\ \E hit \in Hits(r) :
        LET start == Len(hit) * BlockSize
        IN  \E n \in 1 .. request[r].tokens - start : \E slots \in Slots(start + n) :
              AllocateSlots(r, hit, start, n, slots, request[r].text)

\* A running request: a chunk of prefill, or a decode with drafts.
Continue(r) ==
    /\ error = NoError /\ request[r].status = "running" /\ ~request[r].busy
    /\ request[r].tokens < MaxLen
    /\ LET q == request[r]
       IN  \E n \in 1 .. Lesser(q.tokens + Lookahead, MaxLen - 1) - q.computed :
           \E slots \in Slots(q.computed + n) :
           \E text \in Extensions(q.text, q.computed + n) :
              AllocateSlots(r, << >>, q.computed, n, slots, text)

\* The outcome of a step: of the drafts some are accepted, and one token more
\* is sampled.  A running request registers what is certain now; one that was
\* preempted meanwhile only learns its tokens.
Receive(r) ==
    /\ error = NoError /\ request[r].busy
    /\ LET q == request[r]
       IN  \E got \in IF q.due = 0 THEN {0} ELSE 1 .. q.due :
           LET tokens   == q.tokens + got
               computed == IF q.due = 0 \/ q.status = "waiting" THEN q.computed ELSE tokens - 1
           IN  \E text \in Extensions(SubSeq(q.text, 1, Lesser(Len(q.text), CeilDiv(tokens))),
                                      tokens) :
                /\ request' = [request EXCEPT ![r] =
                      [q EXCEPT !.text = text, !.tokens = tokens, !.computed = computed,
                                !.busy = FALSE, !.due = 0]]
                /\ IF q.due = 0 \/ q.status = "waiting"
                   THEN UNCHANGED <<pool, cached, rows>>
                   ELSE /\ CacheBlocks(r, pool, text, table[r], cached[r], computed)
                        /\ rows' = RolledBack(table[r], computed)
    /\ UNCHANGED <<useEagle, table, error>>

\* Slip: the blocks of a request are freed from its beginning.
FreeingOrderForward(blocks) == blocks

\* The last block of a request is the first to be evicted.
FreeingOrder(blocks) == Reverse(blocks)

\* A request is finished, aborted, or preempted to come back later.
Release(r) ==
    /\ error = NoError /\ request[r].status # "none"
    /\ pool' = FreeBlocks(pool, FreeingOrder(table[r]))
    /\ rows' = Tidied(rows, pool')
    /\ table' = [table EXCEPT ![r] = << >>]
    /\ cached' = [cached EXCEPT ![r] = 0]
    /\ \/ request' = [request EXCEPT ![r] = Nobody]
       \/ /\ request[r].status = "running"
          /\ request' = [request EXCEPT ![r].status = "waiting", ![r].computed = 0]
    /\ UNCHANGED <<useEagle, error>>

\* reset_prefix_cache, which refuses while a block is in use.
ResetPrefixCache ==
    /\ error = NoError /\ pool.queue.num = Cardinality(Block)
    /\ pool' = [pool EXCEPT !.hash = [b \in Block |-> NoHash], !.index = << >>]
    /\ rows' = Tidied(rows, pool')
    /\ UNCHANGED <<useEagle, request, table, cached, error>>

\* The null block has been taken out of the queue.
Init ==
    /\ useEagle \in BOOLEAN
    /\ \E order \in SetToSeqs(Block) :
          pool = [queue |-> QueueOf(order), refs |-> [b \in Block |-> 0],
                  hash |-> [b \in Block |-> NoHash], index |-> << >>]
    /\ request = [r \in Req |-> Nobody]
    /\ table = [r \in Req |-> << >>]
    /\ cached = [r \in Req |-> 0]
    /\ rows = [b \in Block |-> NoRows]
    /\ error = NoError

Next ==
    \/ \E r \in Req : Arrive(r) \/ Admit(r) \/ Continue(r) \/ Receive(r) \/ Release(r)
    \/ ResetPrefixCache

Spec == Init /\ [][Next]_vars

-----------------------------------------------------------------------------
(* Properties. *)

Texts == UNION {[1 .. n -> Content] : n \in 0 .. CeilDiv(MaxLen)}

TypeOK ==
    /\ pool.queue \in QueueType
    /\ pool.refs \in [Block -> Nat]
    /\ pool.hash \in [Block -> Texts \cup {NoHash}]
    /\ \A r \in Req :
        /\ request[r].text \in Texts /\ request[r].computed <= MaxLen
        /\ table[r] \in Seq(Block) /\ Len(table[r]) <= CeilDiv(MaxLen)
        /\ cached[r] \in 0 .. Len(table[r])

\* Once allocate_slots has found that a request fits, it goes through: the
\* blocks are there although hits have left the free queue meanwhile, a block
\* that is hit is where its reference count says, and nothing is registered
\* twice.
NeverFails == error = NoError

\* A block has as many references as requests that hold it,
\* and the free list, which the pool never compares with the counts, holds
\* exactly the others, once each and well linked.
FreeListSound ==
    /\ WellLinked(pool.queue)
    /\ \A b \in Block :
        /\ pool.refs[b] = Cardinality({r \in Req : b \in ToSet(table[r])})
        /\ b \in ToSet(Order(pool.queue)) <=> pool.refs[b] = 0

\* The hash a block carries and the index of hashes never disagree: no hit on
\* a block that was given away, no block that stays registered unseen.
IndexSound ==
    /\ \A b \in Block, k \in DOMAIN pool.index : b \in pool.index[k] <=> pool.hash[b] = k
    /\ \A b \in Block : Registered(pool, b) => pool.hash[b] \in DOMAIN pool.index
    /\ \A k \in DOMAIN pool.index : pool.index[k] # {}

\* What a request reads as its context, hits included, are rows of its own
\* text, and a registered block has all the rows its hash promises: no draft
\* that was rejected, nothing another request has overwritten.
ContextIntact ==
    /\ \A r \in Req : \A i \in 1 .. CeilDiv(request[r].computed) :
        LET row == rows[table[r][i]]
        IN  /\ row.key = Key(request[r].text, i)
            /\ row.n >= Lesser(BlockSize, request[r].computed - (i - 1) * BlockSize)
    /\ \A b \in Block : Registered(pool, b) =>
          rows[b] = [key |-> pool.hash[b], n |-> BlockSize]

\* The search for a hit stops at the first block that misses, because every
\* later block then misses too: eviction never takes the beginning of a text
\* and leaves a continuation registered that can no longer be found.
ChainsComplete ==
    \A k \in DOMAIN pool.index : Len(k) > 1 => Key(k, Len(k) - 1) \in DOMAIN pool.index

\* A block that cannot be hit is evicted before any that can.
UnregisteredFirst ==
    LET order == Order(pool.queue)
    IN  \A i, j \in DOMAIN order :
            i < j /\ Registered(pool, order[i]) => Registered(pool, order[j])

Cache == INSTANCE PrefixCache WITH
    text <- [r \in Req |-> request[r].text],
    sealed <- cached,
    hash <- pool.hash

\* The pool hands blocks from request to request as PrefixCache promises.
ImplementsPrefixCache == Cache!Spec

\* Two requests read one block only where their texts agree up to its end.
SharedTextsAgree == Cache!SharedTextsAgree
=============================================================================
