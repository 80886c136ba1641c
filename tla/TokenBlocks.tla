---------------------------- MODULE TokenBlocks ----------------------------
(***************************************************************************)
(* The token arithmetic of KVarNMLALiveBlockTracker (kvarn_mla_state.py):  *)
(* which rows of a sequence one rank of decode context parallelism holds,  *)
(* which of its blocks must keep exact rows, and how full a block is said  *)
(* to be.                                                                  *)
(*                                                                         *)
(* A block table is a sequence of physical blocks; logical block k of the  *)
(* code is its element k + 1.  One manager block is one kernel block       *)
(* (blocks_per_manager_block = 1, as deployed).  A table of fills is a     *)
(* function from some of the blocks to counts; the count 0 is the code's   *)
(* None (update and resolve_async publish `fill or None`), so that the     *)
(* rule of _merge_fill is the maximum.                                     *)
(***************************************************************************)
EXTENDS Integers, Sequences

CONSTANTS
    Group,        \* rows per block on one rank (group_size)
    World, Rank,  \* dcp_world_size, dcp_rank
    DcpInterleave, \* dcp_interleave
    Boundary,     \* boundary_tokens: the sink kept exact
    PrecisionTail \* KVARN_MLA_PRECISION_TAIL_TOKENS

ASSUME GeometryAssumption ==
    /\ Group \in Nat \ {0} /\ World \in Nat \ {0} /\ DcpInterleave \in Nat \ {0}
    /\ Rank \in 0 .. World - 1
    \* The interleave divides the block (checked by the engine's config).
    /\ Group % DcpInterleave = 0
    /\ Boundary \in Nat /\ PrecisionTail \in Nat

Lesser(m, n)  == IF m < n THEN m ELSE n
Greater(m, n) == IF m < n THEN n ELSE m
Monus(m, n)   == IF m < n THEN 0 ELSE m - n

Blocks(n) == (n + Group - 1) \div Group

\* Tokens dealt to `rank` in runs of DcpInterleave.
LocalTokensOf(rank, n) ==
    LET cycle == World * DcpInterleave
    IN  (n \div cycle) * DcpInterleave
          + Lesser(Monus(n % cycle, rank * DcpInterleave), DcpInterleave)

\* Slip: the incomplete last cycle is forgotten.
WholeCycles(n) == (n \div (World * DcpInterleave)) * DcpInterleave

LocalTokens(n) == LocalTokensOf(Rank, n)

\* Rows of logical block k among the first `end` local rows.
BlockFill(end, k) == Lesser(Group, Monus(end, k * Group))

NoBlocks == << >>

\* The count-wise maximum of two tables of fills.
Merge(f, g) ==
    [b \in DOMAIN f \cup DOMAIN g |->
        IF b \notin DOMAIN g THEN f[b]
        ELSE IF b \notin DOMAIN f THEN g[b] ELSE Greater(f[b], g[b])]

\* The fills of the logical blocks in K of a block table.
FillsOf(table, K, end) ==
    [b \in {table[k + 1] : k \in K} |->
        BlockFill(end, CHOOSE k \in K : table[k + 1] = b)]

NumLogical(table, maxEnd) == Lesser(Blocks(maxEnd), Len(table))

\* Slip: the precision tail is dropped.
KeptNoTail(n, minEnd, tailStart) ==
    {k \in 0 .. n - 1 : \/ k < Blocks(Boundary)
                        \/ k >= Monus(Blocks(minEnd), 1)}

\* The logical blocks that stay exact: the sink, the precision tail, and the
\* block being filled with those after it.
Kept(n, minEnd, tailStart) ==
    {k \in 0 .. n - 1 : \/ k < Blocks(Boundary)
                        \/ PrecisionTail > 0 /\ k >= tailStart \div Group
                        \/ k >= Monus(Blocks(minEnd), 1)}

PersistentBlocks(table, minEnd, maxEnd, tailStart) ==
    FillsOf(table, Kept(NumLogical(table, maxEnd), minEnd, tailStart), minEnd)

-----------------------------------------------------------------------------
(* Where the kernels really store rows (_compute_slot_mappings_kernel). *)

BlockTokens == Group * World

\* The tokens this rank stores at all.
IsLocal(pos) == ((pos % BlockTokens) \div DcpInterleave) % World = Rank

\* The blocks of a table in which this rank has rows of tokens from .. to - 1.
BlocksOf(table, from, to) ==
    {table[i] : i \in {j \in DOMAIN table :
        \E pos \in Greater(from, (j - 1) * BlockTokens) .. Lesser(to, j * BlockTokens) - 1 :
            IsLocal(pos)}}
=============================================================================
