---------------------- MODULE TrackedSequences_proofs ----------------------
(***************************************************************************)
(* Whatever the number of ranks, the interleave, the size of a block, the  *)
(* sink, the tail and the lookahead: no row of a step is dropped, since    *)
(* the scheduler's count is never behind the rows the GPU has, and ahead   *)
(* of them by no more than one step can reject; the sink and the precision *)
(* tail stay exact; with a tail of at least the lookahead, a block leaves  *)
(* the snapshot only when it was published as full; and with a tail as     *)
(* long as a batch and twice the lookahead the snapshot fits the pool.     *)
(***************************************************************************)
EXTENDS TrackedSequences, BlockTracker_proofs, FiniteSetTheorems

-----------------------------------------------------------------------------
(* The scheduler's side. *)

\* What the batches in flight will take back from the scheduler's count.
InFlight(r) ==
    IF Len(unreported) = 0 THEN 0
    ELSE IF Len(unreported) = 1 THEN unreported[1][r]
    ELSE unreported[1][r] + unreported[2][r]

\* The scheduler's count is the rows of the GPU plus the rejections in flight,
\* of which no batch has more than the lookahead.
CountInv ==
    /\ rows \in [Req -> Nat]
    /\ computed \in [Req -> Nat]
    /\ unreported \in Seq([Req -> 0 .. Lookahead])
    /\ Len(unreported) <= Depth
    /\ \A r \in Req : computed[r] = rows[r] + InFlight(r)
    /\ tables \in [Req -> Seq(Req \X Nat)]
    /\ dropped = {}

LEMMA BatchesInFlight ==
    ASSUME CountInv
    PROVE  /\ Len(unreported) \in {0, 1, 2}
           /\ \A i \in 1 .. Len(unreported) : unreported[i] \in [Req -> 0 .. Lookahead]
           /\ Len(unreported) < Depth => Len(unreported) \in {0, 1}
<1>1. unreported \in Seq([Req -> 0 .. Lookahead]) /\ Len(unreported) <= Depth
  BY DEF CountInv
<1>2. Depth \in {1, 2}
  BY DEF Depth
<1>3. Len(unreported) \in Nat
  BY <1>1
<1>4. \A i \in 1 .. Len(unreported) : unreported[i] \in [Req -> 0 .. Lookahead]
  BY <1>1
<1>5. Len(unreported) \in {0, 1, 2}
  <2> DEFINE n == Len(unreported)
  <2>1. n <= Depth /\ n \in Nat
    BY <1>1, <1>3
  <2> HIDE DEF n
  <2>2. n \in {0, 1, 2}
    BY <1>2, <2>1
  <2> QED
    BY <2>2 DEF n
<1>6. Len(unreported) < Depth => Len(unreported) \in {0, 1}
  BY <1>2, <1>5
<1> QED
  BY <1>4, <1>5, <1>6

\* Where the scheduler may run a step, its count is ahead of the rows by at most
\* one lookahead.
LEMMA CountAhead ==
    ASSUME CountInv, Len(unreported) < Depth, NEW r \in Req
    PROVE  /\ rows[r] <= computed[r] /\ computed[r] <= rows[r] + Lookahead
           /\ rows[r] \in Nat /\ computed[r] \in Nat
<1>1. Len(unreported) \in {0, 1}
  BY BatchesInFlight
<1>2. InFlight(r) \in 0 .. Lookahead
  <2>1. CASE Len(unreported) = 0
    BY <2>1, SequencesAssumption DEF InFlight
  <2>2. CASE Len(unreported) = 1
    <3>1. unreported[1] \in [Req -> 0 .. Lookahead]
      BY <2>2, BatchesInFlight
    <3> QED
      BY <2>2, <3>1 DEF InFlight
  <2> QED
    BY <1>1, <2>1, <2>2
<1> QED
  BY <1>2, SequencesAssumption DEF CountInv

\* A table of a step is a sequence of blocks.
LEMMA GrownTable ==
    ASSUME tables \in [Req -> Seq(Req \X Nat)], NEW r \in Req, NEW tokens \in Nat
    PROVE  Grown(r, tokens) \in Seq(Req \X Nat)
<1> DEFINE n == (Lesser(tokens, MaxLen) + BlockTokens - 1) \div BlockTokens
<1>1. n \in Nat
  <2>1. BlockTokens \in Nat \ {0}
    BY Sizes
  <2>2. Lesser(tokens, MaxLen) + BlockTokens - 1 \in Nat
    BY <2>1, SequencesAssumption DEF Lesser
  <2> QED
    BY <2>1, <2>2, DivMod
<1>2. PICK m \in Nat : m = Greater(Len(tables[r]), n)
  BY <1>1 DEF Greater
<1>3. Grown(r, tokens) = [k \in 1 .. m |-> <<r, k>>]
  BY <1>2 DEF Grown
<1> QED
  BY <1>3

LEMMA CountInit == Init => CountInv
<1> SUFFICES ASSUME Init PROVE CountInv
  OBVIOUS
<1>1. unreported = << >> /\ Len(unreported) = 0
  BY DEF Init
<1> QED
  BY <1>1 DEF Init, CountInv, InFlight, Depth

LEMMA StepCounts ==
    ASSUME CountInv, NEW R \in SUBSET Req, NEW step \in [R -> Shares], Step(step)
    PROVE  CountInv'
<1> DEFINE new == [r \in Req |-> IF r \in DOMAIN step
                      THEN Grown(r, computed[r] + step[r].tokens + step[r].reserved)
                      ELSE tables[r]]
           scheduled == [r \in DOMAIN step |-> Entry(r, step, new[r])]
<1>1. Len(unreported) < Depth
  BY DEF Step
<1>2. ASSUME NEW r \in DOMAIN step
      PROVE  /\ r \in Req
             /\ step[r].tokens \in Nat /\ step[r].rejected \in 0 .. Lookahead
             /\ step[r].drafts \in 0 .. Lookahead /\ step[r].reserved \in Nat
             /\ step[r].rejected <= step[r].tokens
  BY SequencesAssumption DEF Shares
<1>3. new \in [Req -> Seq(Req \X Nat)]
  <2> SUFFICES ASSUME NEW r \in Req PROVE new[r] \in Seq(Req \X Nat)
    OBVIOUS
  <2>1. CASE r \in DOMAIN step
    <3>1. computed[r] + step[r].tokens + step[r].reserved \in Nat
      BY <1>2, <2>1 DEF CountInv
    <3> QED
      BY <2>1, <3>1, GrownTable DEF CountInv
  <2> QED
    BY <2>1 DEF CountInv
<1>4. dropped' = {}
  <2>1. Update({}, scheduled)
    BY DEF Step
  <2>2. ASSUME NEW r \in DOMAIN step
        PROVE  BlocksOf(new[r], rows[r], rows[r] + step[r].tokens + Lookahead)
                  \subseteq DOMAIN BlockFills'
    <3> DEFINE e == scheduled[r]
    <3>1. /\ e.start = computed[r] /\ e.tokens = step[r].tokens + Lookahead
          /\ e.rollback = step[r].drafts + Lookahead /\ e.table = new[r]
      BY DEF Entry
    <3>2. /\ rows[r] <= computed[r] /\ computed[r] <= rows[r] + Lookahead
          /\ rows[r] \in Nat /\ computed[r] \in Nat
      BY <1>1, <1>2, CountAhead
    <3>3. MinStart(e) \in Nat /\ MinStart(e) <= rows[r]
      BY <1>2, <3>1, <3>2, SequencesAssumption DEF MinStart, Monus
    <3>4. /\ MaxEnd(e) \in Nat /\ rows[r] + step[r].tokens + Lookahead \in Nat
          /\ rows[r] + step[r].tokens + Lookahead <= MaxEnd(e)
      BY <1>2, <3>1, <3>2, SequencesAssumption DEF MaxEnd
    <3>5. e.table \in Seq(Req \X Nat)
      BY <1>2, <1>3, <3>1
    <3> HIDE DEF e
    <3>6. BlocksOf(e.table, rows[r], rows[r] + step[r].tokens + Lookahead)
              \subseteq {e.table[k + 1] : k \in Touched(e)}
      BY <3>2, <3>3, <3>4, <3>5, WrittenAreTouched
    <3>7. {e.table[k + 1] : k \in Touched(e)} \subseteq DOMAIN BlockFills'
      <4>1. r \in DOMAIN scheduled
        OBVIOUS
      <4> HIDE DEF scheduled
      <4> QED
        BY <2>1, <4>1, TouchedInSnapshot DEF e
    <3> QED
      BY <3>1, <3>6, <3>7
  <2>3. dropped' = dropped \cup
            ((UNION {BlocksOf(new[r], rows[r], rows[r] + step[r].tokens + Lookahead)
                      : r \in DOMAIN step}) \ DOMAIN BlockFills')
    BY DEF Step
  <2>4. dropped = {}
    BY DEF CountInv
  <2> DEFINE written == [r \in DOMAIN step |->
                 BlocksOf(new[r], rows[r], rows[r] + step[r].tokens + Lookahead)]
             slots == DOMAIN BlockFills'
  <2>5. /\ \A r \in DOMAIN step : written[r] \subseteq slots
        /\ dropped' = dropped \cup ((UNION {written[r] : r \in DOMAIN step}) \ slots)
    BY <2>2, <2>3
  <2> HIDE DEF written, slots
  <2>6. (UNION {written[r] : r \in DOMAIN step}) \ slots = {}
    BY <2>5, Covered
  <2> QED
    BY <2>4, <2>5, <2>6
<1>5. rows' \in [Req -> Nat]
  BY <1>2 DEF Step, CountInv
<1>6. computed' \in [Req -> Nat]
  BY <1>2 DEF Step, CountInv
<1> DEFINE rejected == [r \in Req |-> IF r \in DOMAIN step THEN step[r].rejected ELSE 0]
<1>7. rejected \in [Req -> 0 .. Lookahead] /\ unreported' = Append(unreported, rejected)
  BY <1>2, SequencesAssumption DEF Step
<1>8. /\ unreported' \in Seq([Req -> 0 .. Lookahead])
      /\ Len(unreported') = Len(unreported) + 1
      /\ unreported'[Len(unreported) + 1] = rejected
      /\ \A i \in 1 .. Len(unreported) : unreported'[i] = unreported[i]
  <2> HIDE DEF rejected
  <2> QED
    BY <1>7 DEF CountInv
<1>9. ASSUME NEW r \in Req PROVE computed'[r] = rows'[r] + InFlight(r)'
  <2>1. InFlight(r)' = InFlight(r) + rejected[r]
    <3>1. Len(unreported) = 0 \/ Len(unreported) = 1
      BY <1>1, BatchesInFlight
    <3>2. rejected[r] \in Nat
      BY <1>7, SequencesAssumption
    <3> HIDE DEF rejected
    <3>3. CASE Len(unreported) = 0
      BY <1>8, <3>2, <3>3 DEF InFlight
    <3>4. CASE Len(unreported) = 1
      BY <1>8, <3>4 DEF InFlight
    <3> QED
      BY <3>1, <3>3, <3>4
  <2>2. /\ rows[r] \in Nat /\ computed[r] \in Nat
        /\ computed[r] = rows[r] + InFlight(r)
    BY DEF CountInv
  <2>3. InFlight(r) \in Int
    <3>1. Len(unreported) = 0 \/ Len(unreported) = 1
      BY <1>1, BatchesInFlight
    <3>2. Len(unreported) = 1 => unreported[1] \in [Req -> 0 .. Lookahead]
      BY BatchesInFlight
    <3> QED
      BY <3>1, <3>2, SequencesAssumption DEF InFlight
  <2>4. CASE r \in DOMAIN step
    <3>1. rows'[r] = rows[r] + step[r].tokens - step[r].rejected
          /\ computed'[r] = computed[r] + step[r].tokens
          /\ rejected[r] = step[r].rejected
      BY <2>4 DEF Step
    <3> QED
      BY <1>2, <2>1, <2>2, <2>3, <2>4, <3>1
  <2>5. CASE r \notin DOMAIN step
    <3>1. rows'[r] = rows[r] /\ computed'[r] = computed[r] /\ rejected[r] = 0
      BY <2>5 DEF Step
    <3> QED
      BY <2>1, <2>2, <2>3, <3>1
  <2> QED
    BY <2>4, <2>5
<1>10. tables' = new /\ Len(unreported') <= Depth
  <2>1. tables' = new
    BY DEF Step
  <2>2. Len(unreported) \in Nat /\ Depth \in Nat
    BY DEF CountInv, Depth
  <2> QED
    BY <1>1, <1>8, <2>1, <2>2
<1> HIDE DEF new, scheduled, rejected
<1> QED
  BY <1>3, <1>4, <1>5, <1>6, <1>8, <1>9, <1>10 DEF CountInv, Depth

LEMMA ReportCounts ==
    ASSUME CountInv, Report
    PROVE  CountInv'
<1> DEFINE u == unreported
<1>1. /\ u \in Seq([Req -> 0 .. Lookahead]) /\ u # << >> /\ u' = Tail(u)
      /\ Len(u) <= Depth /\ Len(u) \in {1, 2}
  <2>1. u \in Seq([Req -> 0 .. Lookahead]) /\ u # << >> /\ u' = Tail(u) /\ Len(u) <= Depth
    BY DEF Report, CountInv
  <2>2. Len(u) \in {0, 1, 2} /\ Len(u) # 0
    BY <2>1, BatchesInFlight
  <2> QED
    BY <2>1, <2>2
<1>2. /\ u' \in Seq([Req -> 0 .. Lookahead]) /\ Len(u') = Len(u) - 1
      /\ Len(u) = 2 => u'[1] = u[2]
  BY <1>1
<1>3. ASSUME NEW r \in Req
      PROVE  computed'[r] = rows'[r] + InFlight(r)' /\ computed'[r] \in Nat
  <2>1. computed'[r] = computed[r] - u[1][r] /\ rows'[r] = rows[r]
    BY <1>1 DEF Report, CountInv
  <2>2. computed[r] = rows[r] + InFlight(r) /\ rows[r] \in Nat
    BY DEF CountInv
  <2>3. u[1][r] \in Nat
    BY <1>1, SequencesAssumption
  <2>4. CASE Len(u) = 1
    BY <1>2, <2>1, <2>2, <2>3, <2>4 DEF InFlight
  <2>5. CASE Len(u) = 2
    <3>1. u[2][r] \in Nat
      BY <2>5, BatchesInFlight
    <3> QED
      BY <1>2, <2>1, <2>2, <2>3, <2>5, <3>1 DEF InFlight
  <2> QED
    BY <1>1, <2>4, <2>5
<1>4. computed' \in [Req -> Nat]
  BY <1>3 DEF Report
<1>5. Len(u') <= Depth
  BY <1>1, <1>2 DEF Depth
<1> QED
  BY <1>2, <1>3, <1>4, <1>5 DEF Report, CountInv, Depth

LEMMA CountStep == CountInv /\ [Next]_vars => CountInv'
<1> SUFFICES ASSUME CountInv, [Next]_vars PROVE CountInv'
  OBVIOUS
<1>1. ASSUME Schedule PROVE CountInv'
  BY <1>1, StepCounts DEF Schedule
<1>2. ASSUME Settle PROVE CountInv'
  BY <1>2 DEF Settle, CountInv, InFlight, Depth
<1>3. ASSUME Report PROVE CountInv'
  BY <1>3, ReportCounts
<1>4. ASSUME UNCHANGED vars PROVE CountInv'
  BY <1>4 DEF vars, CountInv, InFlight, Depth
<1> QED
  BY <1>1, <1>2, <1>3, <1>4 DEF Next

\* A block a step stores rows in always has a slot (scatter would drop the rows
\* silently), however the tokens are dealt to the ranks, whatever is rejected
\* and however late the scheduler and the tracker learn of it.
THEOREM RowsTheorem == Spec => []RowsNeverDropped
<1>1. CountInv => RowsNeverDropped
  BY DEF CountInv, RowsNeverDropped
<1> QED
  BY <1>1, CountInit, CountStep, PTL DEF Spec

-----------------------------------------------------------------------------
(* The tail and the sink stay exact.  The invariant speaks of one row at a   *)
(* time: BlockAt names the block of a row in the table of its request.       *)

BlockAt(r, pos) == <<r, Place(pos) + 1>>

Named(r, table) == table = [k \in 1 .. Len(table) |-> <<r, k>>]

\* A row that must be exact.
ExactRow(r, pos) ==
    /\ IsLocal(pos) /\ pos < rows[r]
    /\ \/ pos < Boundary
       \/ PrecisionTail > 0 /\ Monus(rows[r] + Lookahead, PrecisionTail) <= pos

\* What an open epoch adds to the blocks a request keeps.
Open(r) == IF DOMAIN pendingBlocks[r] = {} THEN {} ELSE DOMAIN epochBlocks[r]

\* A table names the blocks of its request and has room for its rows.
TablesInv ==
    \A r \in Req : Named(r, tables[r]) /\ rows[r] <= Len(tables[r]) * BlockTokens

\* Only requests of the unsettled batch have pending blocks, and the end that
\* will be reported for them is theirs, or too far by at most the lookahead.
EndsInv ==
    /\ DOMAIN unsettled \subseteq Req
    /\ \A r \in DOMAIN unsettled :
          /\ unsettled[r] \in Nat
          /\ rows[r] <= unsettled[r] /\ unsettled[r] <= rows[r] + Lookahead
    /\ \A r \in Req :
          /\ DOMAIN pendingBlocks[r] # {} => r \in DOMAIN unsettled
          /\ \A b \in DOMAIN pendingBlocks[r] :
                pendingBlocks[r][b] \in Nat /\ b = <<r, pendingBlocks[r][b] + 1>>

\* A request whose whole context is exact keeps all its rows; any other keeps
\* its exact ones, with the help of the open epoch.
KeptInv ==
    /\ \A r \in Req, pos \in Nat :
          r \in fullContext /\ IsLocal(pos) /\ pos < rows[r]
            => BlockAt(r, pos) \in DOMAIN requestBlocks[r]
    /\ \A r \in Req, pos \in Nat :
          ExactRow(r, pos) => BlockAt(r, pos) \in DOMAIN requestBlocks[r] \cup Open(r)

NeededInv ==
    \A r \in Req, pos \in Nat : ExactRow(r, pos) => BlockAt(r, pos) \in needed

LEMMA PlaceBound ==
    ASSUME NEW pos \in Nat, NEW m \in Nat, pos < m * BlockTokens
    PROVE  Place(pos) \in Nat /\ Place(pos) + 1 \in 1 .. m
<1> DEFINE k == Place(pos)
<1>1. BlockTokens \in Nat \ {0}
  BY Sizes
<1>2. k \in Nat /\ pos % BlockTokens \in Nat /\ pos = BlockTokens * k + (pos % BlockTokens)
  BY <1>1, DivMod DEF Place
<1>3. k < m
  <2> HIDE DEF k
  <2>1. m <= k => BlockTokens * m <= BlockTokens * k
    BY <1>1, <1>2, TimesMonotone
  <2> QED
    BY <2>1, <1>1, <1>2
<1> HIDE DEF k
<1> QED
  BY <1>2, <1>3 DEF k

\* The positions of a table are its blocks.
LEMMA NamedBlock ==
    ASSUME NEW r, NEW table, Named(r, table), NEW k, k \in 1 .. Len(table)
    PROVE  table[k] = <<r, k>>
  BY DEF Named

LEMMA NeededMeansKept ==
    ASSUME CountInv, TablesInv, NeededInv
    PROVE  PrecisionKept
<1> SUFFICES ASSUME NEW r \in Req,
                    NEW b \in BlocksOf(tables[r], Monus(rows[r] + Lookahead, PrecisionTail), rows[r])
                        \cup BlocksOf(tables[r], 0, Lesser(Boundary, rows[r]))
             PROVE  b \in needed
  BY DEF PrecisionKept
<1>1. tables[r] \in Seq(Req \X Nat) /\ rows[r] \in Nat /\ Named(r, tables[r])
  BY DEF CountInv, TablesInv
<1>2. Monus(rows[r] + Lookahead, PrecisionTail) \in Nat /\ Lesser(Boundary, rows[r]) \in Nat
  BY <1>1, SequencesAssumption, GeometryAssumption DEF Monus, Lesser
<1>3. CASE b \in BlocksOf(tables[r], Monus(rows[r] + Lookahead, PrecisionTail), rows[r])
  <2>1. PICK pos \in Nat :
            /\ Monus(rows[r] + Lookahead, PrecisionTail) <= pos /\ pos < rows[r] /\ IsLocal(pos)
            /\ Place(pos) \in Nat /\ Place(pos) + 1 \in 1 .. Len(tables[r])
            /\ b = tables[r][Place(pos) + 1]
    BY <1>1, <1>2, <1>3, BlockOfRow
  <2>2. PrecisionTail > 0
    BY <1>1, <2>1, SequencesAssumption, GeometryAssumption DEF Monus
  <2>3. b = BlockAt(r, pos)
    BY <1>1, <2>1, NamedBlock DEF BlockAt
  <2> QED
    BY <2>1, <2>2, <2>3 DEF NeededInv, ExactRow
<1>4. CASE b \in BlocksOf(tables[r], 0, Lesser(Boundary, rows[r]))
  <2>1. PICK pos \in Nat :
            /\ pos < Lesser(Boundary, rows[r]) /\ IsLocal(pos)
            /\ Place(pos) \in Nat /\ Place(pos) + 1 \in 1 .. Len(tables[r])
            /\ b = tables[r][Place(pos) + 1]
    BY <1>1, <1>2, <1>4, BlockOfRow
  <2>2. pos < Boundary /\ pos < rows[r]
    BY <1>1, <2>1, GeometryAssumption DEF Lesser
  <2>3. b = BlockAt(r, pos)
    BY <1>1, <2>1, NamedBlock DEF BlockAt
  <2> QED
    BY <2>1, <2>2, <2>3 DEF NeededInv, ExactRow
<1> QED
  BY <1>3, <1>4

\* What one entry of a step may write, given how far the scheduler's count is
\* ahead of the rows.
Tokens(r, step) == computed[r] + step[r].tokens + step[r].reserved

LEMMA EntryEnds ==
    ASSUME CountInv, NEW R \in SUBSET Req, NEW step \in [R -> Shares], Step(step),
           NEW r \in R, NEW e, e = Entry(r, step, Grown(r, Tokens(r, step)))
    PROVE  /\ MinStart(e) \in Nat /\ MinEnd(e) \in Nat /\ MaxEnd(e) \in Nat
           /\ rows[r] \in Nat /\ rows'[r] \in Nat
           /\ MinStart(e) <= rows[r] /\ MinEnd(e) <= MaxEnd(e) /\ rows'[r] <= MaxEnd(e)
           /\ MinStart(e) > 0 => MinEnd(e) <= rows'[r] + Lookahead
           /\ ~(e.rollback > 0) => MinEnd(e) <= rows'[r] + Lookahead
           /\ rows'[r] = rows[r] + step[r].tokens - step[r].rejected
           /\ rows'[r] <= computed[r] + step[r].tokens - step[r].rejected
           /\ computed[r] + step[r].tokens - step[r].rejected <= rows'[r] + Lookahead
           /\ rows'[r] <= computed[r] + step[r].tokens
           /\ computed[r] + step[r].tokens - step[r].rejected \in Nat
           /\ Tokens(r, step) \in Nat /\ rows'[r] <= Tokens(r, step)
           /\ e.table = Grown(r, Tokens(r, step))
<1>1. /\ r \in Req /\ r \in DOMAIN step
      /\ step[r].tokens \in Nat /\ step[r].rejected \in Nat
      /\ step[r].drafts \in Nat /\ step[r].drafts <= Lookahead /\ step[r].reserved \in Nat
      /\ step[r].rejected <= step[r].drafts /\ step[r].rejected <= step[r].tokens
  BY SequencesAssumption DEF Shares
<1>2. /\ rows[r] <= computed[r] /\ computed[r] <= rows[r] + Lookahead
      /\ rows[r] \in Nat /\ computed[r] \in Nat
  BY <1>1, CountAhead DEF Step
<1>3. /\ e.start = computed[r] /\ e.tokens = step[r].tokens + Lookahead
      /\ e.rollback = step[r].drafts + Lookahead /\ e.table = Grown(r, Tokens(r, step))
  BY DEF Entry
<1>4. rows'[r] = rows[r] + step[r].tokens - step[r].rejected
  BY <1>1 DEF Step
<1> DEFINE t == step[r].tokens
           x == step[r].rejected
           d == step[r].drafts
           v == step[r].reserved
<1>5. /\ MinStart(e) = Monus(computed[r], d + Lookahead)
      /\ MinEnd(e) = MinStart(e) + (t + Lookahead)
      /\ MaxEnd(e) = computed[r] + (t + Lookahead)
      /\ Tokens(r, step) = computed[r] + t + v
      /\ rows'[r] = rows[r] + t - x
  BY <1>3, <1>4 DEF MinStart, MinEnd, MaxEnd, Tokens
<1>6. /\ t \in Nat /\ x \in Nat /\ d \in Nat /\ v \in Nat /\ d <= Lookahead
      /\ x <= d /\ x <= t /\ Lookahead \in Nat
  BY <1>1, SequencesAssumption
<1>7. e.rollback = d + Lookahead
  BY <1>3
<1>8. e.table = Grown(r, Tokens(r, step))
  BY <1>3
<1> HIDE DEF t, x, d, v
<1>9. /\ MinStart(e) \in Nat /\ MinEnd(e) \in Nat /\ MaxEnd(e) \in Nat
      /\ rows'[r] \in Nat
  BY <1>2, <1>5, <1>6 DEF Monus
<1>10. MinStart(e) <= rows[r] /\ MinEnd(e) <= MaxEnd(e) /\ rows'[r] <= MaxEnd(e)
  BY <1>2, <1>5, <1>6 DEF Monus
<1>11. MinStart(e) > 0 => MinEnd(e) <= rows'[r] + Lookahead
  BY <1>2, <1>5, <1>6 DEF Monus
<1>12. ~(e.rollback > 0) => MinEnd(e) <= rows'[r] + Lookahead
  BY <1>2, <1>5, <1>6, <1>7 DEF Monus
<1>13. /\ rows'[r] <= computed[r] + t - x /\ computed[r] + t - x <= rows'[r] + Lookahead
       /\ rows'[r] <= computed[r] + t /\ computed[r] + t - x \in Nat
       /\ Tokens(r, step) \in Nat /\ rows'[r] <= Tokens(r, step)
  BY <1>2, <1>5, <1>6
<1> QED
  BY <1>2, <1>4, <1>8, <1>9, <1>10, <1>11, <1>12, <1>13 DEF t, x

\* The table of a step: named, no shorter than before, with room for the rows.
LEMMA EntryTable ==
    ASSUME CountInv, TablesInv, NEW r \in Req, NEW tokens \in Nat,
           NEW n \in Nat, n <= tokens, n < MaxLen
    PROVE  /\ Grown(r, tokens) \in Seq(Req \X Nat)
           /\ Named(r, Grown(r, tokens))
           /\ n <= Len(Grown(r, tokens)) * BlockTokens
           /\ Len(tables[r]) <= Len(Grown(r, tokens))
<1> DEFINE s == Lesser(tokens, MaxLen)
           c == (s + BlockTokens - 1) \div BlockTokens
<1>1. BlockTokens \in Nat \ {0} /\ s \in Nat /\ n <= s
  <2>1. BlockTokens \in Nat \ {0}
    BY Sizes
  <2> QED
    BY <2>1, SequencesAssumption DEF Lesser
<1>2. c \in Nat
  <2> HIDE DEF s
  <2>1. s + BlockTokens - 1 \in Nat
    BY <1>1
  <2> QED
    BY <1>1, <2>1, DivMod
<1>3. Len(tables[r]) \in Nat
  BY DEF CountInv
<1>4. PICK m \in Nat : m = Greater(Len(tables[r]), c) /\ c <= m /\ Len(tables[r]) <= m
  <2> HIDE DEF c
  <2> QED
    BY <1>2, <1>3 DEF Greater
<1>5. Grown(r, tokens) = [k \in 1 .. m |-> <<r, k>>]
  BY <1>4 DEF Grown
<1>6. Grown(r, tokens) \in Seq(Req \X Nat) /\ Len(Grown(r, tokens)) = m
  BY <1>5
<1>7. s <= m * BlockTokens
  <2>1. c <= m
    BY <1>4
  <2> HIDE DEF s
  <2> QED
    BY <2>1, <1>1, CeilCovers
<1>8. n <= m * BlockTokens
  <2>1. m * BlockTokens \in Nat
    BY <1>1
  <2> HIDE DEF s
  <2> QED
    BY <2>1, <1>1, <1>7
<1> QED
  BY <1>4, <1>5, <1>6, <1>8 DEF Named

\* The blocks a scheduled request keeps.
Regrouped(r, e) == GroupBlocks(e, requestBlocks[r], r \in fullContext)

\* What an update makes of the tracker's tables for a scheduled request.
Updated(r, e) ==
    /\ requestBlocks'[r] = Regrouped(r, e)
    /\ r \in fullContext' => HasFullContext(e)
    /\ HasFullContext(e) => r \in fullContext'
    /\ e.rollback > 0 /\ Touched(e) # {} =>
          /\ pendingBlocks'[r] = [b \in DOMAIN TouchedFills(e) |->
                                     CHOOSE k \in Touched(e) : e.table[k + 1] = b]
          /\ DOMAIN TouchedFills(e) \subseteq DOMAIN epochBlocks'[r]
    /\ ~(e.rollback > 0 /\ Touched(e) # {}) => pendingBlocks'[r] = pendingBlocks[r]

LEMMA UpdatedTracker ==
    ASSUME NEW scheduled, Update({}, scheduled), DOMAIN scheduled \subseteq Req,
           NEW r \in DOMAIN scheduled, NEW e, e = scheduled[r]
    PROVE  Updated(r, e)
<1>1. r \in Req /\ r \notin {}
  OBVIOUS
<1>2. requestBlocks'[r] = Regrouped(r, e)
  <2>1. Remaining({})[r] = requestBlocks[r]
    BY <1>1 DEF Remaining
  <2>2. requestBlocks'[r] = GroupBlocks(e, Remaining({})[r], r \in fullContext \ {})
    BY <1>1 DEF Update
  <2>3. fullContext \ {} = fullContext
    OBVIOUS
  <2> QED
    BY <2>1, <2>2, <2>3 DEF Regrouped
<1>3. /\ r \in fullContext' => HasFullContext(e)
      /\ HasFullContext(e) => r \in fullContext'
  BY <1>1 DEF Update
<1> DEFINE touched == [q \in DOMAIN scheduled |-> TouchedFills(scheduled[q])]
           opened  == {q \in DOMAIN scheduled :
                          scheduled[q].rollback > 0 /\ Touched(scheduled[q]) # {}}
<1>4. pendingBlocks' = [q \in Req |->
          IF q \in opened
          THEN LET f == scheduled[q] IN
               [b \in DOMAIN touched[q] |-> CHOOSE k \in Touched(f) : f.table[k + 1] = b]
          ELSE IF q \in {} THEN NoBlocks ELSE pendingBlocks[q]]
  BY DEF Update
<1>5. epochBlocks' = [q \in Req |->
          IF q \in opened
          THEN Merge([b \in DOMAIN touched[q] |-> stepBlocks'[b]],
                     IF HasFullContext(scheduled[q]) THEN NoBlocks ELSE requestBlocks'[q])
          ELSE IF q \in {} THEN NoBlocks ELSE epochBlocks[q]]
  BY DEF Update
<1>6. touched[r] = TouchedFills(e)
  OBVIOUS
<1>7. r \in opened <=> (e.rollback > 0 /\ Touched(e) # {})
  OBVIOUS
<1> HIDE DEF touched, opened
<1>8. r \in opened =>
          /\ pendingBlocks'[r] = [b \in DOMAIN TouchedFills(e) |->
                                      CHOOSE k \in Touched(e) : e.table[k + 1] = b]
          /\ DOMAIN TouchedFills(e) \subseteq DOMAIN epochBlocks'[r]
  BY <1>1, <1>4, <1>5, <1>6 DEF Merge
<1>9. r \notin opened => pendingBlocks'[r] = pendingBlocks[r]
  BY <1>1, <1>4
<1> QED
  BY <1>2, <1>3, <1>7, <1>8, <1>9 DEF Updated

\* A scheduled request keeps all its rows if its whole context is exact.
LEMMA FullKeepsAll ==
    ASSUME NEW r, NEW e, NEW S, NEW previous, NEW wasFull \in BOOLEAN,
           e.table \in Seq(S), Named(r, e.table),
           MinStart(e) \in Nat, MinEnd(e) \in Nat, MaxEnd(e) \in Nat,
           MinEnd(e) <= MaxEnd(e), HasFullContext(e),
           NEW pos \in Nat, IsLocal(pos), pos < MaxEnd(e),
           Place(pos) \in Nat, Place(pos) + 1 \in 1 .. Len(e.table),
           wasFull /\ pos < MinStart(e) => BlockAt(r, pos) \in DOMAIN previous
    PROVE  BlockAt(r, pos) \in DOMAIN GroupBlocks(e, previous, wasFull)
<1>1. e.table[Place(pos) + 1] = BlockAt(r, pos)
  BY NamedBlock DEF BlockAt
<1>2. CASE wasFull
  <2> DEFINE end  == LocalTokens(MinEnd(e))
             n    == NumLogical(e.table, LocalTokens(MaxEnd(e)))
             from == {Monus(Blocks(end), 1)} \cup Touched(e)
             news == {k \in 0 .. n - 1 : \E f \in from : k >= f}
             old  == DOMAIN previous \ {e.table[k + 1] : k \in news}
  <2>1. GroupBlocks(e, previous, wasFull)
          = Merge([b \in old |-> previous[b]], FillsOf(e.table, news, end))
    BY <1>2 DEF GroupBlocks
  <2>2. DOMAIN GroupBlocks(e, previous, wasFull) = old \cup {e.table[k + 1] : k \in news}
    BY <2>1 DEF Merge, FillsOf
  <2>3. CASE pos < MinStart(e)
    BY <1>1, <1>2, <2>2, <2>3
  <2>4. CASE MinStart(e) <= pos
    <3>1. Place(pos) \in Touched(e)
      BY <2>4, TouchedRow
    <3>2. Place(pos) \in 0 .. n - 1
      <4>1. Touched(e) \subseteq Int /\ \A k \in Touched(e) : k <= Lesser((LocalTokens(MaxEnd(e)) - 1) \div Group, n - 1)
        BY DEF Touched
      <4>2. n \in Nat
        <5>1. Blocks(LocalTokens(MaxEnd(e))) \in Nat
          <6>1. LocalTokens(MaxEnd(e)) \in Nat
            BY CountParts
          <6>2. LocalTokens(MaxEnd(e)) + Group - 1 \in Nat /\ Group \in Nat \ {0}
            BY <6>1, GeometryAssumption
          <6> QED
            BY <6>2, DivMod DEF Blocks
        <5>2. Len(e.table) \in Nat
          OBVIOUS
        <5> QED
          BY <5>1, <5>2 DEF NumLogical, Lesser
      <4>3. (LocalTokens(MaxEnd(e)) - 1) \div Group \in Int
        <5>1. LocalTokens(MaxEnd(e)) \in Nat
          BY CountParts
        <5> QED
          BY <5>1, GeometryAssumption
      <4>4. Place(pos) <= Lesser((LocalTokens(MaxEnd(e)) - 1) \div Group, n - 1)
        BY <3>1, <4>1
      <4> HIDE DEF n
      <4> QED
        BY <4>2, <4>3, <4>4 DEF Lesser
    <3>3. Place(pos) \in news
      BY <3>1, <3>2
    <3> HIDE DEF news, old
    <3> QED
      BY <1>1, <2>2, <3>3
  <2> QED
    BY <2>3, <2>4
<1>3. CASE ~wasFull
  <2> DEFINE tail == Monus(MinEnd(e), PrecisionTail)
  <2>1. GroupBlocks(e, previous, wasFull)
          = PersistentBlocks(e.table, LocalTokens(MinEnd(e)), LocalTokens(MaxEnd(e)),
                             LocalTokens(tail))
    BY <1>3 DEF GroupBlocks
  <2>2. tail \in Nat
    BY GeometryAssumption DEF Monus
  <2>3. pos < Boundary \/ (PrecisionTail > 0 /\ tail <= pos)
    <3>1. Boundary + PrecisionTail >= MaxEnd(e)
      BY DEF HasFullContext
    <3> QED
      BY <3>1, GeometryAssumption DEF Monus
  <2> HIDE DEF tail
  <2> QED
    BY <1>1, <2>1, <2>2, <2>3, PersistentRow
<1> QED
  BY <1>2, <1>3

\* Any other keeps the sink, and the tail as far as nothing was touched.
LEMMA OthersKeepExact ==
    ASSUME NEW r, NEW e, NEW S, NEW previous, NEW wasFull \in BOOLEAN,
           e.table \in Seq(S), Named(r, e.table),
           MinEnd(e) \in Nat, MaxEnd(e) \in Nat, ~HasFullContext(e),
           NEW pos \in Nat, IsLocal(pos), pos < MaxEnd(e),
           Place(pos) \in Nat, Place(pos) + 1 \in 1 .. Len(e.table),
           pos < Boundary \/ (PrecisionTail > 0 /\ Monus(MinEnd(e), PrecisionTail) <= pos)
    PROVE  BlockAt(r, pos) \in DOMAIN GroupBlocks(e, previous, wasFull)
<1> DEFINE tail == Monus(MinEnd(e), PrecisionTail)
<1>1. e.table[Place(pos) + 1] = BlockAt(r, pos)
  BY NamedBlock DEF BlockAt
<1>2. GroupBlocks(e, previous, wasFull)
        = PersistentBlocks(e.table, LocalTokens(MinEnd(e)), LocalTokens(MaxEnd(e)),
                           LocalTokens(tail))
  BY DEF GroupBlocks
<1>3. tail \in Nat
  BY GeometryAssumption DEF Monus
<1>4. pos < Boundary \/ (PrecisionTail > 0 /\ tail <= pos)
  OBVIOUS
<1> HIDE DEF tail
<1> QED
  BY <1>1, <1>2, <1>3, <1>4, PersistentRow

-----------------------------------------------------------------------------
(* The steps. *)

PrecisionInv == CountInv /\ TablesInv /\ EndsInv /\ KeptInv /\ NeededInv

\* What a step makes of a scheduled request.
Handled(r, e) ==
    /\ e.table \in Seq(Req \X Nat) /\ Named(r, e.table) /\ tables'[r] = e.table
    /\ rows'[r] <= Len(e.table) * BlockTokens
    /\ Len(tables[r]) <= Len(e.table)
    /\ DOMAIN Regrouped(r, e) \subseteq DOMAIN requestBlocks'[r]
    /\ r \in fullContext' => HasFullContext(e)
    /\ HasFullContext(e) => r \in fullContext'
    /\ e.rollback > 0 /\ Touched(e) # {} =>
          /\ DOMAIN pendingBlocks'[r] = DOMAIN TouchedFills(e)
          /\ \A b \in DOMAIN pendingBlocks'[r] :
                pendingBlocks'[r][b] \in Nat /\ b = <<r, pendingBlocks'[r][b] + 1>>
          /\ DOMAIN TouchedFills(e) \subseteq DOMAIN epochBlocks'[r]
    /\ ~(e.rollback > 0 /\ Touched(e) # {}) => pendingBlocks'[r] = pendingBlocks[r]

\* Touched blocks are known by their place in the table.
LEMMA TouchedNames ==
    ASSUME NEW r, NEW e, NEW S, e.table \in Seq(S), Named(r, e.table),
           MinStart(e) \in Nat, MaxEnd(e) \in Nat,
           NEW k \in Touched(e), NEW b, e.table[k + 1] = b
    PROVE  k \in Nat /\ b = <<r, k + 1>>
<1> DEFINE first == LocalTokens(MinStart(e))
           last  == LocalTokens(MaxEnd(e))
           n     == NumLogical(e.table, last)
<1>2. first \in Nat /\ last \in Nat
  BY CountParts
<1>3. k \in first \div Group .. Lesser((last - 1) \div Group, n - 1)
  BY DEF Touched
<1>4. first \div Group \in Nat /\ (last - 1) \div Group \in Int
  <2> HIDE DEF first, last
  <2>1. Group \in Nat \ {0}
    BY GeometryAssumption
  <2>2. first \div Group \in Nat
    BY <1>2, <2>1, DivMod
  <2>3. (last - 1) \div Group \in Int
    BY <1>2, <2>1
  <2> QED
    BY <2>2, <2>3
<1>5. n \in Int /\ n <= Len(e.table) /\ Len(e.table) \in Nat
  <2>1. Blocks(last) \in Int
    <3> HIDE DEF last
    <3> QED
      BY <1>2, GeometryAssumption DEF Blocks
  <2>2. Len(e.table) \in Nat
    OBVIOUS
  <2> HIDE DEF last
  <2> QED
    BY <2>1, <2>2 DEF NumLogical, Lesser
<1> HIDE DEF first, last, n
<1>6. k \in Nat /\ k + 1 \in 1 .. Len(e.table)
  BY <1>3, <1>4, <1>5 DEF Lesser
<1>7. e.table[k + 1] = <<r, k + 1>>
  BY <1>6, NamedBlock
<1> QED
  BY <1>6, <1>7

LEMMA ScheduledRequest ==
    ASSUME CountInv, TablesInv, NEW R \in SUBSET Req, NEW step \in [R -> Shares],
           Step(step), \A r \in R : computed[r] + step[r].tokens < MaxLen,
           NEW r \in R, NEW e, e = Entry(r, step, Grown(r, Tokens(r, step)))
    PROVE  Handled(r, e)
<1> DEFINE new == [q \in Req |-> IF q \in DOMAIN step
                      THEN Grown(q, computed[q] + step[q].tokens + step[q].reserved)
                      ELSE tables[q]]
           scheduled == [q \in DOMAIN step |-> Entry(q, step, new[q])]
<1>1. r \in Req /\ r \in DOMAIN step /\ DOMAIN scheduled \subseteq Req /\ r \in DOMAIN scheduled
  OBVIOUS
<1>2. new[r] = Grown(r, Tokens(r, step)) /\ tables' = new
  BY <1>1 DEF Step, Tokens
<1>3. scheduled[r] = e
  BY <1>1, <1>2
<1>4. Update({}, scheduled)
  BY DEF Step
<1>5. e.table = Grown(r, Tokens(r, step))
  BY EntryEnds
<1>6. /\ Tokens(r, step) \in Nat /\ rows'[r] \in Nat /\ rows'[r] <= Tokens(r, step)
      /\ rows'[r] <= computed[r] + step[r].tokens
  BY EntryEnds
<1>7. rows'[r] < MaxLen
  <2>1. computed[r] \in Nat /\ step[r].tokens \in Nat
    BY <1>1, SequencesAssumption DEF CountInv, Shares
  <2> QED
    BY <1>6, <2>1, SequencesAssumption
<1>8. /\ e.table \in Seq(Req \X Nat) /\ Named(r, e.table)
      /\ rows'[r] <= Len(e.table) * BlockTokens /\ Len(tables[r]) <= Len(e.table)
  BY <1>1, <1>5, <1>6, <1>7, EntryTable
<1>9. tables'[r] = e.table
  BY <1>2, <1>5
<1> HIDE DEF new, scheduled
<1>10. Updated(r, e)
  BY <1>1, <1>3, <1>4, UpdatedTracker
<1>11. e.rollback > 0 /\ Touched(e) # {} =>
          /\ pendingBlocks'[r] = [b \in DOMAIN TouchedFills(e) |->
                                     CHOOSE k \in Touched(e) : e.table[k + 1] = b]
          /\ DOMAIN TouchedFills(e) \subseteq DOMAIN epochBlocks'[r]
  BY <1>10 DEF Updated
<1>13. MinStart(e) \in Nat /\ MaxEnd(e) \in Nat
  BY EntryEnds
<1>14. ASSUME e.rollback > 0 /\ Touched(e) # {}
       PROVE  /\ DOMAIN pendingBlocks'[r] = DOMAIN TouchedFills(e)
              /\ \A b \in DOMAIN pendingBlocks'[r] :
                    pendingBlocks'[r][b] \in Nat /\ b = <<r, pendingBlocks'[r][b] + 1>>
  <2> SUFFICES ASSUME NEW b \in DOMAIN TouchedFills(e)
               PROVE  pendingBlocks'[r][b] \in Nat /\ b = <<r, pendingBlocks'[r][b] + 1>>
    BY <1>11, <1>14
  <2>1. pendingBlocks'[r][b] = CHOOSE k \in Touched(e) : e.table[k + 1] = b
    BY <1>11, <1>14
  <2>2. PICK k : k = CHOOSE j \in Touched(e) : e.table[j + 1] = b
    OBVIOUS
  <2>3. e.table \in Seq(Req \X Nat) /\ Named(r, e.table)
    BY <1>8
  <2>4. k \in Touched(e) /\ e.table[k + 1] = b
    BY <2>2 DEF TouchedFills, FillsOf
  <2>5. k \in Nat /\ b = <<r, k + 1>>
    BY <1>13, <2>3, <2>4, TouchedNames
  <2> QED
    BY <2>1, <2>2, <2>5
<1> QED
  BY <1>8, <1>9, <1>10, <1>14 DEF Handled, Updated

\* A scheduled request has its exact rows in what it keeps or has touched.
LEMMA ScheduledKeeps ==
    ASSUME PrecisionInv, NEW R \in SUBSET Req, NEW step \in [R -> Shares],
           Step(step), \A r \in R : computed[r] + step[r].tokens < MaxLen,
           NEW r \in R
    PROVE  /\ \A pos \in Nat : r \in fullContext' /\ IsLocal(pos) /\ pos < rows'[r]
                => BlockAt(r, pos) \in DOMAIN requestBlocks'[r]
           /\ \A pos \in Nat : ExactRow(r, pos)'
                => BlockAt(r, pos) \in DOMAIN requestBlocks'[r] \cup Open(r)'
<1> DEFINE e0 == Entry(r, step, Grown(r, Tokens(r, step)))
<1>0. PICK e : e = e0
  OBVIOUS
<1> HIDE DEF e0
<1>1. e = Entry(r, step, Grown(r, Tokens(r, step)))
  BY <1>0 DEF e0
<1>2. /\ MinStart(e) \in Nat /\ MinEnd(e) \in Nat /\ MaxEnd(e) \in Nat
      /\ rows[r] \in Nat /\ rows'[r] \in Nat
      /\ MinStart(e) <= rows[r] /\ MinEnd(e) <= MaxEnd(e) /\ rows'[r] <= MaxEnd(e)
      /\ MinStart(e) > 0 => MinEnd(e) <= rows'[r] + Lookahead
      /\ ~(e.rollback > 0) => MinEnd(e) <= rows'[r] + Lookahead
  BY <1>1, EntryEnds DEF PrecisionInv
<1>3. /\ e.table \in Seq(Req \X Nat) /\ Named(r, e.table)
      /\ rows'[r] <= Len(e.table) * BlockTokens
      /\ DOMAIN Regrouped(r, e) \subseteq DOMAIN requestBlocks'[r]
      /\ r \in fullContext' => HasFullContext(e)
      /\ HasFullContext(e) => r \in fullContext'
      /\ e.rollback > 0 /\ Touched(e) # {} =>
            /\ DOMAIN pendingBlocks'[r] = DOMAIN TouchedFills(e)
            /\ DOMAIN TouchedFills(e) \subseteq DOMAIN epochBlocks'[r]
  <2>1. CountInv /\ TablesInv
    BY DEF PrecisionInv
  <2>2. Handled(r, e)
    BY <1>1, <2>1, ScheduledRequest
  <2> QED
    BY <2>2 DEF Handled
<1>4. ASSUME NEW pos \in Nat, pos < rows'[r]
      PROVE  /\ Place(pos) \in Nat /\ Place(pos) + 1 \in 1 .. Len(e.table)
             /\ pos < MaxEnd(e) /\ e.table[Place(pos) + 1] = BlockAt(r, pos)
  <2>1. Len(e.table) \in Nat
    BY <1>3
  <2>2. Len(e.table) * BlockTokens \in Nat
    <3>1. \A m \in Nat : m * BlockTokens \in Nat
      BY Sizes
    <3> QED
      BY <2>1, <3>1
  <2>3. pos < Len(e.table) * BlockTokens
    BY <1>2, <1>3, <1>4, <2>2
  <2>4. Place(pos) \in Nat /\ Place(pos) + 1 \in 1 .. Len(e.table)
    BY <2>1, <2>3, PlaceBound
  <2>5. e.table[Place(pos) + 1] = BlockAt(r, pos)
    BY <1>3, <2>4, NamedBlock DEF BlockAt
  <2>6. pos < MaxEnd(e)
    BY <1>2, <1>4
  <2> QED
    BY <2>4, <2>5, <2>6
<1>5. ASSUME NEW pos \in Nat, HasFullContext(e), IsLocal(pos), pos < rows'[r]
      PROVE  BlockAt(r, pos) \in DOMAIN requestBlocks'[r]
  <2>1. r \in fullContext /\ pos < MinStart(e) => BlockAt(r, pos) \in DOMAIN requestBlocks[r]
    <3>1. pos < MinStart(e) => pos < rows[r]
      BY <1>2
    <3>2. r \in Req
      OBVIOUS
    <3> QED
      BY <1>5, <3>1, <3>2 DEF PrecisionInv, KeptInv
  <2>2. (r \in fullContext) \in BOOLEAN
    OBVIOUS
  <2>3. /\ e.table \in Seq(Req \X Nat) /\ Named(r, e.table)
        /\ DOMAIN Regrouped(r, e) \subseteq DOMAIN requestBlocks'[r]
    BY <1>3
  <2>4. /\ pos < MaxEnd(e) /\ Place(pos) \in Nat /\ Place(pos) + 1 \in 1 .. Len(e.table)
    BY <1>4, <1>5
  <2>5. BlockAt(r, pos) \in DOMAIN GroupBlocks(e, requestBlocks[r], r \in fullContext)
    BY <1>2, <1>5, <2>1, <2>2, <2>3, <2>4, FullKeepsAll
  <2> QED
    BY <2>3, <2>5 DEF Regrouped
<1>6. ASSUME NEW pos \in Nat, ExactRow(r, pos)'
      PROVE  BlockAt(r, pos) \in DOMAIN requestBlocks'[r] \cup Open(r)'
  <2>1. /\ IsLocal(pos) /\ pos < rows'[r]
        /\ \/ pos < Boundary
           \/ PrecisionTail > 0 /\ Monus(rows'[r] + Lookahead, PrecisionTail) <= pos
    BY <1>6 DEF ExactRow
  <2>2. CASE HasFullContext(e)
    BY <1>5, <2>1, <2>2
  <2>3. CASE ~HasFullContext(e) /\ MinStart(e) <= pos /\ e.rollback > 0
    <3>1. Place(pos) \in Touched(e)
      BY <1>2, <1>3, <1>4, <2>1, <2>3, TouchedRow
    <3>2. BlockAt(r, pos) \in DOMAIN TouchedFills(e)
      BY <1>4, <2>1, <3>1 DEF TouchedFills, FillsOf
    <3>3. /\ DOMAIN pendingBlocks'[r] = DOMAIN TouchedFills(e)
          /\ DOMAIN TouchedFills(e) \subseteq DOMAIN epochBlocks'[r]
      BY <1>3, <2>3, <3>1
    <3>4. Open(r)' = DOMAIN epochBlocks'[r]
      BY <3>2, <3>3 DEF Open
    <3> QED
      BY <3>2, <3>3, <3>4
  <2>4. CASE ~HasFullContext(e) /\ (pos < MinStart(e) \/ ~(e.rollback > 0))
    <3>1. MinEnd(e) <= rows'[r] + Lookahead
      <4>1. pos < MinStart(e) => MinStart(e) > 0
        BY <1>2
      <4> QED
        BY <1>2, <2>4, <4>1
    <3>2. pos < Boundary \/ (PrecisionTail > 0 /\ Monus(MinEnd(e), PrecisionTail) <= pos)
      BY <1>2, <2>1, <3>1, SequencesAssumption, GeometryAssumption DEF Monus
    <3>3. (r \in fullContext) \in BOOLEAN
      OBVIOUS
    <3> QED
      BY <1>2, <1>3, <1>4, <2>1, <2>4, <3>2, <3>3, OthersKeepExact DEF Regrouped
  <2> QED
    BY <1>2, <2>2, <2>3, <2>4
<1> QED
  BY <1>3, <1>5, <1>6

\* The snapshot names what the requests keep and what their epochs add.
LEMMA SnapshotCovers ==
    ASSUME NEW step, Step(step), NEW r \in Req
    PROVE  DOMAIN requestBlocks'[r] \cup Open(r)' \subseteq needed'
<1>1. needed' = DOMAIN BlockFills'
  BY DEF Step
<1>2. DOMAIN requestBlocks' = Req /\ DOMAIN epochBlocks' = Req
  BY DEF Step, Update
<1>3. DOMAIN requestBlocks'[r] \subseteq DOMAIN MergeAll(requestBlocks)'
  BY <1>2 DEF MergeAll
<1>4. DOMAIN epochBlocks'[r] \subseteq DOMAIN MergeAll(epochBlocks)'
  BY <1>2 DEF MergeAll
<1>5. DOMAIN BlockFills' = (DOMAIN stepBlocks' \cup DOMAIN MergeAll(requestBlocks)')
            \cup (DOMAIN MergeAll(epochBlocks)' \cup DOMAIN MergeAll(resolvedBlocks)')
  BY DEF BlockFills, Merge
<1>6. Open(r)' \subseteq DOMAIN epochBlocks'[r]
  BY DEF Open
<1> QED
  BY <1>1, <1>3, <1>4, <1>5, <1>6

\* A request that is not scheduled is left as it is.
LEMMA OthersUntouched ==
    ASSUME CountInv, NEW R \in SUBSET Req, NEW step \in [R -> Shares], Step(step),
           NEW r \in Req, r \notin R
    PROVE  /\ tables'[r] = tables[r] /\ rows'[r] = rows[r]
           /\ requestBlocks'[r] = requestBlocks[r] /\ pendingBlocks'[r] = pendingBlocks[r]
           /\ r \in fullContext' <=> r \in fullContext
<1> DEFINE new == [q \in Req |-> IF q \in DOMAIN step
                      THEN Grown(q, computed[q] + step[q].tokens + step[q].reserved)
                      ELSE tables[q]]
           scheduled == [q \in DOMAIN step |-> Entry(q, step, new[q])]
<1>1. r \notin DOMAIN step /\ r \notin DOMAIN scheduled /\ r \notin {}
  OBVIOUS
<1>2. Update({}, scheduled)
  BY DEF Step
<1>3. tables'[r] = tables[r] /\ rows'[r] = rows[r]
  BY <1>1 DEF Step, CountInv
<1> HIDE DEF scheduled, new
<1>4. requestBlocks'[r] = requestBlocks[r]
  BY <1>1, <1>2 DEF Update, Remaining
<1>5. pendingBlocks'[r] = pendingBlocks[r]
  BY <1>1, <1>2 DEF Update
<1>6. r \in fullContext' <=> r \in fullContext
  BY <1>1, <1>2 DEF Update
<1> QED
  BY <1>3, <1>4, <1>5, <1>6

\* A batch can be scheduled only when no end is awaited.
LEMMA NothingPending ==
    ASSUME EndsInv, NEW step, Step(step), NEW r \in Req
    PROVE  DOMAIN pendingBlocks[r] = {} /\ Open(r) = {}
<1>1. unsettled = << >>
  BY DEF Step, NoEnds
<1>2. r \notin DOMAIN unsettled
  BY <1>1
<1> QED
  BY <1>2 DEF EndsInv, Open

LEMMA StepPrecision ==
    ASSUME PrecisionInv, NEW R \in SUBSET Req, NEW step \in [R -> Shares],
           Step(step), \A r \in R : computed[r] + step[r].tokens < MaxLen
    PROVE  PrecisionInv'
<1>1. CountInv'
  BY StepCounts DEF PrecisionInv
<1> DEFINE E(r) == Entry(r, step, Grown(r, Tokens(r, step)))
<1>2. ASSUME NEW r \in R
      PROVE  \E e : e = E(r) /\ Handled(r, e)
  <2>1. PICK e : e = E(r)
    OBVIOUS
  <2>2. CountInv /\ TablesInv
    BY DEF PrecisionInv
  <2>3. Handled(r, e)
    BY <2>1, <2>2, ScheduledRequest
  <2> QED
    BY <2>1, <2>3
<1>3. ASSUME NEW r \in Req, r \notin R
      PROVE  /\ tables'[r] = tables[r] /\ rows'[r] = rows[r]
             /\ requestBlocks'[r] = requestBlocks[r] /\ pendingBlocks'[r] = pendingBlocks[r]
             /\ r \in fullContext' => r \in fullContext
  BY <1>3, OthersUntouched DEF PrecisionInv
<1>4. ASSUME NEW r \in Req
      PROVE  DOMAIN pendingBlocks[r] = {} /\ Open(r) = {}
  BY NothingPending DEF PrecisionInv
<1>5. TablesInv'
  <2> SUFFICES ASSUME NEW r \in Req
               PROVE  Named(r, tables'[r]) /\ rows'[r] <= Len(tables'[r]) * BlockTokens
    BY DEF TablesInv, Named
  <2>1. CASE r \in R
    BY <1>2, <2>1 DEF Handled
  <2>2. CASE r \notin R
    BY <1>3, <2>2 DEF PrecisionInv, TablesInv
  <2> QED
    BY <2>1, <2>2
<1>6. EndsInv'
  <2>1. unsettled' = [r \in R |-> computed[r] + step[r].tokens - step[r].rejected]
    BY DEF Step
  <2>2. ASSUME NEW r \in DOMAIN unsettled'
        PROVE  /\ unsettled'[r] \in Nat
               /\ rows'[r] <= unsettled'[r] /\ unsettled'[r] <= rows'[r] + Lookahead
    <3>1. r \in R
      BY <2>1
    <3>2. PICK e : e = E(r)
      OBVIOUS
    <3>3. /\ rows'[r] <= computed[r] + step[r].tokens - step[r].rejected
          /\ computed[r] + step[r].tokens - step[r].rejected <= rows'[r] + Lookahead
          /\ computed[r] + step[r].tokens - step[r].rejected \in Nat
      BY <3>1, <3>2, EntryEnds DEF PrecisionInv
    <3> QED
      BY <2>1, <3>1, <3>3
  <2>3. ASSUME NEW r \in Req
        PROVE  /\ DOMAIN pendingBlocks'[r] # {} => r \in DOMAIN unsettled'
               /\ \A b \in DOMAIN pendingBlocks'[r] :
                     pendingBlocks'[r][b] \in Nat /\ b = <<r, pendingBlocks'[r][b] + 1>>
    <3>1. CASE r \in R
      <4>1. PICK e : Handled(r, e)
        BY <1>2, <3>1
      <4>2. r \in DOMAIN unsettled'
        BY <2>1, <3>1
      <4> QED
        BY <1>4, <4>1, <4>2 DEF Handled
    <3>2. CASE r \notin R
      BY <1>3, <1>4, <3>2
    <3> QED
      BY <3>1, <3>2
  <2>4. DOMAIN unsettled' \subseteq Req
    BY <2>1
  <2> QED
    BY <2>2, <2>3, <2>4 DEF EndsInv
<1>7. ASSUME NEW r \in Req, NEW pos \in Nat, r \in fullContext', IsLocal(pos), pos < rows'[r]
      PROVE  BlockAt(r, pos) \in DOMAIN requestBlocks'[r]
  <2>1. CASE r \in R
    BY <1>7, <2>1, ScheduledKeeps
  <2>2. CASE r \notin R
    BY <1>3, <1>7, <2>2 DEF PrecisionInv, KeptInv
  <2> QED
    BY <2>1, <2>2
<1>8. ASSUME NEW r \in Req, NEW pos \in Nat, ExactRow(r, pos)'
      PROVE  BlockAt(r, pos) \in DOMAIN requestBlocks'[r] \cup Open(r)'
  <2>1. CASE r \in R
    BY <1>8, <2>1, ScheduledKeeps
  <2>2. CASE r \notin R
    <3>1. ExactRow(r, pos)
      BY <1>3, <1>8, <2>2 DEF ExactRow
    <3>2. BlockAt(r, pos) \in DOMAIN requestBlocks[r]
      BY <1>4, <3>1 DEF PrecisionInv, KeptInv
    <3> QED
      BY <1>3, <2>2, <3>2
  <2> QED
    BY <2>1, <2>2
<1>9. KeptInv'
  BY <1>7, <1>8 DEF KeptInv, BlockAt
<1>10. NeededInv'
  <2> SUFFICES ASSUME NEW r \in Req, NEW pos \in Nat, ExactRow(r, pos)'
               PROVE  BlockAt(r, pos) \in needed'
    BY DEF NeededInv, BlockAt
  <2> QED
    BY <1>8, SnapshotCovers
<1> QED
  BY <1>1, <1>5, <1>6, <1>9, <1>10 DEF PrecisionInv

\* The reported end of a request leaves its exact rows in what it keeps.
LEMMA SettledKeeps ==
    ASSUME PrecisionInv, Settle, NEW r \in Req,
           r \in DOMAIN unsettled, DOMAIN pendingBlocks[r] # {}
    PROVE  /\ \A pos \in Nat : r \in fullContext /\ IsLocal(pos) /\ pos < rows[r]
                => BlockAt(r, pos) \in DOMAIN requestBlocks'[r]
           /\ \A pos \in Nat : ExactRow(r, pos)
                => BlockAt(r, pos) \in DOMAIN requestBlocks'[r]
<1> DEFINE end == unsettled[r]
<1>1. requestBlocks'[r] = Rebuilt(r, tables[r], end)
  BY DEF Settle, ResolveAsync
<1>2. /\ end \in Nat /\ rows[r] <= end /\ end <= rows[r] + Lookahead /\ rows[r] \in Nat
      /\ Named(r, tables[r]) /\ tables[r] \in Seq(Req \X Nat)
      /\ rows[r] <= Len(tables[r]) * BlockTokens
  BY DEF PrecisionInv, EndsInv, CountInv, TablesInv
<1> HIDE DEF end
<1>3. ASSUME NEW pos \in Nat, pos < rows[r]
      PROVE  /\ Place(pos) \in Nat /\ Place(pos) + 1 \in 1 .. Len(tables[r])
             /\ tables[r][Place(pos) + 1] = BlockAt(r, pos) /\ pos < end
  <2>1. Len(tables[r]) \in Nat
    BY <1>2
  <2>2. Len(tables[r]) * BlockTokens \in Nat
    <3>1. \A m \in Nat : m * BlockTokens \in Nat
      BY Sizes
    <3> QED
      BY <2>1, <3>1
  <2>3. pos < Len(tables[r]) * BlockTokens
    BY <1>2, <1>3, <2>2
  <2>4. Place(pos) \in Nat /\ Place(pos) + 1 \in 1 .. Len(tables[r])
    BY <2>1, <2>3, PlaceBound
  <2>5. tables[r][Place(pos) + 1] = BlockAt(r, pos)
    BY <1>2, <2>4, NamedBlock DEF BlockAt
  <2>6. pos < end
    BY <1>2, <1>3
  <2> QED
    BY <2>4, <2>5, <2>6
<1>4. CASE r \in fullContext
  <2> SUFFICES ASSUME NEW pos \in Nat, IsLocal(pos), pos < rows[r]
               PROVE  BlockAt(r, pos) \in DOMAIN requestBlocks'[r]
    BY <1>4 DEF ExactRow
  <2> DEFINE b == BlockAt(r, pos)
  <2>1. b \in DOMAIN requestBlocks[r]
    BY <1>4 DEF PrecisionInv, KeptInv
  <2>2. DOMAIN Rebuilt(r, tables[r], end)
          = (DOMAIN requestBlocks[r] \ DOMAIN pendingBlocks[r]) \cup DOMAIN Corrected(r, end)
    BY <1>4 DEF Rebuilt, Merge
  <2>3. CASE b \notin DOMAIN pendingBlocks[r]
    BY <1>1, <2>1, <2>2, <2>3
  <2>4. CASE b \in DOMAIN pendingBlocks[r]
    <3> DEFINE k == pendingBlocks[r][b]
    <3>1. k \in Nat /\ b = <<r, k + 1>>
      BY <2>4 DEF PrecisionInv, EndsInv
    <3>2. k = Place(pos) /\ k = LocalTokens(pos) \div Group
      <4>1. Place(pos) \in Nat /\ k + 1 = Place(pos) + 1
        BY <1>3, <3>1 DEF BlockAt
      <4>2. k = Place(pos)
        <5> HIDE DEF k
        <5> QED
          BY <3>1, <4>1
      <4> QED
        BY <4>2, LocalBlock DEF Place
    <3>3. /\ LocalTokens(pos) \in Nat /\ LocalTokens(end) \in Nat
          /\ LocalTokens(pos) < LocalTokens(end)
      <4>1. LocalTokens(pos) \in Nat /\ LocalTokens(end) \in Nat
        BY <1>2, CountParts
      <4>2. LocalTokens(pos + 1) = LocalTokens(pos) + 1
        BY LocalRow
      <4>3. LocalTokens(pos + 1) <= LocalTokens(end)
        <5>1. pos + 1 <= end
          BY <1>2, <1>3
        <5> QED
          BY <1>2, <5>1, CountMonotone
      <4> QED
        BY <4>1, <4>2, <4>3
    <3>4. Group * k <= LocalTokens(pos)
      BY <3>2, <3>3, RowBlock
    <3>5. BlockFill(LocalTokens(end), k) > 0
      <4>1. Group * k = k * Group /\ k * Group \in Nat /\ Group \in Nat \ {0}
        <5> HIDE DEF k
        <5> QED
          BY <3>1, GeometryAssumption
      <4> HIDE DEF k
      <4> QED
        BY <3>3, <3>4, <4>1 DEF BlockFill, Lesser, Monus
    <3>6. b \in DOMAIN Corrected(r, end)
      BY <2>4, <3>5 DEF Corrected
    <3> QED
      BY <1>1, <2>2, <3>6
  <2> QED
    BY <2>3, <2>4
<1>5. CASE r \notin fullContext
  <2> SUFFICES ASSUME NEW pos \in Nat, ExactRow(r, pos)
               PROVE  BlockAt(r, pos) \in DOMAIN requestBlocks'[r]
    BY <1>5
  <2> DEFINE tail == Monus(end, PrecisionTail)
  <2>1. requestBlocks'[r] = PersistentBlocks(tables[r], LocalTokens(end), LocalTokens(end),
                                             LocalTokens(tail))
    BY <1>1, <1>5 DEF Rebuilt
  <2>2. IsLocal(pos) /\ pos < rows[r]
    BY DEF ExactRow
  <2>3. tail \in Nat /\ (pos < Boundary \/ (PrecisionTail > 0 /\ tail <= pos))
    BY <1>2, SequencesAssumption, GeometryAssumption DEF ExactRow, Monus
  <2>4. /\ Place(pos) + 1 \in 1 .. Len(tables[r])
        /\ tables[r][Place(pos) + 1] = BlockAt(r, pos) /\ pos < end
    BY <1>3, <2>2
  <2> HIDE DEF tail
  <2>5. tables[r][Place(pos) + 1]
          \in DOMAIN PersistentBlocks(tables[r], LocalTokens(end), LocalTokens(end),
                                      LocalTokens(tail))
    BY <1>2, <2>2, <2>3, <2>4, PersistentRow
  <2> QED
    BY <2>1, <2>4, <2>5
<1> QED
  BY <1>4, <1>5

LEMMA SettlePrecision ==
    ASSUME PrecisionInv, Settle
    PROVE  PrecisionInv'
<1>1. /\ rows' = rows /\ computed' = computed /\ tables' = tables
      /\ unreported' = unreported /\ needed' = needed /\ dropped' = dropped
      /\ fullContext' = fullContext /\ unsettled' = << >>
  BY DEF Settle, ResolveAsync, NoEnds
<1>2. CountInv' /\ TablesInv'
  BY <1>1 DEF PrecisionInv, CountInv, TablesInv, InFlight, Depth, Named
<1>3. ASSUME NEW r \in Req
      PROVE  /\ pendingBlocks'[r] = IF r \in DOMAIN unsettled THEN NoBlocks ELSE pendingBlocks[r]
             /\ ~(r \in DOMAIN unsettled /\ DOMAIN pendingBlocks[r] # {})
                   => requestBlocks'[r] = requestBlocks[r]
  BY DEF Settle, ResolveAsync
<1>4. ASSUME NEW r \in Req
      PROVE  DOMAIN pendingBlocks'[r] = {}
  <2>1. DOMAIN NoBlocks = {}
    BY DEF NoBlocks
  <2>2. DOMAIN pendingBlocks[r] # {} => r \in DOMAIN unsettled
    BY DEF PrecisionInv, EndsInv
  <2> QED
    BY <1>3, <2>1, <2>2
<1>5. EndsInv'
  <2>1. DOMAIN unsettled' = {}
    BY <1>1
  <2> QED
    BY <1>4, <2>1 DEF EndsInv
<1>6. ASSUME NEW r \in Req, NEW pos \in Nat, r \in fullContext', IsLocal(pos), pos < rows'[r]
      PROVE  BlockAt(r, pos) \in DOMAIN requestBlocks'[r]
  <2>1. CASE r \in DOMAIN unsettled /\ DOMAIN pendingBlocks[r] # {}
    BY <1>1, <1>6, <2>1, SettledKeeps
  <2>2. CASE ~(r \in DOMAIN unsettled /\ DOMAIN pendingBlocks[r] # {})
    BY <1>1, <1>3, <1>6, <2>2 DEF PrecisionInv, KeptInv
  <2> QED
    BY <2>1, <2>2
<1>7. ASSUME NEW r \in Req, NEW pos \in Nat, ExactRow(r, pos)'
      PROVE  BlockAt(r, pos) \in DOMAIN requestBlocks'[r]
  <2>1. ExactRow(r, pos)
    BY <1>1, <1>7 DEF ExactRow
  <2>2. CASE r \in DOMAIN unsettled /\ DOMAIN pendingBlocks[r] # {}
    BY <2>1, <2>2, SettledKeeps
  <2>3. CASE ~(r \in DOMAIN unsettled /\ DOMAIN pendingBlocks[r] # {})
    <3>1. DOMAIN pendingBlocks[r] = {}
      BY <2>3 DEF PrecisionInv, EndsInv
    <3>2. BlockAt(r, pos) \in DOMAIN requestBlocks[r]
      BY <2>1, <3>1 DEF PrecisionInv, KeptInv, Open
    <3> QED
      BY <1>3, <2>3, <3>2
  <2> QED
    BY <2>2, <2>3
<1>8. KeptInv'
  BY <1>6, <1>7 DEF KeptInv, BlockAt
<1>9. NeededInv'
  BY <1>1 DEF PrecisionInv, NeededInv, ExactRow, BlockAt
<1> QED
  BY <1>2, <1>5, <1>8, <1>9 DEF PrecisionInv

LEMMA PrecisionInit == Init => PrecisionInv
<1> SUFFICES ASSUME Init PROVE PrecisionInv
  OBVIOUS
<1>1. CountInv
  BY CountInit
<1>2. ASSUME NEW r \in Req
      PROVE  /\ rows[r] = 0 /\ tables[r] = << >> /\ pendingBlocks[r] = << >>
             /\ Len(tables[r]) = 0
  BY DEF Init, TrackerInit, Nothing, NoBlocks
<1>3. TablesInv
  <2> SUFFICES ASSUME NEW r \in Req
               PROVE  Named(r, tables[r]) /\ rows[r] <= Len(tables[r]) * BlockTokens
    BY DEF TablesInv
  <2>1. 0 * BlockTokens = 0
    BY Sizes
  <2>2. [k \in 1 .. 0 |-> <<r, k>>] = << >>
    OBVIOUS
  <2> QED
    BY <1>2, <2>1, <2>2 DEF Named
<1>4. EndsInv
  BY <1>2 DEF Init, EndsInv, NoEnds
<1>5. KeptInv /\ NeededInv
  BY <1>2 DEF KeptInv, NeededInv, ExactRow
<1> QED
  BY <1>1, <1>3, <1>4, <1>5 DEF PrecisionInv

LEMMA PrecisionStep == PrecisionInv /\ [Next]_vars => PrecisionInv'
<1> SUFFICES ASSUME PrecisionInv, [Next]_vars PROVE PrecisionInv'
  OBVIOUS
<1>1. ASSUME Schedule PROVE PrecisionInv'
  BY <1>1, StepPrecision DEF Schedule
<1>2. ASSUME Settle PROVE PrecisionInv'
  BY <1>2, SettlePrecision
<1>3. ASSUME Report PROVE PrecisionInv'
  <2>1. CountInv'
    BY <1>3, ReportCounts DEF PrecisionInv
  <2>2. TablesInv' /\ EndsInv' /\ KeptInv' /\ NeededInv'
    BY <1>3 DEF Report, tracker, PrecisionInv, TablesInv, EndsInv, KeptInv, NeededInv,
                Named, ExactRow, Open, BlockAt
  <2> QED
    BY <2>1, <2>2 DEF PrecisionInv
<1>4. ASSUME UNCHANGED vars PROVE PrecisionInv'
  BY <1>4 DEF vars, tracker, PrecisionInv, CountInv, TablesInv, EndsInv, KeptInv, NeededInv,
              InFlight, Depth, Named, ExactRow, Open, BlockAt
<1> QED
  BY <1>1, <1>2, <1>3, <1>4 DEF Next

\* The sink and the precision tail of every request are in every snapshot,
\* whatever their sizes, the deal of the tokens, the chunks and the drafts, and
\* however late the tracker learns where the request really ends.
THEOREM PrecisionTheorem == Spec => []PrecisionKept
<1>1. PrecisionInv => PrecisionKept
  BY NeededMeansKept DEF PrecisionInv
<1> QED
  BY <1>1, PrecisionInit, PrecisionStep, PTL DEF Spec

-----------------------------------------------------------------------------
(* Blocks leave the snapshot packed.  A block is ripe when all its rows are   *)
(* below a count m that no correction in flight can move the request under.  *)
(* A ripe block is full wherever the tracker names it, and a block that is   *)
(* not ripe is kept or pending: so a block that leaves was ripe, and the     *)
(* last snapshot that named it said that it is full.                         *)

\* Such a table's blocks are different blocks.
LEMMA NamedDistinct ==
    ASSUME NEW r, NEW S, NEW table \in Seq(S), Named(r, table)
    PROVE  Distinct(table)
<1>1. \A i \in 1 .. Len(table) : table[i] = <<r, i>>
  BY NamedBlock
<1>2. DOMAIN table = 1 .. Len(table)
  OBVIOUS
<1> QED
  BY <1>1, <1>2 DEF Distinct

\* The fill of a block by its name.
LEMMA NamedFill ==
    ASSUME NEW r, NEW S, NEW table \in Seq(S), Named(r, table), NEW end,
           NEW K \in SUBSET Nat, \A j \in K : j + 1 \in 1 .. Len(table), NEW k \in K
    PROVE  /\ <<r, k + 1>> \in DOMAIN FillsOf(table, K, end)
           /\ FillsOf(table, K, end)[<<r, k + 1>>] = BlockFill(end, k)
<1>1. k \in Nat /\ k + 1 \in 1 .. Len(table) /\ Distinct(table)
  BY NamedDistinct
<1>2. table[k + 1] = <<r, k + 1>>
  BY <1>1, NamedBlock
<1>3. /\ table[k + 1] \in DOMAIN FillsOf(table, K, end)
      /\ FillsOf(table, K, end)[table[k + 1]] = BlockFill(end, k)
  BY <1>1, FillAt
<1> QED
  BY <1>2, <1>3

-----------------------------------------------------------------------------

LEMMA Grouped ==
    ASSUME NEW r, NEW e, Ordered(e), NEW S, e.table \in Seq(S), Named(r, e.table),
           NEW previous \in Fillings(Members(e.table)), NEW wasFull \in BOOLEAN,
           NEW k \in Nat, k + 1 \in 1 .. Len(e.table), k * Group < LocalTokens(MaxEnd(e)),
           NEW b, b = <<r, k + 1>>, NEW kept, kept = GroupBlocks(e, previous, wasFull)
    PROVE  GroupedBlock(e, previous, kept, k, b)
<1>1. e.table[k + 1] = b /\ Distinct(e.table)
  BY NamedBlock, NamedDistinct
<1> QED
  BY <1>1, GroupedAt

LEMMA TouchedFull ==
    ASSUME NEW r, NEW e, Ordered(e), NEW S, e.table \in Seq(S), Named(r, e.table),
           NEW k \in Touched(e), k \in Nat, Whole(k, MinEnd(e))
    PROVE  <<r, k + 1>> \in DOMAIN TouchedFills(e) /\ TouchedFills(e)[<<r, k + 1>>] = Group
<1>1. k + 1 \in 1 .. Len(e.table)
  BY TouchedBound DEF Sound, Ordered
<1>2. e.table[k + 1] = <<r, k + 1>> /\ Distinct(e.table)
  BY <1>1, NamedBlock, NamedDistinct
<1> QED
  BY <1>2, TouchedAt

EntryOf(r, step) == Entry(r, step, Grown(r, Tokens(r, step)))

\* A block with all its rows among those that are there for certain: m tokens
\* is where the tracker knows the request to be at least.
Ripe(r, k, m) == Whole(k, m) /\ Whole(k, rows[r])

\* What is ripe is published as full wherever it is named, and any other block
\* with rows is kept or pending.
Published(r, m) ==
    /\ Monus(computed[r], Lookahead) <= m
    /\ r \in DOMAIN unsettled => Monus(unsettled[r], Lookahead) <= m
    /\ \A k \in Nat : Ripe(r, k, m) =>
          /\ <<r, k + 1>> \in DOMAIN requestBlocks[r] => requestBlocks[r][<<r, k + 1>>] = Group
          /\ <<r, k + 1>> \in DOMAIN resolvedBlocks[r] => resolvedBlocks[r][<<r, k + 1>>] = Group
          /\ <<r, k + 1>> \in needed => <<r, k + 1>> \in full
    /\ \A k \in Nat : <<r, k + 1>> \in BlocksOf(tables[r], 0, rows[r]) =>
          \/ <<r, k + 1>> \in DOMAIN requestBlocks[r] \cup DOMAIN pendingBlocks[r]
          \/ Ripe(r, k, m)

\* The tracker's tables of a request name blocks of its block table.
OwnInv ==
    /\ DOMAIN requestBlocks = Req /\ DOMAIN epochBlocks = Req /\ DOMAIN resolvedBlocks = Req
    /\ \A r \in Req :
          /\ requestBlocks[r] \in Fillings(Members(tables[r]))
          /\ epochBlocks[r] \in Fillings(Members(tables[r]))
          /\ resolvedBlocks[r] \in Fillings(Members(tables[r]))
          /\ pendingBlocks[r] \in Placings(Members(tables[r]))
          /\ DOMAIN pendingBlocks[r] = {} => DOMAIN epochBlocks[r] = {}

PublishedInv == \A r \in Req : \E m \in Nat : Published(r, m)

PackedInv == PrecisionInv /\ OwnInv /\ PublishedInv /\ lost = {}

LEMMA StepUpdate ==
    ASSUME NEW R \in SUBSET Req, NEW step \in [R -> Shares], Step(step)
    PROVE  \E scheduled : /\ Update({}, scheduled) /\ DOMAIN scheduled = R
                          /\ \A r \in R : scheduled[r] = EntryOf(r, step)
<1> DEFINE new == [q \in Req |-> IF q \in DOMAIN step
                      THEN Grown(q, computed[q] + step[q].tokens + step[q].reserved)
                      ELSE tables[q]]
           scheduled == [q \in DOMAIN step |-> Entry(q, step, new[q])]
<1>1. Update({}, scheduled)
  BY DEF Step
<1>2. DOMAIN scheduled = R /\ \A r \in R : scheduled[r] = Entry(r, step, new[r])
  OBVIOUS
<1>3. \A r \in R : new[r] = Grown(r, Tokens(r, step))
  BY DEF Tokens
<1> HIDE DEF scheduled, new
<1>4. \A r \in R : scheduled[r] = EntryOf(r, step)
  BY <1>2, <1>3 DEF EntryOf
<1> QED
  BY <1>1, <1>2, <1>4

LEMMA NamedMember ==
    ASSUME NEW r, NEW S, NEW table \in Seq(S), Named(r, table), NEW b \in Members(table)
    PROVE  \E k \in Nat : b = <<r, k + 1>> /\ k + 1 \in 1 .. Len(table)
<1>1. PICK i \in 1 .. Len(table) : b = table[i]
  BY DEF Members
<1>2. b = <<r, i>>
  BY <1>1, NamedBlock
<1>3. i - 1 \in Nat /\ (i - 1) + 1 = i
  BY <1>1
<1> QED
  BY <1>1, <1>2, <1>3

LEMMA OtherMember ==
    ASSUME NEW r, NEW S, NEW table \in Seq(S), Named(r, table), NEW q, NEW k \in Nat,
           <<q, k + 1>> \in Members(table)
    PROVE  q = r /\ k + 1 \in 1 .. Len(table)
<1>1. PICK j \in Nat : <<q, k + 1>> = <<r, j + 1>> /\ j + 1 \in 1 .. Len(table)
  BY NamedMember
<1> QED
  BY <1>1

LEMMA GrownMembers ==
    ASSUME NEW r, NEW S, NEW table \in Seq(S), NEW longer \in Seq(S),
           Named(r, table), Named(r, longer), Len(table) <= Len(longer)
    PROVE  Members(table) \subseteq Members(longer)
<1> SUFFICES ASSUME NEW i \in 1 .. Len(table) PROVE table[i] \in Members(longer)
  BY DEF Members
<1>1. i \in 1 .. Len(longer)
  BY Z3
<1>2. table[i] = longer[i]
  BY <1>1, NamedBlock
<1> QED
  BY <1>1, <1>2 DEF Members

\* What an entry of a step says of its request.
Sized(r, e) ==
    /\ Ordered(e) /\ Sound(e)
    /\ e.table \in Seq(Req \X Nat) /\ Named(r, e.table) /\ tables'[r] = e.table
    /\ Members(tables[r]) \subseteq Members(e.table)
    /\ rows[r] \in Nat /\ rows'[r] \in Nat /\ rows[r] <= rows'[r]
    /\ MinStart(e) <= rows[r] /\ rows'[r] <= MaxEnd(e)
    /\ rows'[r] <= Len(e.table) * BlockTokens
    /\ MinStart(e) <= Monus(computed[r], Lookahead)
    /\ Monus(computed'[r], Lookahead) <= MinEnd(e)
    /\ r \in DOMAIN unsettled' /\ Monus(unsettled'[r], Lookahead) <= MinEnd(e)
    /\ ~(e.rollback > 0) => MinEnd(e) = rows'[r]

LEMMA EntrySized ==
    ASSUME PrecisionInv, NEW R \in SUBSET Req, NEW step \in [R -> Shares], Step(step),
           \A r \in R : computed[r] + step[r].tokens < MaxLen,
           NEW r \in R, NEW e, e = EntryOf(r, step)
    PROVE  Sized(r, e)
<1>0. e = Entry(r, step, Grown(r, Tokens(r, step))) /\ CountInv /\ TablesInv /\ r \in Req
  BY DEF EntryOf, PrecisionInv
<1>1. /\ MinStart(e) \in Nat /\ MinEnd(e) \in Nat /\ MaxEnd(e) \in Nat
      /\ rows[r] \in Nat /\ rows'[r] \in Nat
      /\ MinStart(e) <= rows[r] /\ MinEnd(e) <= MaxEnd(e) /\ rows'[r] <= MaxEnd(e)
      /\ rows'[r] = rows[r] + step[r].tokens - step[r].rejected
  BY <1>0, EntryEnds
<1>2. Handled(r, e)
  BY <1>0, ScheduledRequest
<1>3. /\ e.table \in Seq(Req \X Nat) /\ Named(r, e.table) /\ tables'[r] = e.table
      /\ rows'[r] <= Len(e.table) * BlockTokens /\ Len(tables[r]) <= Len(e.table)
  BY <1>2 DEF Handled
<1>4. Members(tables[r]) \subseteq Members(e.table)
  <2>1. tables[r] \in Seq(Req \X Nat) /\ Named(r, tables[r])
    BY <1>0 DEF CountInv, TablesInv
  <2> QED
    BY <1>3, <2>1, GrownMembers
<1> DEFINE t == step[r].tokens
           x == step[r].rejected
           d == step[r].drafts
           c == computed[r]
           L == Lookahead
<1>5. /\ t \in Nat /\ x \in Nat /\ d \in Nat /\ d <= L /\ x <= d /\ x <= t /\ L \in Nat
  BY SequencesAssumption DEF Shares
<1>6. c \in Nat /\ rows[r] <= c /\ c <= rows[r] + L
  BY <1>0, CountAhead DEF Step
<1>7. /\ MinStart(e) = Monus(c, d + L) /\ MinEnd(e) = MinStart(e) + (t + L)
      /\ e.rollback = d + L
  BY <1>0 DEF Entry, MinStart, MinEnd
<1>8. /\ computed'[r] = c + t
      /\ r \in DOMAIN unsettled' /\ unsettled'[r] = c + t - x
  BY <1>0 DEF Step
<1>9. rows'[r] = rows[r] + t - x
  BY <1>1
<1> HIDE DEF t, x, d, c, L
<1>10. rows[r] <= rows'[r] /\ MinStart(e) <= MinEnd(e)
  BY <1>1, <1>5, <1>7, <1>9
<1>11. MinStart(e) <= Monus(c, L) /\ Monus(c + t, L) <= MinEnd(e) /\ Monus(c + t - x, L) <= MinEnd(e)
  BY <1>5, <1>6, <1>7 DEF Monus
<1>12. ~(e.rollback > 0) => MinEnd(e) = rows'[r]
  BY <1>1, <1>5, <1>6, <1>7, <1>9 DEF Monus
<1>13. Ordered(e) /\ Sound(e)
  BY <1>1, <1>3, <1>10 DEF Ordered, Sound
<1> QED
  BY <1>1, <1>3, <1>4, <1>8, <1>10, <1>11, <1>12, <1>13 DEF Sized, c, L

LEMMA StepOwns ==
    ASSUME PrecisionInv, OwnInv, NEW R \in SUBSET Req, NEW step \in [R -> Shares], Step(step),
           \A r \in R : computed[r] + step[r].tokens < MaxLen
    PROVE  OwnInv' /\ stepBlocks' \in Fillings(Req \X Nat)
<1>1. PICK scheduled : /\ Update({}, scheduled) /\ DOMAIN scheduled = R
                       /\ \A r \in R : scheduled[r] = EntryOf(r, step)
  BY StepUpdate
<1>2. ASSUME NEW r \in R PROVE Sized(r, scheduled[r])
  BY <1>1, EntrySized
<1>3. stepBlocks' \in Fillings(Req \X Nat)
  <2>1. ASSUME NEW r \in DOMAIN scheduled
        PROVE  Sound(scheduled[r]) /\ Members(scheduled[r].table) \subseteq Req \X Nat
    <3>1. Sound(scheduled[r]) /\ scheduled[r].table \in Seq(Req \X Nat)
      BY <1>1, <1>2 DEF Sized
    <3> QED
      BY <3>1 DEF Members
  <2>2. ASSUME NEW r \in Req PROVE resolvedBlocks[r] \in Fillings(Req \X Nat)
    <3>1. resolvedBlocks[r] \in Fillings(Members(tables[r])) /\ tables[r] \in Seq(Req \X Nat)
      BY DEF OwnInv, PrecisionInv, CountInv
    <3>2. Members(tables[r]) \subseteq Req \X Nat
      BY <3>1 DEF Members
    <3> QED
      BY <3>1, <3>2, FillingMonotone
  <2> QED
    BY <1>1, <2>1, <2>2, UpdatedSteps
<1>4. /\ DOMAIN requestBlocks' = Req /\ DOMAIN epochBlocks' = Req /\ DOMAIN resolvedBlocks' = Req
  BY <1>1 DEF Update, Nothing
<1>5. ASSUME NEW r \in Req
      PROVE  /\ requestBlocks'[r] \in Fillings(Members(tables'[r]))
             /\ epochBlocks'[r] \in Fillings(Members(tables'[r]))
             /\ resolvedBlocks'[r] \in Fillings(Members(tables'[r]))
             /\ pendingBlocks'[r] \in Placings(Members(tables'[r]))
  <2>1. /\ requestBlocks[r] \in Fillings(Members(tables[r]))
        /\ epochBlocks[r] \in Fillings(Members(tables[r]))
        /\ pendingBlocks[r] \in Placings(Members(tables[r]))
    BY DEF OwnInv
  <2>2. CASE r \in R
    <3>1. PICK e : e = scheduled[r]
      OBVIOUS
    <3>2. Sized(r, e) /\ r \in DOMAIN scheduled
      BY <1>1, <1>2, <2>2, <3>1
    <3>3. Sound(e) /\ tables'[r] = e.table /\ Members(tables[r]) \subseteq Members(e.table)
      BY <3>2 DEF Sized
    <3>4. /\ requestBlocks[r] \in Fillings(Members(e.table))
          /\ epochBlocks[r] \in Fillings(Members(e.table))
          /\ pendingBlocks[r] \in Placings(Members(e.table))
      BY <2>1, <3>3, FillingMonotone, PlacingMonotone
    <3>5. /\ requestBlocks'[r] \in Fillings(Members(e.table))
          /\ epochBlocks'[r] \in Fillings(Members(e.table))
          /\ pendingBlocks'[r] \in Placings(Members(e.table))
          /\ resolvedBlocks'[r] = NoBlocks
      BY <1>1, <1>3, <3>1, <3>2, <3>3, <3>4, UpdatedScheduled
    <3> QED
      BY <3>3, <3>5, NoFillings
  <2>3. CASE r \notin R
    <3>1. /\ requestBlocks'[r] = requestBlocks[r] /\ epochBlocks'[r] = epochBlocks[r]
          /\ pendingBlocks'[r] = pendingBlocks[r] /\ resolvedBlocks'[r] = NoBlocks
      <4>1. r \notin DOMAIN scheduled /\ r \notin {}
        BY <1>1, <2>3
      <4> QED
        BY <1>1, <4>1, UpdatedOthers
    <3>2. tables'[r] = tables[r]
      BY <2>3, OthersUntouched DEF PrecisionInv
    <3> QED
      BY <2>1, <3>1, <3>2, NoFillings
  <2> QED
    BY <2>2, <2>3
<1>6. ASSUME NEW r \in Req, DOMAIN pendingBlocks'[r] = {}
      PROVE  DOMAIN epochBlocks'[r] = {}
  <2>1. DOMAIN epochBlocks[r] = {}
    <3>1. DOMAIN pendingBlocks[r] = {}
      BY NothingPending DEF PrecisionInv
    <3> QED
      BY <3>1 DEF OwnInv
  <2> DEFINE opened == {q \in DOMAIN scheduled :
                          scheduled[q].rollback > 0 /\ Touched(scheduled[q]) # {}}
  <2>2. r \notin opened
    <3>1. SUFFICES ASSUME r \in opened PROVE FALSE
      OBVIOUS
    <3>2. DOMAIN pendingBlocks'[r] = DOMAIN TouchedFills(scheduled[r])
      BY <1>1, <3>1 DEF Update
    <3>3. DOMAIN TouchedFills(scheduled[r]) = {scheduled[r].table[k + 1] : k \in Touched(scheduled[r])}
      BY DEF TouchedFills, FillsOf
    <3>4. Touched(scheduled[r]) # {}
      BY <3>1
    <3> QED
      BY <1>6, <3>2, <3>3, <3>4
  <2>3. epochBlocks'[r] = epochBlocks[r]
    <3>1. r \notin {}
      OBVIOUS
    <3> QED
      BY <1>1, <2>2, <3>1 DEF Update
  <2> QED
    BY <2>1, <2>3
<1> QED
  BY <1>3, <1>4, <1>5, <1>6 DEF OwnInv

\* Where the snapshot of a step has a block from, and when it says that the
\* block is full.
SnapshotBlock(R, step, r, b) ==
    /\ b \in needed' =>
         \/ b \in DOMAIN requestBlocks'[r]
         \/ b \in DOMAIN epochBlocks'[r]
         \/ r \in R /\ b \in DOMAIN TouchedFills(EntryOf(r, step))
         \/ b \in DOMAIN resolvedBlocks[r] /\ b \notin DOMAIN requestBlocks[r]
    /\ \/ b \in DOMAIN requestBlocks'[r] /\ requestBlocks'[r][b] = Group
       \/ /\ r \in R /\ b \in DOMAIN TouchedFills(EntryOf(r, step))
          /\ TouchedFills(EntryOf(r, step))[b] = Group
       \/ /\ b \in DOMAIN resolvedBlocks[r] /\ b \notin DOMAIN requestBlocks[r]
          /\ resolvedBlocks[r][b] = Group
       => b \in DOMAIN BlockFills' /\ BlockFills'[b] = Group
    /\ needed' = DOMAIN BlockFills'
    /\ b \in DOMAIN requestBlocks'[r] => b \in needed'
    /\ r \in R /\ b \in DOMAIN TouchedFills(EntryOf(r, step)) => b \in needed'

LEMMA SnapshotParts ==
    ASSUME PrecisionInv, OwnInv, NEW R \in SUBSET Req, NEW step \in [R -> Shares], Step(step),
           \A r \in R : computed[r] + step[r].tokens < MaxLen,
           NEW r \in Req, NEW k \in Nat, NEW b, b = <<r, k + 1>>
    PROVE  SnapshotBlock(R, step, r, b)
<1>1. PICK scheduled : /\ Update({}, scheduled) /\ DOMAIN scheduled = R
                       /\ \A q \in R : scheduled[q] = EntryOf(q, step)
  BY StepUpdate
<1> DEFINE S        == Req \X Nat
           touched  == [q \in DOMAIN scheduled |-> TouchedFills(scheduled[q])]
           held     == UNION {DOMAIN Remaining({})[q] : q \in Req}
           resolved == [q \in Req |-> [c \in DOMAIN resolvedBlocks[q] \ held |-> resolvedBlocks[q][c]]]
<1>2. OwnInv' /\ stepBlocks' \in Fillings(S)
  BY StepOwns
<1>3. ASSUME NEW q \in Req
      PROVE  /\ tables[q] \in Seq(S) /\ Named(q, tables[q]) /\ Members(tables[q]) \subseteq S
             /\ tables'[q] \in Seq(S) /\ Named(q, tables'[q]) /\ Members(tables'[q]) \subseteq S
  <2>1. tables[q] \in Seq(S) /\ Named(q, tables[q])
    BY DEF PrecisionInv, CountInv, TablesInv
  <2>2. tables'[q] \in Seq(S) /\ Named(q, tables'[q])
    <3>1. CASE q \in R
      <4>1. Sized(q, scheduled[q])
        BY <1>1, <3>1, EntrySized
      <4> QED
        BY <4>1 DEF Sized
    <3>2. CASE q \notin R
      BY <2>1, <3>2, OthersUntouched DEF PrecisionInv
    <3> QED
      BY <3>1, <3>2
  <2> QED
    BY <2>1, <2>2 DEF Members
<1>4. ASSUME NEW q \in R
      PROVE  /\ q \in DOMAIN touched /\ touched[q] = TouchedFills(EntryOf(q, step))
             /\ touched[q] \in Fillings(S) /\ DOMAIN touched[q] \subseteq Members(tables'[q])
  <2>1. Sized(q, scheduled[q])
    BY <1>1, EntrySized
  <2>2. TouchedFills(scheduled[q]) \in Fillings(Members(tables'[q]))
    <3>1. Sound(scheduled[q]) /\ tables'[q] = scheduled[q].table
      BY <2>1 DEF Sized
    <3> QED
      BY <3>1, TouchedFilling
  <2>3. touched[q] = TouchedFills(scheduled[q]) /\ q \in DOMAIN touched
    BY <1>1
  <2> HIDE DEF touched
  <2> DEFINE M == Members(tables'[q])
             f == touched[q]
  <2>4. f \in Fillings(M) /\ M \subseteq S
    BY <1>3, <2>2, <2>3
  <2> HIDE DEF M, f
  <2>5. f \in Fillings(S) /\ DOMAIN f \subseteq M
    BY <2>4, FillingParts, FillingMonotone
  <2>6. touched[q] \in Fillings(S) /\ DOMAIN touched[q] \subseteq Members(tables'[q])
    BY <2>5 DEF M, f
  <2> QED
    BY <1>1, <2>3, <2>6
<1>5. ASSUME NEW q \in Req
      PROVE  /\ resolved[q] \in Fillings(S)
             /\ DOMAIN resolved[q] = DOMAIN resolvedBlocks[q] \ held
             /\ \A c \in DOMAIN resolved[q] : resolved[q][c] = resolvedBlocks[q][c]
             /\ DOMAIN resolvedBlocks[q] \subseteq Members(tables[q])
             /\ DOMAIN requestBlocks[q] \subseteq Members(tables[q])
  <2> DEFINE B == DOMAIN resolvedBlocks[q] \ held
  <2>1. resolvedBlocks[q] \in Fillings(Members(tables[q]))
        /\ requestBlocks[q] \in Fillings(Members(tables[q]))
    BY DEF OwnInv
  <2>2. B \in SUBSET DOMAIN resolvedBlocks[q]
    OBVIOUS
  <2>3. resolved[q] = [c \in B |-> resolvedBlocks[q][c]]
    OBVIOUS
  <2> HIDE DEF B, resolved
  <2>4. [c \in B |-> resolvedBlocks[q][c]] \in Fillings(S)
    BY <1>3, <2>1, <2>2, RestrictFilling, FillingMonotone
  <2>5. DOMAIN resolved[q] = B /\ \A c \in B : resolved[q][c] = resolvedBlocks[q][c]
    BY <2>3
  <2>6. DOMAIN resolvedBlocks[q] \subseteq Members(tables[q])
        /\ DOMAIN requestBlocks[q] \subseteq Members(tables[q])
    BY <2>1, FillingParts
  <2> QED
    BY <2>3, <2>4, <2>5, <2>6 DEF B
<1>6. ASSUME NEW q \in Req
      PROVE  /\ requestBlocks'[q] \in Fillings(S) /\ DOMAIN requestBlocks'[q] \subseteq Members(tables'[q])
             /\ epochBlocks'[q] \in Fillings(S) /\ DOMAIN epochBlocks'[q] \subseteq Members(tables'[q])
             /\ resolvedBlocks'[q] \in Fillings(S) /\ DOMAIN resolvedBlocks'[q] = {}
  <2>1. /\ requestBlocks'[q] \in Fillings(Members(tables'[q]))
        /\ epochBlocks'[q] \in Fillings(Members(tables'[q]))
    BY <1>2 DEF OwnInv
  <2>2. resolvedBlocks'[q] = NoBlocks
    BY <1>1 DEF Update, Nothing
  <2> QED
    BY <1>3, <2>1, <2>2, FillingMonotone, FillingParts, NoFillings
<1>7. stepBlocks' = Merge(MergeAll(resolved), MergeAll(touched))
  BY <1>1 DEF Update, Consumed
<1>8. BlockFills' = Merge(Merge(stepBlocks', MergeAll(requestBlocks')),
                          Merge(MergeAll(epochBlocks'), MergeAll(resolvedBlocks')))
  BY DEF BlockFills
<1>9. needed' = DOMAIN BlockFills'
  BY DEF Step
<1>10. DOMAIN resolved = Req /\ DOMAIN touched = R
       /\ DOMAIN requestBlocks' = Req /\ DOMAIN epochBlocks' = Req /\ DOMAIN resolvedBlocks' = Req
  BY <1>1, <1>2 DEF OwnInv
<1>0. ASSUME NEW q \in Req, b \in Members(tables[q]) \/ b \in Members(tables'[q])
      PROVE  q = r
  <2>1. CASE b \in Members(tables[q])
    <3>1. <<r, k + 1>> \in Members(tables[q]) /\ tables[q] \in Seq(S) /\ Named(q, tables[q])
      BY <1>3, <2>1
    <3> HIDE DEF S
    <3> QED
      BY <3>1, OtherMember
  <2>2. CASE b \in Members(tables'[q])
    <3>1. <<r, k + 1>> \in Members(tables'[q]) /\ tables'[q] \in Seq(S) /\ Named(q, tables'[q])
      BY <1>3, <2>2
    <3> HIDE DEF S
    <3> QED
      BY <3>1, OtherMember
  <2> QED
    BY <1>0, <2>1, <2>2
<1>11. (b \in held) <=> b \in DOMAIN requestBlocks[r]
  <2>1. held = UNION {DOMAIN requestBlocks[q] : q \in Req}
    BY DEF Remaining
  <2>2. ASSUME NEW q \in Req, b \in DOMAIN requestBlocks[q] PROVE q = r
    BY <1>0, <1>5, <2>2
  <2> HIDE DEF held
  <2> QED
    BY <2>1, <2>2
<1> HIDE DEF touched, resolved, held, S
<1> DEFINE A == MergeAll(resolved)
           T == MergeAll(touched)
           Q == MergeAll(requestBlocks')
           E == MergeAll(epochBlocks')
           Z == MergeAll(resolvedBlocks')
<1>12. /\ A \in Fillings(S) /\ DOMAIN A = UNION {DOMAIN resolved[q] : q \in Req}
  BY <1>5, <1>10, MergeAllFilling
<1>13. /\ T \in Fillings(S) /\ DOMAIN T = UNION {DOMAIN touched[q] : q \in R}
  <2>1. \A q \in DOMAIN touched : touched[q] \in Fillings(S)
    BY <1>4, <1>10
  <2> QED
    BY <1>10, <2>1, MergeAllFilling
<1>14. /\ Q \in Fillings(S) /\ DOMAIN Q = UNION {DOMAIN requestBlocks'[q] : q \in Req}
       /\ E \in Fillings(S) /\ DOMAIN E = UNION {DOMAIN epochBlocks'[q] : q \in Req}
       /\ Z \in Fillings(S) /\ DOMAIN Z = UNION {DOMAIN resolvedBlocks'[q] : q \in Req}
  BY <1>6, <1>10, MergeAllFilling
<1>15. /\ b \in DOMAIN requestBlocks'[r] /\ requestBlocks'[r][b] = Group
            => b \in DOMAIN Q /\ Q[b] = Group
       /\ b \in DOMAIN resolved[r] /\ resolved[r][b] = Group => b \in DOMAIN A /\ A[b] = Group
       /\ r \in R /\ b \in DOMAIN touched[r] /\ touched[r][b] = Group
            => b \in DOMAIN T /\ T[b] = Group
  <2>1. ASSUME b \in DOMAIN requestBlocks'[r], requestBlocks'[r][b] = Group
        PROVE  b \in DOMAIN Q /\ Q[b] = Group
    BY <1>6, <1>10, <2>1, MergeAllFull
  <2>2. ASSUME b \in DOMAIN resolved[r], resolved[r][b] = Group
        PROVE  b \in DOMAIN A /\ A[b] = Group
    BY <1>5, <1>10, <2>2, MergeAllFull
  <2>3. ASSUME r \in R, b \in DOMAIN touched[r], touched[r][b] = Group
        PROVE  b \in DOMAIN T /\ T[b] = Group
    <3>1. \A q \in DOMAIN touched : touched[q] \in Fillings(S)
      BY <1>4, <1>10
    <3> QED
      BY <1>10, <2>3, <3>1, MergeAllFull
  <2> QED
    BY <2>1, <2>2, <2>3
<1>16. /\ stepBlocks' = Merge(A, T)
       /\ BlockFills' = Merge(Merge(Merge(A, T), Q), Merge(E, Z))
  BY <1>7, <1>8
<1>17. /\ b \in DOMAIN A => b \in DOMAIN resolved[r]
       /\ b \in DOMAIN T => r \in R /\ b \in DOMAIN touched[r]
       /\ b \in DOMAIN Q => b \in DOMAIN requestBlocks'[r]
       /\ b \in DOMAIN E => b \in DOMAIN epochBlocks'[r]
       /\ b \notin DOMAIN Z
       /\ b \in DOMAIN requestBlocks'[r] => b \in DOMAIN Q
       /\ r \in R /\ b \in DOMAIN touched[r] => b \in DOMAIN T
  <2>1. \A q \in Req : b \in Members(tables[q]) \/ b \in Members(tables'[q]) => q = r
    BY <1>0
  <2>2. b \in DOMAIN A => b \in DOMAIN resolved[r]
    BY <1>5, <1>12, <2>1
  <2>3. b \in DOMAIN T => r \in R /\ b \in DOMAIN touched[r]
    BY <1>4, <1>13, <2>1
  <2>4. /\ b \in DOMAIN Q => b \in DOMAIN requestBlocks'[r]
        /\ b \in DOMAIN E => b \in DOMAIN epochBlocks'[r]
        /\ b \notin DOMAIN Z
    BY <1>6, <1>14, <2>1
  <2> QED
    BY <1>13, <1>14, <2>2, <2>3, <2>4
<1>a. /\ A \in Fillings(S) /\ T \in Fillings(S) /\ Q \in Fillings(S)
      /\ E \in Fillings(S) /\ Z \in Fillings(S)
  BY <1>12, <1>13, <1>14
<1> HIDE DEF A, T, Q, E, Z
<1>20. /\ DOMAIN BlockFills' = DOMAIN A \cup DOMAIN T \cup DOMAIN Q \cup DOMAIN E \cup DOMAIN Z
       /\ \/ b \in DOMAIN A /\ A[b] = Group
          \/ b \in DOMAIN T /\ T[b] = Group
          \/ b \in DOMAIN Q /\ Q[b] = Group
          => b \in DOMAIN BlockFills' /\ BlockFills'[b] = Group
  <2>1. PICK all : all = BlockFills'
    OBVIOUS
  <2>2. all = Merge(Merge(Merge(A, T), Q), Merge(E, Z))
    BY <1>16, <2>1
  <2>3. Combined(all, A, T, Q, E, Z, b)
    BY <1>a, <2>2, FiveMerged
  <2> QED
    BY <2>1, <2>3 DEF Combined
<1>22. DOMAIN resolved[r] = DOMAIN resolvedBlocks[r] \ held
       /\ \A c \in DOMAIN resolved[r] : resolved[r][c] = resolvedBlocks[r][c]
  BY <1>5
<1>23. r \in R => touched[r] = TouchedFills(EntryOf(r, step))
  BY <1>4
<1>24. b \in needed' => \/ b \in DOMAIN requestBlocks'[r] \/ b \in DOMAIN epochBlocks'[r]
                        \/ r \in R /\ b \in DOMAIN TouchedFills(EntryOf(r, step))
                        \/ b \in DOMAIN resolvedBlocks[r] /\ b \notin DOMAIN requestBlocks[r]
  BY <1>9, <1>11, <1>17, <1>20, <1>22, <1>23
<1>25. \/ b \in DOMAIN requestBlocks'[r] /\ requestBlocks'[r][b] = Group
       \/ /\ r \in R /\ b \in DOMAIN TouchedFills(EntryOf(r, step))
          /\ TouchedFills(EntryOf(r, step))[b] = Group
       \/ /\ b \in DOMAIN resolvedBlocks[r] /\ b \notin DOMAIN requestBlocks[r]
          /\ resolvedBlocks[r][b] = Group
       => b \in DOMAIN BlockFills' /\ BlockFills'[b] = Group
  BY <1>11, <1>15, <1>20, <1>22, <1>23
<1>26. /\ b \in DOMAIN requestBlocks'[r] => b \in needed'
       /\ r \in R /\ b \in DOMAIN TouchedFills(EntryOf(r, step)) => b \in needed'
  BY <1>9, <1>17, <1>20, <1>23
<1> QED
  BY <1>9, <1>24, <1>25, <1>26 DEF SnapshotBlock

LEMMA ValidPlace ==
    ASSUME NEW r, NEW S, NEW table \in Seq(S), Named(r, table), NEW n \in Nat, NEW k \in Nat,
           <<r, k + 1>> \in BlocksOf(table, 0, n)
    PROVE  k + 1 \in 1 .. Len(table) /\ k * Group < LocalTokens(n)
<1>1. PICK pos \in Nat :
          /\ pos < n /\ IsLocal(pos) /\ Place(pos) \in Nat /\ Place(pos) + 1 \in 1 .. Len(table)
          /\ <<r, k + 1>> = table[Place(pos) + 1]
  BY BlockOfRow
<1>2. k = Place(pos)
  <2>1. table[Place(pos) + 1] = <<r, Place(pos) + 1>>
    BY <1>1, NamedBlock
  <2>2. k + 1 = Place(pos) + 1
    BY <1>1, <2>1
  <2> QED
    BY <1>1, <2>2
<1>3. k = LocalTokens(pos) \div Group
  BY <1>1, <1>2, LocalBlock DEF Place
<1>4. LocalTokens(pos) \in Nat /\ LocalTokens(n) \in Nat /\ LocalTokens(pos) < LocalTokens(n)
  <2>1. LocalTokens(pos) \in Nat /\ LocalTokens(n) \in Nat
    BY CountParts
  <2>2. LocalTokens(pos + 1) = LocalTokens(pos) + 1
    BY <1>1, LocalRow
  <2>3. LocalTokens(pos + 1) <= LocalTokens(n)
    <3>1. pos + 1 <= n /\ pos + 1 \in Nat
      BY <1>1
    <3> QED
      BY <3>1, CountMonotone
  <2> QED
    BY <2>1, <2>2, <2>3
<1>5. Group * k <= LocalTokens(pos)
  BY <1>3, <1>4, RowBlock
<1>6. k * Group \in Nat /\ Group * k = k * Group
  BY GeometryAssumption
<1> QED
  BY <1>1, <1>2, <1>4, <1>5, <1>6

\* A block with rows that a step neither touches nor may end in is ripe already.
LEMMA UntouchedRipe ==
    ASSUME NEW r, NEW e, Sized(r, e), NEW m \in Nat, Published(r, m), computed[r] \in Nat,
           NEW k \in Nat, k + 1 \in 1 .. Len(e.table), k * Group < LocalTokens(MaxEnd(e)),
           k \notin Touched(e), Earlier(e, k)
    PROVE  Whole(k, MinStart(e)) /\ Ripe(r, k, m)
<1>1. /\ Ordered(e) /\ e.table \in Seq(Req \X Nat)
      /\ MinStart(e) \in Nat /\ rows[r] \in Nat /\ MinStart(e) <= rows[r]
      /\ MinStart(e) <= Monus(computed[r], Lookahead)
  BY DEF Sized, Ordered
<1>2. Whole(k, MinStart(e))
  BY <1>1, UntouchedWhole DEF Earlier
<1>3. MinStart(e) <= m
  <2>1. Monus(computed[r], Lookahead) <= m /\ Monus(computed[r], Lookahead) \in Nat
    BY SequencesAssumption DEF Published, Monus
  <2> QED
    BY <1>1, <2>1
<1> QED
  BY <1>1, <1>2, <1>3, WholeMonotone DEF Ripe

LEMMA ScheduledPublished ==
    ASSUME PrecisionInv, OwnInv, NEW R \in SUBSET Req, NEW step \in [R -> Shares], Step(step),
           \A r \in R : computed[r] + step[r].tokens < MaxLen,
           NEW r \in R, NEW m0 \in Nat, Published(r, m0)
    PROVE  \E m \in Nat : Published(r, m)'
<1>1. PICK e : e = EntryOf(r, step)
  OBVIOUS
<1>2. Sized(r, e) /\ r \in Req /\ computed[r] \in Nat
  BY <1>1, EntrySized DEF PrecisionInv, CountInv
<1>3. /\ Ordered(e) /\ Sound(e) /\ e.table \in Seq(Req \X Nat) /\ Named(r, e.table)
      /\ tables'[r] = e.table /\ Members(tables[r]) \subseteq Members(e.table)
      /\ rows[r] \in Nat /\ rows'[r] \in Nat /\ rows[r] <= rows'[r]
      /\ MinStart(e) <= rows[r] /\ rows'[r] <= MaxEnd(e)
      /\ MinStart(e) \in Nat /\ MinEnd(e) \in Nat /\ MaxEnd(e) \in Nat
      /\ MinStart(e) <= MinEnd(e) /\ MinEnd(e) <= MaxEnd(e)
  BY <1>2 DEF Sized, Ordered
<1>4. PICK m \in Nat : m = MinEnd(e)
  BY <1>3
<1>5. PICK kept : kept = GroupBlocks(e, requestBlocks[r], r \in fullContext)
  OBVIOUS
<1>6. requestBlocks'[r] = kept
  <2>1. CountInv /\ TablesInv
    BY DEF PrecisionInv
  <2>2. PICK scheduled : /\ Update({}, scheduled) /\ DOMAIN scheduled = R
                         /\ \A q \in R : scheduled[q] = EntryOf(q, step)
    BY StepUpdate
  <2>3. Updated(r, e)
    BY <1>1, <2>2, UpdatedTracker
  <2> QED
    BY <1>5, <2>3 DEF Updated, Regrouped
<1>7. requestBlocks[r] \in Fillings(Members(e.table)) /\ (r \in fullContext) \in BOOLEAN
  <2>1. requestBlocks[r] \in Fillings(Members(tables[r]))
    BY <1>2 DEF OwnInv
  <2> QED
    BY <1>3, <2>1, FillingMonotone
<1>8. ASSUME NEW k \in Nat, k + 1 \in 1 .. Len(e.table), k * Group < LocalTokens(MaxEnd(e))
      PROVE  /\ <<r, k + 1>> \notin DOMAIN kept => Earlier(e, k)
             /\ <<r, k + 1>> \in DOMAIN kept /\ Whole(k, MinEnd(e)) =>
                  \/ kept[<<r, k + 1>>] = Group
                  \/ /\ k \notin Touched(e) /\ Earlier(e, k) /\ <<r, k + 1>> \in DOMAIN requestBlocks[r]
                     /\ kept[<<r, k + 1>>] = requestBlocks[r][<<r, k + 1>>]
  <2>1. GroupedBlock(e, requestBlocks[r], kept, k, <<r, k + 1>>)
    BY <1>3, <1>5, <1>7, <1>8, Grouped
  <2> QED
    BY <2>1 DEF GroupedBlock
<1>9. ASSUME NEW k \in Nat, k + 1 \in 1 .. Len(e.table), k * Group < LocalTokens(MaxEnd(e)),
             k \notin Touched(e), Earlier(e, k)
      PROVE  Whole(k, MinStart(e)) /\ Ripe(r, k, m0)
  BY <1>2, <1>9, UntouchedRipe
<1>10. ASSUME NEW k \in Nat, Whole(k, m)
       PROVE  k * Group < LocalTokens(MaxEnd(e))
  BY <1>3, <1>4, <1>10, WholeBelow
<1>11. ASSUME NEW k \in Nat, <<r, k + 1>> \in Members(e.table)
       PROVE  k + 1 \in 1 .. Len(e.table)
  BY <1>3, <1>11, OtherMember
<1>12. ASSUME NEW k \in Nat, Ripe(r, k, m)', <<r, k + 1>> \in DOMAIN requestBlocks'[r]
       PROVE  requestBlocks'[r][<<r, k + 1>>] = Group
  <2>1. Whole(k, m) /\ Whole(k, MinEnd(e))
    BY <1>4, <1>12 DEF Ripe, Whole
  <2>2. k * Group < LocalTokens(MaxEnd(e))
    BY <1>10, <2>1
  <2>3. k + 1 \in 1 .. Len(e.table)
    <3>1. OwnInv'
      BY StepOwns
    <3>2. DOMAIN requestBlocks'[r] \subseteq Members(e.table)
      BY <1>2, <1>3, <3>1, FillingParts DEF OwnInv
    <3> QED
      BY <1>11, <1>12, <3>2
  <2>4. CASE kept[<<r, k + 1>>] = Group
    BY <1>6, <2>4
  <2>5. CASE /\ k \notin Touched(e) /\ Earlier(e, k) /\ <<r, k + 1>> \in DOMAIN requestBlocks[r]
             /\ kept[<<r, k + 1>>] = requestBlocks[r][<<r, k + 1>>]
    <3>1. Ripe(r, k, m0)
      BY <1>9, <2>2, <2>3, <2>5
    <3>2. requestBlocks[r][<<r, k + 1>>] = Group
      BY <2>5, <3>1 DEF Published
    <3> QED
      BY <1>6, <2>5, <3>2
  <2> QED
    BY <1>6, <1>8, <1>12, <2>1, <2>2, <2>3, <2>4, <2>5
<1>13. ASSUME NEW k \in Nat, Ripe(r, k, m)', <<r, k + 1>> \in needed'
       PROVE  <<r, k + 1>> \in full'
  <2> DEFINE b == <<r, k + 1>>
  <2>0. OwnInv' /\ PrecisionInv
    BY StepOwns
  <2>1. Whole(k, m) /\ Whole(k, MinEnd(e)) /\ k * Group < LocalTokens(MaxEnd(e))
    BY <1>4, <1>10, <1>13 DEF Ripe, Whole
  <2>2. \/ b \in DOMAIN requestBlocks'[r]
        \/ b \in DOMAIN epochBlocks'[r]
        \/ b \in DOMAIN TouchedFills(e)
        \/ b \in DOMAIN resolvedBlocks[r] /\ b \notin DOMAIN requestBlocks[r]
    BY <1>1, <1>2, <1>13, SnapshotParts DEF SnapshotBlock
  <2>3. k + 1 \in 1 .. Len(e.table)
    <3>1. /\ DOMAIN requestBlocks'[r] \subseteq Members(e.table)
          /\ DOMAIN epochBlocks'[r] \subseteq Members(e.table)
      BY <1>2, <1>3, <2>0, FillingParts DEF OwnInv
    <3>2. DOMAIN TouchedFills(e) \subseteq Members(e.table)
      BY <1>3, TouchedFilling, FillingParts
    <3>3. DOMAIN resolvedBlocks[r] \subseteq Members(e.table)
      <4>1. resolvedBlocks[r] \in Fillings(Members(tables[r]))
        BY <1>2 DEF OwnInv
      <4> QED
        BY <1>3, <4>1, FillingParts
    <3> QED
      BY <1>11, <2>2, <3>1, <3>2, <3>3
  <2>4. b \in DOMAIN BlockFills' /\ BlockFills'[b] = Group
    <3>1. CASE b \in DOMAIN requestBlocks'[r]
      <4>1. requestBlocks'[r][b] = Group
        BY <1>12, <1>13, <3>1
      <4> QED
        BY <1>2, <3>1, <4>1, SnapshotParts DEF SnapshotBlock
    <3>2. CASE k \in Touched(e)
      <4>1. b \in DOMAIN TouchedFills(e) /\ TouchedFills(e)[b] = Group
        BY <1>3, <2>1, <3>2, TouchedFull
      <4> QED
        BY <1>1, <1>2, <4>1, SnapshotParts DEF SnapshotBlock
    <3>3. CASE b \notin DOMAIN requestBlocks'[r] /\ k \notin Touched(e)
      <4>1. Ripe(r, k, m0)
        <5>1. Earlier(e, k)
          BY <1>6, <1>8, <2>1, <2>3, <3>3
        <5> QED
          BY <1>9, <2>1, <2>3, <3>3, <5>1
      <4>2. b \notin DOMAIN TouchedFills(e)
        <5>1. DOMAIN TouchedFills(e) = {e.table[j + 1] : j \in Touched(e)}
          BY DEF TouchedFills, FillsOf
        <5>2. ASSUME NEW j \in Touched(e), e.table[j + 1] = b PROVE FALSE
          <6>1. j \in Nat /\ b = <<r, j + 1>>
            BY <1>3, <5>2, TouchedNames
          <6>2. j = k
            BY <6>1
          <6> QED
            BY <3>3, <6>2
        <5> QED
          BY <5>1, <5>2
      <4>3. b \notin DOMAIN epochBlocks'[r]
        <5>1. PICK scheduled : /\ Update({}, scheduled) /\ DOMAIN scheduled = R
                               /\ \A q \in R : scheduled[q] = EntryOf(q, step)
          BY StepUpdate
        <5>2. scheduled[r] = e /\ r \notin {} /\ r \in DOMAIN scheduled
          BY <1>1, <5>1
        <5>3. CASE e.rollback > 0 /\ Touched(e) # {}
          <6>1. DOMAIN epochBlocks'[r] \subseteq DOMAIN TouchedFills(e) \cup DOMAIN requestBlocks'[r]
            <7>1. DOMAIN NoBlocks = {}
              BY NoFillings
            <7> QED
              BY <1>2, <5>1, <5>2, <5>3, <7>1 DEF Update, Merge
          <6> QED
            BY <3>3, <4>2, <6>1
        <5>4. CASE ~(e.rollback > 0 /\ Touched(e) # {})
          <6>1. epochBlocks'[r] = epochBlocks[r]
            BY <1>2, <5>1, <5>2, <5>4 DEF Update
          <6>2. DOMAIN epochBlocks[r] = {}
            <7>1. DOMAIN pendingBlocks[r] = {}
              BY <1>2, NothingPending DEF PrecisionInv
            <7> QED
              BY <1>2, <7>1 DEF OwnInv
          <6> QED
            BY <6>1, <6>2
        <5> QED
          BY <5>3, <5>4
      <4>4. b \in DOMAIN resolvedBlocks[r] /\ b \notin DOMAIN requestBlocks[r]
        BY <2>2, <3>3, <4>2, <4>3
      <4>5. resolvedBlocks[r][b] = Group
        BY <4>1, <4>4 DEF Published
      <4> QED
        BY <1>2, <4>4, <4>5, SnapshotParts DEF SnapshotBlock
    <3> QED
      BY <3>1, <3>2, <3>3
  <2> HIDE DEF b
  <2>5. full' = ({c \in DOMAIN BlockFills' : BlockFills'[c] = Group}
                    \cup (full \ DOMAIN BlockFills')) \ (needed \ DOMAIN BlockFills')
    BY DEF Step
  <2> QED
    BY <2>4, <2>5 DEF b
<1>14. ASSUME NEW k \in Nat, <<r, k + 1>> \in BlocksOf(tables'[r], 0, rows'[r])
       PROVE  \/ <<r, k + 1>> \in DOMAIN requestBlocks'[r] \cup DOMAIN pendingBlocks'[r]
              \/ Ripe(r, k, m)'
  <2> SUFFICES ASSUME <<r, k + 1>> \notin DOMAIN requestBlocks'[r]
               PROVE  <<r, k + 1>> \in DOMAIN pendingBlocks'[r] \/ Ripe(r, k, m)'
    OBVIOUS
  <2>1. k + 1 \in 1 .. Len(e.table) /\ k * Group < LocalTokens(rows'[r])
    BY <1>3, <1>14, ValidPlace
  <2>2. k * Group < LocalTokens(MaxEnd(e))
    <3>1. LocalTokens(rows'[r]) <= LocalTokens(MaxEnd(e))
      BY <1>3, CountMonotone
    <3>2. rows'[r] \in Nat /\ MaxEnd(e) \in Nat
      BY <1>3
    <3>3. LocalTokens(rows'[r]) \in Nat /\ LocalTokens(MaxEnd(e)) \in Nat
      BY <3>2, CountParts
    <3>4. k * Group \in Nat
      BY GeometryAssumption
    <3> QED
      BY <2>1, <3>1, <3>3, <3>4
  <2>3. Earlier(e, k)
    BY <1>6, <1>8, <2>1, <2>2
  <2>4. CASE k \notin Touched(e)
    <3>1. Whole(k, MinStart(e))
      BY <1>9, <2>1, <2>2, <2>3, <2>4
    <3>2. Whole(k, m) /\ Whole(k, rows'[r])
      <4>1. MinStart(e) <= m /\ MinStart(e) <= rows'[r]
        BY <1>3, <1>4
      <4> QED
        BY <1>3, <3>1, <4>1, WholeMonotone
    <3> QED
      BY <3>2 DEF Ripe, Whole
  <2>5. CASE k \in Touched(e) /\ e.rollback > 0
    <3>1. Handled(r, e)
      <4>1. CountInv /\ TablesInv /\ e = Entry(r, step, Grown(r, Tokens(r, step)))
        BY <1>1 DEF PrecisionInv, EntryOf
      <4> QED
        BY <4>1, ScheduledRequest
    <3>2. DOMAIN pendingBlocks'[r] = DOMAIN TouchedFills(e)
      <4>1. Touched(e) # {}
        BY <2>5
      <4> QED
        BY <2>5, <3>1, <4>1 DEF Handled
    <3>3. <<r, k + 1>> \in DOMAIN TouchedFills(e)
      <4>1. e.table[k + 1] = <<r, k + 1>>
        BY <1>3, <2>1, NamedBlock
      <4> QED
        BY <2>5, <4>1 DEF TouchedFills, FillsOf
    <3> QED
      BY <3>2, <3>3
  <2>6. CASE ~(e.rollback > 0)
    <3>1. m = rows'[r]
      BY <1>2, <1>4, <2>6 DEF Sized
    <3>2. Whole(k, m)
      BY <1>3, <1>4, <2>3, BeforeLast DEF Earlier
    <3> QED
      BY <3>1, <3>2 DEF Ripe, Whole
  <2> QED
    BY <2>4, <2>5, <2>6
<1>15. ASSUME NEW k \in Nat PROVE <<r, k + 1>> \notin DOMAIN resolvedBlocks'[r]
  <2>1. PICK scheduled : Update({}, scheduled)
    BY StepUpdate
  <2>2. resolvedBlocks'[r] = NoBlocks
    BY <1>2, <2>1 DEF Update, Nothing
  <2> QED
    BY <2>2, NoFillings
<1>16. /\ Monus(computed'[r], Lookahead) <= m /\ Monus(unsettled'[r], Lookahead) <= m
  BY <1>2, <1>4 DEF Sized
<1> QED
  BY <1>12, <1>13, <1>14, <1>15, <1>16 DEF Published

\* A request that is not scheduled: what was corrected is published now.
LEMMA OtherPublished ==
    ASSUME PrecisionInv, OwnInv, NEW R \in SUBSET Req, NEW step \in [R -> Shares], Step(step),
           \A r \in R : computed[r] + step[r].tokens < MaxLen,
           NEW r \in Req, r \notin R, NEW m \in Nat, Published(r, m)
    PROVE  Published(r, m)'
<1>1. /\ tables'[r] = tables[r] /\ rows'[r] = rows[r]
      /\ requestBlocks'[r] = requestBlocks[r] /\ pendingBlocks'[r] = pendingBlocks[r]
  BY OthersUntouched DEF PrecisionInv
<1>2. computed'[r] = computed[r] /\ r \notin DOMAIN unsettled'
  BY DEF Step, PrecisionInv, CountInv
<1>3. PICK scheduled : /\ Update({}, scheduled) /\ DOMAIN scheduled = R
                       /\ \A q \in R : scheduled[q] = EntryOf(q, step)
  BY StepUpdate
<1>4. DOMAIN resolvedBlocks'[r] = {} /\ DOMAIN epochBlocks'[r] = {}
  <2>1. resolvedBlocks'[r] = NoBlocks /\ epochBlocks'[r] = epochBlocks[r]
    <3>1. r \notin DOMAIN scheduled /\ r \notin {}
      BY <1>3
    <3> QED
      BY <1>3, <3>1, UpdatedOthers
  <2>2. DOMAIN epochBlocks[r] = {}
    <3>1. DOMAIN pendingBlocks[r] = {}
      BY NothingPending DEF PrecisionInv
    <3> QED
      BY <3>1 DEF OwnInv
  <2> QED
    BY <2>1, <2>2, NoFillings
<1>5. ASSUME NEW k \in Nat, Ripe(r, k, m), <<r, k + 1>> \in needed'
      PROVE  <<r, k + 1>> \in full'
  <2> DEFINE b == <<r, k + 1>>
  <2>1. \/ b \in DOMAIN requestBlocks'[r]
        \/ b \in DOMAIN epochBlocks'[r]
        \/ b \in DOMAIN resolvedBlocks[r] /\ b \notin DOMAIN requestBlocks[r]
    BY <1>5, SnapshotParts DEF SnapshotBlock
  <2>2. b \in DOMAIN BlockFills' /\ BlockFills'[b] = Group
    <3>1. CASE b \in DOMAIN requestBlocks'[r]
      <4>1. requestBlocks'[r][b] = Group
        BY <1>1, <1>5, <3>1 DEF Published
      <4> QED
        BY <3>1, <4>1, SnapshotParts DEF SnapshotBlock
    <3>2. CASE b \in DOMAIN resolvedBlocks[r] /\ b \notin DOMAIN requestBlocks[r]
      <4>1. resolvedBlocks[r][b] = Group
        BY <1>5, <3>2 DEF Published
      <4> QED
        BY <3>2, <4>1, SnapshotParts DEF SnapshotBlock
    <3> QED
      BY <1>4, <2>1, <3>1, <3>2
  <2> HIDE DEF b
  <2>3. full' = ({c \in DOMAIN BlockFills' : BlockFills'[c] = Group}
                    \cup (full \ DOMAIN BlockFills')) \ (needed \ DOMAIN BlockFills')
    BY DEF Step
  <2> QED
    BY <2>2, <2>3 DEF b
<1>6. \A k \in Nat : Ripe(r, k, m)' <=> Ripe(r, k, m)
  BY <1>1 DEF Ripe, Whole
<1>7. ASSUME NEW k \in Nat, Ripe(r, k, m)'
      PROVE  /\ <<r, k + 1>> \in DOMAIN requestBlocks'[r] => requestBlocks'[r][<<r, k + 1>>] = Group
             /\ <<r, k + 1>> \notin DOMAIN resolvedBlocks'[r]
             /\ <<r, k + 1>> \in needed' => <<r, k + 1>> \in full'
  BY <1>1, <1>4, <1>5, <1>6, <1>7 DEF Published
<1>8. ASSUME NEW k \in Nat, <<r, k + 1>> \in BlocksOf(tables'[r], 0, rows'[r])
      PROVE  \/ <<r, k + 1>> \in DOMAIN requestBlocks'[r] \cup DOMAIN pendingBlocks'[r]
             \/ Ripe(r, k, m)'
  BY <1>1, <1>6, <1>8 DEF Published
<1>9. Monus(computed'[r], Lookahead) <= m
  BY <1>2 DEF Published
<1> QED
  BY <1>2, <1>7, <1>8, <1>9 DEF Published

\* A block that leaves with a step was published as full, with all its rows.
LEMMA RetiredPacked ==
    ASSUME PrecisionInv, OwnInv, NEW R \in SUBSET Req, NEW step \in [R -> Shares], Step(step),
           \A r \in R : computed[r] + step[r].tokens < MaxLen,
           PublishedInv,
           NEW b \in needed, b \in Valid, b \notin needed'
    PROVE  b \in full /\ Complete(b)
<1>1. PICK r \in Req : b \in BlocksOf(tables[r], 0, rows[r])
  BY DEF Valid
<1>2. /\ tables[r] \in Seq(Req \X Nat) /\ Named(r, tables[r]) /\ rows[r] \in Nat
      /\ computed[r] \in Nat
  BY DEF PrecisionInv, CountInv, TablesInv
<1>a. b \in Members(tables[r])
  BY <1>1 DEF BlocksOf, Members
<1>3. PICK k \in Nat : b = <<r, k + 1>>
  BY <1>2, <1>a, NamedMember
<1>4. PICK m \in Nat : Published(r, m)
  BY DEF PublishedInv
<1>5. k + 1 \in 1 .. Len(tables[r]) /\ k * Group < LocalTokens(rows[r])
  BY <1>1, <1>2, <1>3, ValidPlace
<1>6. b \notin needed' /\ b \notin DOMAIN requestBlocks'[r]
  <2>1. SnapshotBlock(R, step, r, <<r, k + 1>>)
    BY SnapshotParts
  <2> QED
    BY <1>3, <2>1 DEF SnapshotBlock
<1>7. Ripe(r, k, m)
  <2>1. CASE r \in R
    <3>1. PICK e : e = EntryOf(r, step)
      OBVIOUS
    <3>2. Sized(r, e)
      BY <2>1, <3>1, EntrySized
    <3>3. /\ Ordered(e) /\ Sound(e) /\ e.table \in Seq(Req \X Nat) /\ Named(r, e.table)
          /\ Members(tables[r]) \subseteq Members(e.table)
          /\ rows'[r] \in Nat /\ rows[r] <= rows'[r] /\ rows'[r] <= MaxEnd(e) /\ MaxEnd(e) \in Nat
          /\ MinStart(e) \in Nat
      BY <3>2 DEF Sized, Ordered
    <3>4. k + 1 \in 1 .. Len(e.table)
      <4>1. <<r, k + 1>> \in Members(tables[r])
        BY <1>3, <1>a
      <4> QED
        BY <3>3, <4>1, OtherMember
    <3>5. k * Group < LocalTokens(MaxEnd(e))
      <4>1. rows[r] <= MaxEnd(e)
        BY <1>2, <3>3
      <4>2. LocalTokens(rows[r]) <= LocalTokens(MaxEnd(e))
        BY <1>2, <3>3, <4>1, CountMonotone
      <4>3. LocalTokens(rows[r]) \in Nat /\ LocalTokens(MaxEnd(e)) \in Nat
        BY <1>2, <3>3, CountParts
      <4>4. k * Group \in Nat
        BY GeometryAssumption
      <4> QED
        BY <1>5, <4>2, <4>3, <4>4
    <3>6. k \notin Touched(e)
      <4>1. b \notin DOMAIN TouchedFills(e)
        <5>1. SnapshotBlock(R, step, r, <<r, k + 1>>)
          BY SnapshotParts
        <5> QED
          BY <1>3, <1>6, <2>1, <3>1, <5>1 DEF SnapshotBlock
      <4>2. e.table[k + 1] = b
        BY <1>3, <3>3, <3>4, NamedBlock
      <4> QED
        BY <4>1, <4>2 DEF TouchedFills, FillsOf
    <3>7. Earlier(e, k)
      <4>1. PICK kept : kept = GroupBlocks(e, requestBlocks[r], r \in fullContext)
        OBVIOUS
      <4>2. requestBlocks'[r] = kept
        <5>1. PICK scheduled : /\ Update({}, scheduled) /\ DOMAIN scheduled = R
                               /\ \A q \in R : scheduled[q] = EntryOf(q, step)
          BY StepUpdate
        <5>2. Updated(r, e)
          BY <2>1, <3>1, <5>1, UpdatedTracker
        <5> QED
          BY <4>1, <5>2 DEF Updated, Regrouped
      <4>3. requestBlocks[r] \in Fillings(Members(e.table)) /\ (r \in fullContext) \in BOOLEAN
        BY <3>3, FillingMonotone DEF OwnInv
      <4>4. GroupedBlock(e, requestBlocks[r], kept, k, <<r, k + 1>>)
        BY <3>3, <3>4, <3>5, <4>1, <4>3, Grouped
      <4> QED
        BY <1>3, <1>6, <4>2, <4>4 DEF GroupedBlock
    <3> QED
      BY <1>2, <1>4, <3>2, <3>4, <3>5, <3>6, <3>7, UntouchedRipe
  <2>2. CASE r \notin R
    <3>1. b \notin DOMAIN requestBlocks[r] /\ DOMAIN pendingBlocks[r] = {}
      BY <1>6, <2>2, OthersUntouched, NothingPending DEF PrecisionInv
    <3> QED
      BY <1>1, <1>3, <1>4, <3>1 DEF Published
  <2> QED
    BY <2>1, <2>2
<1>8. b \in full
  BY <1>3, <1>4, <1>7 DEF Published
<1>9. Complete(b)
  <2>1. b[1] = r /\ b[2] = k + 1
    BY <1>3
  <2>2. (k + 1) * Group <= LocalTokens(rows[r])
    BY <1>7 DEF Ripe, Whole
  <2> QED
    BY <2>1, <2>2 DEF Complete
<1> QED
  BY <1>8, <1>9

LEMMA StepPacked ==
    ASSUME PackedInv, NEW R \in SUBSET Req, NEW step \in [R -> Shares],
           Step(step), \A r \in R : computed[r] + step[r].tokens < MaxLen
    PROVE  PackedInv'
<1>0. PrecisionInv /\ OwnInv /\ PublishedInv
  BY DEF PackedInv
<1>1. PrecisionInv' /\ OwnInv'
  BY <1>0, StepPrecision, StepOwns
<1>2. ASSUME NEW r \in Req PROVE \E m \in Nat : Published(r, m)'
  <2>1. PICK m \in Nat : Published(r, m)
    BY <1>0 DEF PublishedInv
  <2>2. CASE r \in R
    BY <1>0, <2>1, <2>2, ScheduledPublished
  <2>3. CASE r \notin R
    BY <1>0, <2>1, <2>3, OtherPublished
  <2> QED
    BY <2>2, <2>3
<1>3. lost' = {}
  <2> DEFINE fills == BlockFills'
             out   == needed \ DOMAIN fills
             known == {b \in DOMAIN fills : fills[b] = Group} \cup (full \ DOMAIN fills)
             gone  == {b \in out \cap Valid : b \notin known \/ ~Complete(b)}
  <2>1. lost' = lost \cup gone
    BY DEF Step
  <2>2. ASSUME NEW b \in gone PROVE FALSE
    <3>1. b \in needed /\ b \in Valid /\ b \notin DOMAIN BlockFills'
      OBVIOUS
    <3>2. b \notin needed'
      BY <3>1 DEF Step
    <3>3. b \in full /\ Complete(b)
      BY <1>0, <3>1, <3>2, RetiredPacked
    <3> QED
      BY <3>1, <3>3
  <2>3. lost = {}
    BY DEF PackedInv
  <2> HIDE DEF gone
  <2> QED
    BY <2>1, <2>2, <2>3
<1> QED
  BY <1>1, <1>2, <1>3 DEF PackedInv, PublishedInv

\* What a settled batch says of a request with pending blocks.
LEMMA SettledEnd ==
    ASSUME PrecisionInv, Settle, NEW r \in Req, r \in DOMAIN unsettled
    PROVE  /\ unsettled[r] \in Nat /\ rows[r] \in Nat
           /\ rows[r] <= unsettled[r] /\ unsettled[r] <= rows[r] + Lookahead
           /\ tables[r] \in Seq(Req \X Nat) /\ Named(r, tables[r])
           /\ \A k \in Nat : <<r, k + 1>> \in DOMAIN pendingBlocks[r]
                                => pendingBlocks[r][<<r, k + 1>>] = k
<1>1. ASSUME NEW k \in Nat, <<r, k + 1>> \in DOMAIN pendingBlocks[r]
      PROVE  pendingBlocks[r][<<r, k + 1>>] = k
  <2> DEFINE j == pendingBlocks[r][<<r, k + 1>>]
  <2>1. j \in Nat /\ <<r, k + 1>> = <<r, j + 1>>
    BY <1>1 DEF PrecisionInv, EndsInv
  <2> HIDE DEF j
  <2>2. j = k
    BY <2>1
  <2> QED
    BY <2>2 DEF j
<1> QED
  BY <1>1 DEF PrecisionInv, EndsInv, CountInv, TablesInv

\* What is ripe is corrected to a full block, and what has rows is corrected.
LEMMA CorrectedBlock ==
    ASSUME PrecisionInv, Settle, NEW r \in Req, r \in DOMAIN unsettled, NEW k \in Nat,
           <<r, k + 1>> \in DOMAIN pendingBlocks[r]
    PROVE  /\ k * Group < LocalTokens(rows[r])
                 => <<r, k + 1>> \in DOMAIN Corrected(r, unsettled[r])
           /\ Whole(k, rows[r]) /\ <<r, k + 1>> \in DOMAIN Corrected(r, unsettled[r])
                 => Corrected(r, unsettled[r])[<<r, k + 1>>] = Group
<1> DEFINE b   == <<r, k + 1>>
           end == unsettled[r]
<1>1. /\ end \in Nat /\ rows[r] \in Nat /\ rows[r] <= end /\ pendingBlocks[r][b] = k
  BY SettledEnd
<1>2. /\ BlockFill(LocalTokens(end), k) > 0 => b \in DOMAIN Corrected(r, end)
      /\ b \in DOMAIN Corrected(r, end)
            => Corrected(r, end)[b] = BlockFill(LocalTokens(end), k)
  <2> HIDE DEF b, end
  <2> QED
    BY <1>1 DEF Corrected, b
<1>3. ASSUME k * Group < LocalTokens(rows[r]) PROVE BlockFill(LocalTokens(end), k) > 0
  <2> DEFINE x == LocalTokens(rows[r])
             y == LocalTokens(end)
             p == k * Group
  <2>1. x \in Nat /\ y \in Nat /\ x <= y
    BY <1>1, CountParts, CountMonotone
  <2>a. p \in Nat /\ p < x /\ Group \in Nat \ {0}
    BY <1>3, GeometryAssumption
  <2> HIDE DEF x, y, p
  <2>2. Lesser(Group, Monus(y, p)) > 0
    BY <2>1, <2>a DEF Lesser, Monus
  <2> QED
    BY <2>2 DEF BlockFill, y, p
<1>4. ASSUME Whole(k, rows[r]) PROVE BlockFill(LocalTokens(end), k) = Group
  BY <1>1, <1>4, WholeMonotone, WholeFill
<1> QED
  BY <1>2, <1>3, <1>4

\* What a settled request keeps: ripe blocks are full.
LEMMA RebuiltFull ==
    ASSUME PrecisionInv, Settle, NEW r \in Req, r \in DOMAIN unsettled,
           NEW m \in Nat, Published(r, m), NEW k \in Nat, Ripe(r, k, m),
           NEW f, f = Rebuilt(r, tables[r], unsettled[r]), <<r, k + 1>> \in DOMAIN f
    PROVE  f[<<r, k + 1>>] = Group
<1> DEFINE b   == <<r, k + 1>>
           end == unsettled[r]
<1>1. /\ end \in Nat /\ rows[r] \in Nat /\ rows[r] <= end
      /\ tables[r] \in Seq(Req \X Nat) /\ Named(r, tables[r]) /\ Whole(k, rows[r])
  BY SettledEnd DEF Ripe
<1>2. CASE r \in fullContext
  <2> DEFINE B    == DOMAIN requestBlocks[r] \ DOMAIN pendingBlocks[r]
             kept == [c \in B |-> requestBlocks[r][c]]
             corr == Corrected(r, end)
  <2>1. f = Merge(kept, corr)
    BY <1>2 DEF Rebuilt
  <2>2. DOMAIN corr \subseteq DOMAIN pendingBlocks[r]
    BY DEF Corrected
  <2>3. b \in B => kept[b] = Group
    BY DEF Published
  <2>4. b \in DOMAIN corr => corr[b] = Group
    BY <1>1, <2>2, CorrectedBlock
  <2>5. DOMAIN kept = B /\ B \cap DOMAIN corr = {}
    BY <2>2
  <2>6. b \in DOMAIN f
    OBVIOUS
  <2> HIDE DEF kept, corr, B, b
  <2> QED
    BY <2>1, <2>3, <2>4, <2>5, <2>6 DEF Merge, b
<1>3. CASE r \notin fullContext
  <2> DEFINE local == LocalTokens(end)
             K == Kept(NumLogical(tables[r], local), local,
                       LocalTokens(Monus(end, PrecisionTail)))
  <2>1. f = FillsOf(tables[r], K, local)
    BY <1>3 DEF Rebuilt, PersistentBlocks
  <2>2. local \in Nat
    BY <1>1, CountParts
  <2>3. K \in SUBSET Nat /\ \A j \in K : j + 1 \in 1 .. Len(tables[r])
    <3>1. K \subseteq 0 .. NumLogical(tables[r], local) - 1
      BY DEF Kept
    <3> HIDE DEF K, local
    <3> QED
      BY <1>1, <2>2, <3>1, NumLogicalBound
  <2>4. BlockFill(local, k) = Group
    BY <1>1, WholeMonotone, WholeFill
  <2> HIDE DEF K, local
  <2>5. PICK j \in K : b = tables[r][j + 1]
    BY <2>1 DEF FillsOf
  <2>6. j \in Nat /\ j + 1 \in 1 .. Len(tables[r])
    BY <2>3
  <2>7. tables[r][j + 1] = <<r, j + 1>>
    BY <1>1, <2>6, NamedBlock
  <2>8. k \in K
    BY <2>5, <2>6, <2>7
  <2>9. FillsOf(tables[r], K, local)[<<r, k + 1>>] = BlockFill(local, k)
    <3>1. tables[r] \in Seq(Req \X Nat) /\ Named(r, tables[r])
      BY <1>1
    <3> QED
      BY <2>3, <2>8, <3>1, NamedFill
  <2> QED
    BY <2>1, <2>4, <2>9
<1> QED
  BY <1>2, <1>3

\* What a settled request keeps: every block with rows that is not ripe.  With a
\* tail of at least the lookahead, a block before the tail is ripe wherever the
\* request really ends.
LEMMA RebuiltCovers ==
    ASSUME PrecisionTail >= Lookahead,
           PrecisionInv, Settle, NEW r \in Req, r \in DOMAIN unsettled,
           NEW m \in Nat, Published(r, m), NEW k \in Nat,
           <<r, k + 1>> \in BlocksOf(tables[r], 0, rows[r])
    PROVE  <<r, k + 1>> \in DOMAIN Rebuilt(r, tables[r], unsettled[r]) \/ Ripe(r, k, m)
<1> DEFINE b   == <<r, k + 1>>
           end == unsettled[r]
           local == LocalTokens(end)
<1>1. /\ end \in Nat /\ rows[r] \in Nat /\ rows[r] <= end /\ end <= rows[r] + Lookahead
      /\ tables[r] \in Seq(Req \X Nat) /\ Named(r, tables[r])
  BY SettledEnd
<1>2. k + 1 \in 1 .. Len(tables[r]) /\ k * Group < LocalTokens(rows[r])
  BY <1>1, ValidPlace
<1>3. CASE r \in fullContext
  <2> DEFINE B    == DOMAIN requestBlocks[r] \ DOMAIN pendingBlocks[r]
             corr == Corrected(r, end)
  <2>1. DOMAIN Rebuilt(r, tables[r], end) = B \cup DOMAIN corr
    BY <1>3 DEF Rebuilt, Merge
  <2>2. b \in DOMAIN pendingBlocks[r] => b \in DOMAIN corr
    BY <1>2, CorrectedBlock
  <2>3. b \in DOMAIN requestBlocks[r] \cup DOMAIN pendingBlocks[r] \/ Ripe(r, k, m)
    BY DEF Published
  <2> QED
    BY <2>1, <2>2, <2>3
<1>4. CASE r \notin fullContext
  <2> DEFINE tail == Monus(end, PrecisionTail)
             n    == NumLogical(tables[r], local)
             K    == Kept(n, local, LocalTokens(tail))
  <2>1. DOMAIN Rebuilt(r, tables[r], end) = {tables[r][j + 1] : j \in K}
    BY <1>4 DEF Rebuilt, PersistentBlocks, FillsOf
  <2>2. local \in Nat /\ k * Group < local
    <3>1. LocalTokens(rows[r]) \in Nat /\ local \in Nat /\ LocalTokens(rows[r]) <= local
      BY <1>1, CountParts, CountMonotone
    <3>2. k * Group \in Nat
      BY GeometryAssumption
    <3> HIDE DEF local
    <3> QED
      BY <1>2, <3>1, <3>2
  <2>3. k \in 0 .. n - 1
    <3> HIDE DEF local
    <3> QED
      BY <1>1, <1>2, <2>2, LogicalBlock
  <2>4. CASE k \in K
    <3>1. tables[r][k + 1] = b
      BY <1>1, <1>2, NamedBlock
    <3> HIDE DEF K
    <3> QED
      BY <2>1, <2>4, <3>1
  <2>5. CASE k \notin K
    <3>1. /\ ~(PrecisionTail > 0 /\ k >= LocalTokens(tail) \div Group)
          /\ ~(k >= Monus(Blocks(local), 1))
      BY <2>3, <2>5 DEF Kept
    <3>2. Monus(end, Lookahead) <= m /\ Monus(end, Lookahead) <= rows[r]
          /\ Monus(end, Lookahead) \in Nat
      <4>1. Monus(end, Lookahead) <= m
        BY DEF Published
      <4> HIDE DEF end
      <4> QED
        BY <1>1, <4>1, SequencesAssumption DEF Monus
    <3>3. PICK x \in Nat : Whole(k, x) /\ x <= Monus(end, Lookahead)
      <4>1. CASE PrecisionTail > 0
        <5>1. tail \in Nat /\ tail <= Monus(end, Lookahead)
          <6> HIDE DEF end
          <6> QED
            BY <1>1, SequencesAssumption, GeometryAssumption DEF Monus
        <5>2. LocalTokens(tail) \div Group \in Nat
          <6>1. LocalTokens(tail) \in Nat /\ Group \in Nat \ {0}
            BY <5>1, CountParts, GeometryAssumption
          <6> HIDE DEF tail
          <6> QED
            BY <6>1, DivMod
        <5>3. Whole(k, tail)
          <6> HIDE DEF tail
          <6> QED
            BY <3>1, <4>1, <5>1, <5>2, BeforeRow
        <5> QED
          BY <5>1, <5>3
      <4>2. CASE ~(PrecisionTail > 0)
        <5>1. Lookahead = 0
          BY <4>2, GeometryAssumption, SequencesAssumption
        <5>2. Monus(end, Lookahead) = end
          BY <1>1, <5>1 DEF Monus
        <5>3. Blocks(local) \in Nat
          <6> HIDE DEF local
          <6>1. local + Group - 1 \in Nat /\ Group \in Nat \ {0}
            BY <2>2, GeometryAssumption
          <6> QED
            BY <6>1, DivMod DEF Blocks
        <5>4. k < Monus(Blocks(local), 1)
          <6> HIDE DEF local
          <6> QED
            BY <3>1, <5>3 DEF Monus
        <5>5. Whole(k, end)
          BY <1>1, <5>4, BeforeLast
        <5> QED
          BY <1>1, <5>2, <5>5
      <4> QED
        BY <4>1, <4>2
    <3>4. x <= m /\ x <= rows[r]
      <4> DEFINE y == Monus(end, Lookahead)
      <4>1. y \in Nat /\ y <= m /\ y <= rows[r] /\ x <= y /\ rows[r] \in Nat
        BY <1>1, <3>2, <3>3
      <4> HIDE DEF y
      <4> QED
        BY <4>1
    <3> QED
      BY <1>1, <3>3, <3>4, WholeMonotone DEF Ripe
  <2> QED
    BY <2>4, <2>5
<1> QED
  BY <1>3, <1>4

LEMMA SettleOwns ==
    ASSUME PrecisionInv, OwnInv, Settle
    PROVE  OwnInv'
<1>1. ResolveAsync(unsettled, tables) /\ tables' = tables
  BY DEF Settle
<1>2. DOMAIN requestBlocks' = Req /\ DOMAIN epochBlocks' = Req /\ DOMAIN resolvedBlocks' = Req
  BY <1>1 DEF ResolveAsync
<1>3. ASSUME NEW r \in Req
      PROVE  /\ requestBlocks'[r] \in Fillings(Members(tables'[r]))
             /\ epochBlocks'[r] \in Fillings(Members(tables'[r]))
             /\ resolvedBlocks'[r] \in Fillings(Members(tables'[r]))
             /\ pendingBlocks'[r] \in Placings(Members(tables'[r]))
             /\ DOMAIN pendingBlocks'[r] = {} => DOMAIN epochBlocks'[r] = {}
  <2> DEFINE S == Members(tables[r])
             T == Req \X Nat
  <2>1. /\ requestBlocks[r] \in Fillings(S) /\ epochBlocks[r] \in Fillings(S)
        /\ resolvedBlocks[r] \in Fillings(S) /\ pendingBlocks[r] \in Placings(S)
    BY DEF OwnInv
  <2>2. r \in DOMAIN unsettled =>
            unsettled[r] \in Nat /\ tables[r] \in Seq(T) /\ Members(tables[r]) \subseteq S
    BY SettledEnd
  <2>3. /\ requestBlocks'[r] \in Fillings(S) /\ epochBlocks'[r] \in Fillings(S)
        /\ resolvedBlocks'[r] \in Fillings(S) /\ pendingBlocks'[r] \in Placings(S)
    <3> HIDE DEF S, T
    <3> QED
      BY <1>1, <2>1, <2>2, ResolvedTables
  <2>4. DOMAIN pendingBlocks'[r] = {} => DOMAIN epochBlocks'[r] = {}
    <3>1. CASE r \in DOMAIN unsettled
      <4>1. epochBlocks'[r] = NoBlocks
        BY <1>1, <3>1 DEF ResolveAsync
      <4> QED
        BY <4>1, NoFillings
    <3>2. CASE r \notin DOMAIN unsettled
      <4>1. epochBlocks'[r] = epochBlocks[r] /\ pendingBlocks'[r] = pendingBlocks[r]
        BY <1>1, <3>2 DEF ResolveAsync
      <4> QED
        BY <4>1 DEF OwnInv
    <3> QED
      BY <3>1, <3>2
  <2> QED
    BY <1>1, <2>3, <2>4
<1> QED
  BY <1>2, <1>3 DEF OwnInv

LEMMA SettlePublished ==
    ASSUME PrecisionTail >= Lookahead,
           PrecisionInv, OwnInv, Settle, NEW r \in Req, NEW m \in Nat, Published(r, m)
    PROVE  Published(r, m)'
<1>1. /\ rows' = rows /\ computed' = computed /\ tables' = tables
      /\ needed' = needed /\ full' = full /\ r \notin DOMAIN unsettled'
  BY DEF Settle, NoEnds
<1>2. \A k \in Nat : Ripe(r, k, m)' <=> Ripe(r, k, m)
  BY <1>1 DEF Ripe, Whole
<1>3. Monus(computed'[r], Lookahead) <= m
  BY <1>1 DEF Published
<1> DEFINE resolves == r \in DOMAIN unsettled /\ DOMAIN pendingBlocks[r] # {}
<1>4. /\ requestBlocks'[r] = IF resolves THEN Rebuilt(r, tables[r], unsettled[r])
                             ELSE requestBlocks[r]
      /\ resolvedBlocks'[r] = IF resolves THEN Corrected(r, unsettled[r])
                              ELSE resolvedBlocks[r]
  BY DEF Settle, ResolveAsync
<1> HIDE DEF resolves
<1>5. ASSUME NEW k \in Nat, Ripe(r, k, m)'
      PROVE  /\ <<r, k + 1>> \in DOMAIN requestBlocks'[r] => requestBlocks'[r][<<r, k + 1>>] = Group
             /\ <<r, k + 1>> \in DOMAIN resolvedBlocks'[r] => resolvedBlocks'[r][<<r, k + 1>>] = Group
             /\ <<r, k + 1>> \in needed' => <<r, k + 1>> \in full'
  <2>1. Ripe(r, k, m)
    BY <1>2, <1>5
  <2>2. <<r, k + 1>> \in needed' => <<r, k + 1>> \in full'
    BY <1>1, <2>1 DEF Published
  <2>3. CASE resolves
    <3>1. r \in DOMAIN unsettled
      BY <2>3 DEF resolves
    <3>2. <<r, k + 1>> \in DOMAIN requestBlocks'[r] => requestBlocks'[r][<<r, k + 1>>] = Group
      BY <1>4, <2>1, <2>3, <3>1, RebuiltFull
    <3>3. <<r, k + 1>> \in DOMAIN resolvedBlocks'[r] => resolvedBlocks'[r][<<r, k + 1>>] = Group
      <4> SUFFICES ASSUME <<r, k + 1>> \in DOMAIN Corrected(r, unsettled[r])
                   PROVE  Corrected(r, unsettled[r])[<<r, k + 1>>] = Group
        BY <1>4, <2>3
      <4>1. <<r, k + 1>> \in DOMAIN pendingBlocks[r]
        BY DEF Corrected
      <4>2. Whole(k, rows[r])
        BY <2>1 DEF Ripe
      <4> QED
        BY <3>1, <4>1, <4>2, CorrectedBlock
    <3> QED
      BY <2>2, <3>2, <3>3
  <2>4. CASE ~resolves
    BY <1>4, <2>1, <2>2, <2>4 DEF Published
  <2> QED
    BY <2>3, <2>4
<1>6. ASSUME NEW k \in Nat, <<r, k + 1>> \in BlocksOf(tables'[r], 0, rows'[r])
      PROVE  \/ <<r, k + 1>> \in DOMAIN requestBlocks'[r] \cup DOMAIN pendingBlocks'[r]
             \/ Ripe(r, k, m)'
  <2>1. <<r, k + 1>> \in BlocksOf(tables[r], 0, rows[r])
    BY <1>1, <1>6
  <2>2. CASE resolves
    <3>1. <<r, k + 1>> \in DOMAIN Rebuilt(r, tables[r], unsettled[r]) \/ Ripe(r, k, m)
      BY <2>1, <2>2, RebuiltCovers DEF resolves
    <3> QED
      BY <1>2, <1>4, <2>2, <3>1
  <2>3. CASE ~resolves
    <3>1. DOMAIN pendingBlocks[r] = {}
      BY <2>3 DEF resolves, PrecisionInv, EndsInv
    <3>2. <<r, k + 1>> \in DOMAIN requestBlocks[r] \/ Ripe(r, k, m)
      BY <2>1, <3>1 DEF Published
    <3> QED
      BY <1>2, <1>4, <2>3, <3>2
  <2> QED
    BY <2>2, <2>3
<1> QED
  BY <1>1, <1>3, <1>5, <1>6 DEF Published

\* The scheduler only takes back what the tracker never relied on.
LEMMA ReportPublished ==
    ASSUME PrecisionInv, Report, NEW r \in Req, NEW m \in Nat, Published(r, m)
    PROVE  Published(r, m)'
<1>1. /\ rows' = rows /\ tables' = tables /\ needed' = needed /\ full' = full
      /\ unsettled' = unsettled /\ requestBlocks' = requestBlocks
      /\ pendingBlocks' = pendingBlocks /\ resolvedBlocks' = resolvedBlocks
  BY DEF Report, tracker
<1>2. computed'[r] <= computed[r] /\ computed'[r] \in Nat /\ computed[r] \in Nat
  <2>1. CountInv /\ CountInv'
    BY ReportCounts DEF PrecisionInv
  <2>2. computed'[r] = computed[r] - unreported[1][r]
    BY DEF Report
  <2>3. unreported[1][r] \in Nat
    <3>1. Len(unreported) \in {0, 1, 2} /\ unreported # << >>
      BY <2>1, BatchesInFlight DEF Report
    <3>2. 1 \in 1 .. Len(unreported)
      <4>1. Len(unreported) # 0
        BY <2>1, <3>1 DEF CountInv
      <4> QED
        BY <3>1, <4>1
    <3>3. unreported[1] \in [Req -> 0 .. Lookahead]
      BY <2>1, <3>2, BatchesInFlight
    <3> QED
      BY <3>3, SequencesAssumption
  <2> QED
    BY <2>1, <2>2, <2>3 DEF CountInv
<1>3. Monus(computed'[r], Lookahead) <= m
  <2>1. Monus(computed[r], Lookahead) <= m
    BY DEF Published
  <2> QED
    BY <1>2, <2>1, SequencesAssumption DEF Monus
<1>4. \A k \in Nat : Ripe(r, k, m)' <=> Ripe(r, k, m)
  BY <1>1 DEF Ripe, Whole
<1> QED
  BY <1>1, <1>3, <1>4 DEF Published

LEMMA PackedInit == Init => PackedInv
<1> SUFFICES ASSUME Init PROVE PackedInv
  OBVIOUS
<1>1. PrecisionInv
  BY PrecisionInit
<1>2. ASSUME NEW r \in Req
      PROVE  /\ requestBlocks[r] = NoBlocks /\ pendingBlocks[r] = NoBlocks
             /\ epochBlocks[r] = NoBlocks /\ resolvedBlocks[r] = NoBlocks
             /\ rows[r] = 0 /\ computed[r] = 0 /\ tables[r] = << >>
             /\ r \notin DOMAIN unsettled
  BY DEF Init, TrackerInit, Nothing, NoEnds
<1>3. OwnInv
  <2>1. DOMAIN requestBlocks = Req /\ DOMAIN epochBlocks = Req /\ DOMAIN resolvedBlocks = Req
    BY DEF Init, TrackerInit, Nothing
  <2> QED
    BY <1>2, <2>1, NoFillings, NoPlacings DEF OwnInv
<1>4. ASSUME NEW r \in Req PROVE Published(r, 0)
  <2>1. Monus(computed[r], Lookahead) <= 0
    BY <1>2, SequencesAssumption DEF Monus
  <2>2. <<r, 1>> \notin {} /\ needed = {}
    BY DEF Init
  <2>3. DOMAIN NoBlocks = {}
    BY NoFillings
  <2>4. BlocksOf(tables[r], 0, rows[r]) = {}
    <3>1. DOMAIN tables[r] = {}
      BY <1>2
    <3> QED
      BY <3>1 DEF BlocksOf
  <2> QED
    BY <1>2, <2>1, <2>2, <2>3, <2>4 DEF Published
<1>5. lost = {}
  BY DEF Init
<1> QED
  BY <1>1, <1>3, <1>4, <1>5 DEF PackedInv, PublishedInv

LEMMA PackedStep ==
    ASSUME PrecisionTail >= Lookahead
    PROVE  PackedInv /\ [Next]_vars => PackedInv'
<1> SUFFICES ASSUME PackedInv, [Next]_vars PROVE PackedInv'
  OBVIOUS
<1>0. PrecisionInv /\ OwnInv /\ PublishedInv /\ lost = {} /\ PrecisionInv'
  BY PrecisionStep DEF PackedInv
<1>1. ASSUME Schedule PROVE PackedInv'
  BY <1>1, StepPacked DEF Schedule
<1>2. ASSUME Settle PROVE PackedInv'
  <2>1. OwnInv'
    BY <1>0, <1>2, SettleOwns
  <2>2. PublishedInv'
    BY <1>0, <1>2, SettlePublished DEF PublishedInv
  <2>3. lost' = {}
    BY <1>0, <1>2 DEF Settle
  <2> QED
    BY <1>0, <2>1, <2>2, <2>3 DEF PackedInv
<1>3. ASSUME Report PROVE PackedInv'
  <2>1. OwnInv'
    BY <1>0, <1>3 DEF Report, tracker, OwnInv
  <2>2. PublishedInv'
    BY <1>0, <1>3, ReportPublished DEF PublishedInv
  <2>3. lost' = {}
    BY <1>0, <1>3 DEF Report
  <2> QED
    BY <1>0, <2>1, <2>2, <2>3 DEF PackedInv
<1>4. ASSUME UNCHANGED vars PROVE PackedInv'
  <2>1. OwnInv' /\ lost' = {}
    BY <1>0, <1>4 DEF vars, tracker, OwnInv
  <2>2. ASSUME NEW r \in Req, NEW m \in Nat, Published(r, m) PROVE Published(r, m)'
    BY <1>4, <2>2 DEF vars, tracker, Published, Ripe, Whole
  <2>3. PublishedInv'
    BY <1>0, <2>2 DEF PublishedInv
  <2> QED
    BY <1>0, <2>1, <2>3 DEF PackedInv
<1> QED
  BY <1>1, <1>2, <1>3, <1>4 DEF Next

\* A block with rows leaves the snapshot, to be packed, only after it was
\* published as full and when all its rows are there for good, provided that the
\* precision tail is at least the lookahead.
THEOREM PackedTheorem ==
    ASSUME PrecisionTail >= Lookahead
    PROVE  Spec => []LeavesPacked
<1>1. PackedInv => LeavesPacked
  BY DEF PackedInv, LeavesPacked
<1>2. PackedInv /\ [Next]_vars => PackedInv'
  BY PackedStep
<1> QED
  BY <1>1, <1>2, PackedInit, PTL DEF Spec

-----------------------------------------------------------------------------
(* The size of the snapshot. *)

LEMMA DivBelow ==
    ASSUME NEW d \in Nat \ {0}, NEW n \in Nat, NEW m \in Nat, d * m <= n
    PROVE  m <= n \div d
<1>1. n \div d \in Nat /\ n % d \in 0 .. d - 1 /\ n = d * (n \div d) + (n % d)
  BY DivMod
<1>2. SUFFICES ASSUME n \div d + 1 <= m PROVE FALSE
  BY <1>1
<1>3. d * (n \div d + 1) <= d * m
  BY <1>1, <1>2, TimesMonotone
<1>4. d * (n \div d + 1) = d * (n \div d) + d
  BY <1>1
<1> QED
  BY <1>1, <1>3, <1>4

LEMMA DivAbove ==
    ASSUME NEW d \in Nat \ {0}, NEW n \in Nat, NEW m \in Nat, n < d * (m + 1)
    PROVE  n \div d <= m
<1>1. n \div d \in Nat /\ n % d \in 0 .. d - 1 /\ n = d * (n \div d) + (n % d)
  BY DivMod
<1>2. SUFFICES ASSUME m + 1 <= n \div d PROVE FALSE
  BY <1>1
<1>3. d * (m + 1) <= d * (n \div d)
  BY <1>1, <1>2, TimesMonotone
<1> QED
  BY <1>1, <1>3

\* Rounding the parts up loses nothing.
LEMMA DivParts ==
    ASSUME NEW d \in Nat \ {0}, NEW a \in Nat, NEW b \in Nat
    PROVE  (a + b) \div d <= a \div d + (b + d - 1) \div d
<1> DEFINE x == a \div d
           c == b + d - 1
           y == c \div d
<1>1. x \in Nat /\ a % d \in 0 .. d - 1 /\ a = d * x + (a % d)
  BY DivMod
<1>2. c \in Nat
  OBVIOUS
<1>3. y \in Nat /\ c % d \in 0 .. d - 1 /\ c = d * y + (c % d)
  <2> HIDE DEF c
  <2> QED
    BY <1>2, DivMod
<1>4. d * (x + y + 1) = d * x + d * y + d
  <2> HIDE DEF x, y
  <2> QED
    BY <1>1, <1>3
<1>5. a + b < d * (x + y + 1)
  <2>1. d * x \in Nat /\ d * y \in Nat
    <3> HIDE DEF x, y
    <3> QED
      BY <1>1, <1>3
  <2>2. c = b + d - 1
    OBVIOUS
  <2> HIDE DEF x, y, c
  <2> QED
    BY <1>1, <1>3, <1>4, <2>1, <2>2
<1>6. x + y \in Nat /\ a + b \in Nat
  <2> HIDE DEF x, y
  <2> QED
    BY <1>1, <1>3
<1>7. (a + b) \div d <= x + y
  <2> HIDE DEF x, y
  <2> QED
    BY <1>5, <1>6, DivAbove
<1> QED
  BY <1>7

\* More tokens are at most that many more rows on one rank.
LEMMA CountGrowth ==
    ASSUME NEW m \in Nat, NEW n \in Nat, m <= n
    PROVE  LocalTokens(n) + m <= LocalTokens(m) + n
<1> DEFINE p == m \div Cycle
           q == n \div Cycle
           s == m % Cycle
           t == n % Cycle
           d == Cycle - DcpInterleave
<1>1. /\ p \in Nat /\ q \in Nat /\ s \in 0 .. Cycle - 1 /\ t \in 0 .. Cycle - 1
      /\ m = Cycle * p + s /\ n = Cycle * q + t
  BY Sizes, DivMod
<1>2. /\ LocalTokens(m) = p * DcpInterleave + Part(s)
      /\ LocalTokens(n) = q * DcpInterleave + Part(t)
  BY CountParts
<1>3. d \in Nat
  BY Sizes, GeometryAssumption
<1>4. p <= q
  BY Sizes, DivMonotone
<1>5. \A x \in 0 .. Cycle - 1 : Part(x) \in Nat /\ Part(x) <= x /\ x <= Part(x) + d
  BY Sizes, GeometryAssumption DEF Part, Lesser, Monus
<1>6. \A x, y \in 0 .. Cycle - 1 : x <= y => Part(y) + x <= Part(x) + y
  BY Sizes, GeometryAssumption DEF Part, Lesser, Monus
<1>7. /\ Cycle * p = d * p + p * DcpInterleave
      /\ Cycle * q = d * q + q * DcpInterleave
  <2>1. Cycle \in Nat /\ DcpInterleave \in Nat /\ d = Cycle - DcpInterleave
    BY Sizes, GeometryAssumption
  <2> HIDE DEF p, q, d
  <2> QED
    BY <1>1, <2>1
<1>8. d * p \in Nat /\ d * q \in Nat /\ p * DcpInterleave \in Nat /\ q * DcpInterleave \in Nat
  <2> HIDE DEF p, q, d
  <2> QED
    BY <1>1, <1>3, GeometryAssumption
<1>9. CASE p = q
  <2>1. s <= t
    <3> HIDE DEF p, q, s, t, d
    <3> QED
      BY <1>1, <1>7, <1>8, <1>9
  <2>2. Part(t) + s <= Part(s) + t /\ Part(t) \in Nat /\ Part(s) \in Nat
    BY <1>1, <1>5, <1>6, <2>1
  <2> HIDE DEF p, q, s, t, d
  <2> QED
    BY <1>1, <1>2, <1>7, <1>8, <1>9, <2>2
<1>10. CASE p < q
  <2>1. d * (p + 1) <= d * q
    <3> HIDE DEF p, q, d
    <3> QED
      BY <1>1, <1>3, <1>10, TimesMonotone
  <2>2. d * (p + 1) = d * p + d
    <3> HIDE DEF p, d
    <3> QED
      BY <1>1, <1>3
  <2>3. /\ Part(t) \in Nat /\ Part(s) \in Nat /\ Part(t) <= t /\ s <= Part(s) + d
    BY <1>1, <1>5
  <2> HIDE DEF p, q, s, t, d
  <2> QED
    BY <1>1, <1>2, <1>3, <1>7, <1>8, <2>1, <2>2, <2>3
<1> QED
  BY <1>1, <1>4, <1>9, <1>10

\* The blocks of the sink, and those of a tail that starts and ends anywhere.
Sink       == Ceil(Boundary)
TailBlocks == Ceil(PrecisionTail + Group - 1)

\* Whether blocks B of request r, but for the sink, are among c in a row.
Fits(r, B, c) ==
    \E low \in Nat : \A k \in Nat :
        <<r, k + 1>> \in B => k < Sink \/ (low <= k /\ k < low + c)

LEMMA CeilType ==
    ASSUME NEW n \in Nat
    PROVE  Ceil(n) \in Nat /\ Blocks(n) = Ceil(n)
<1>1. n + Group - 1 \in Nat
  BY GeometryAssumption
<1> QED
  BY <1>1, GeometryAssumption, DivMod DEF Ceil, Blocks

LEMMA BlockBelow ==
    ASSUME NEW k \in Nat, NEW n \in Nat
    PROVE  k < Blocks(n) <=> k * Group < n
<1> DEFINE m == n + Group - 1
<1>1. m \in Nat
  BY GeometryAssumption
<1>2. /\ m \div Group \in Nat /\ m % Group \in 0 .. Group - 1
      /\ m = Group * (m \div Group) + (m % Group)
  <2> HIDE DEF m
  <2> QED
    BY <1>1, GeometryAssumption, DivMod
<1> DEFINE q == m \div Group
<1>3. Blocks(n) = q
  BY DEF Blocks
<1>4. k * Group \in Nat /\ Group * k = k * Group /\ Group * (k + 1) = k * Group + Group
      /\ Group * q \in Nat
  <2> HIDE DEF m
  <2> HIDE DEF q
  <2> QED
    BY <1>2, GeometryAssumption DEF q
<1>5. ASSUME k < q PROVE k * Group < n
  <2>1. Group * (k + 1) <= Group * q
    <3> HIDE DEF q
    <3> QED
      BY <1>2, <1>5, GeometryAssumption, TimesMonotone DEF q
  <2> QED
    BY <1>1, <1>2, <1>4, <2>1, GeometryAssumption
<1>6. ASSUME k * Group < n PROVE k < q
  <2>1. Group * (k + 1) <= m
    BY <1>4, <1>6, GeometryAssumption
  <2>2. k + 1 <= m \div Group
    <3> HIDE DEF m
    <3> QED
      BY <1>1, <2>1, GeometryAssumption, DivBelow
  <2> QED
    BY <1>2, <2>2
<1> QED
  BY <1>3, <1>5, <1>6

LEMMA SpanBlocks ==
    ASSUME NEW low \in Nat, NEW high \in Nat, NEW span \in Nat, high <= low + span,
           NEW k \in Nat, k * Group < high
    PROVE  k < low \div Group + Ceil(span + Group - 1)
<1> DEFINE a == low \div Group
           n == span + Group - 1 + Group - 1
<1>1. a \in Nat /\ low % Group \in 0 .. Group - 1 /\ low = Group * a + (low % Group)
  BY GeometryAssumption, DivMod
<1>2. n \in Nat /\ Ceil(span + Group - 1) = n \div Group
  BY GeometryAssumption DEF Ceil
<1>3. n \div Group \in Nat
  <2> HIDE DEF n
  <2> QED
    BY <1>2, GeometryAssumption, DivMod
<1>4. SUFFICES ASSUME a <= k PROVE k - a + 1 <= n \div Group
  <2> HIDE DEF n, a
  <2>1. k < a => k < a + n \div Group
    BY <1>1, <1>3
  <2>2. k - a + 1 <= n \div Group => k < a + n \div Group
    BY <1>1, <1>3
  <2>3. a <= k \/ k < a
    BY <1>1
  <2> QED
    BY <1>2, <1>4, <2>1, <2>2, <2>3 DEF a
<1> DEFINE j == k - a + 1
<1>5. j \in Nat
  <2> HIDE DEF a
  <2> QED
    BY <1>1, <1>4
<1>6. Group * j = k * Group - Group * a + Group /\ k * Group \in Nat /\ Group * a \in Nat
  <2> HIDE DEF a
  <2> QED
    BY <1>1, <1>4, GeometryAssumption
<1>7. Group * j <= n
  <2>1. Group * j \in Int
    <3> HIDE DEF j
    <3> QED
      BY <1>5, GeometryAssumption
  <2> HIDE DEF a, j
  <2> QED
    BY <1>1, <1>6, <2>1, GeometryAssumption
<1>8. j <= n \div Group
  <2> HIDE DEF j, n
  <2> QED
    BY <1>2, <1>5, <1>7, GeometryAssumption, DivBelow
<1> QED
  BY <1>8

LEMMA CeilSpan ==
    ASSUME NEW more \in Nat
    PROVE  Ceil(PrecisionTail + more + Group - 1) <= TailBlocks + Ceil(more)
<1> DEFINE a == PrecisionTail + Group - 1 + Group - 1
<1>1. a \in Nat
  BY GeometryAssumption
<1>2. TailBlocks = a \div Group /\ Ceil(more) = (more + Group - 1) \div Group
  BY DEF TailBlocks, Ceil
<1>3. Ceil(PrecisionTail + more + Group - 1) = (a + more) \div Group
  <2>1. PrecisionTail + more + Group - 1 + Group - 1 = a + more
    BY GeometryAssumption
  <2> QED
    BY <2>1 DEF Ceil
<1>4. (a + more) \div Group <= a \div Group + (more + Group - 1) \div Group
  <2> HIDE DEF a
  <2> QED
    BY <1>1, GeometryAssumption, DivParts
<1> QED
  BY <1>2, <1>3, <1>4

LEMMA CeilContext ==
    Blocks(Boundary + PrecisionTail) <= Sink + TailBlocks
<1> DEFINE a == PrecisionTail + Group - 1
           c == a + Group - 1
<1>1. a \in Nat /\ c \in Nat /\ a <= c /\ Boundary \in Nat /\ Group \in Nat \ {0}
  BY GeometryAssumption
<1>2. Blocks(Boundary + PrecisionTail) = (a + Boundary) \div Group
  <2>1. Boundary + PrecisionTail + Group - 1 = a + Boundary
    BY GeometryAssumption
  <2> QED
    BY <2>1 DEF Blocks
<1>3. Sink = (Boundary + Group - 1) \div Group /\ TailBlocks = c \div Group
  BY DEF Sink, TailBlocks, Ceil
<1>4. (a + Boundary) \div Group <= a \div Group + (Boundary + Group - 1) \div Group
  <2> HIDE DEF a
  <2> QED
    BY <1>1, DivParts
<1>5. a \div Group <= c \div Group
  <2> HIDE DEF a, c
  <2> QED
    BY <1>1, DivMonotone
<1>6. /\ a \div Group \in Nat /\ c \div Group \in Nat /\ (a + Boundary) \div Group \in Nat
      /\ (Boundary + Group - 1) \div Group \in Nat
  <2>1. a + Boundary \in Nat /\ Boundary + Group - 1 \in Nat
    BY <1>1
  <2> HIDE DEF a, c
  <2> QED
    BY <1>1, <2>1, DivMod
<1> HIDE DEF a, c
<1> QED
  BY <1>2, <1>3, <1>4, <1>5, <1>6

LEMMA PersistentSpan ==
    ASSUME NEW r, NEW S, NEW table \in Seq(S), Named(r, table), PrecisionTail > 0,
           NEW minEnd \in Nat, NEW maxEnd \in Nat, NEW tail \in Nat, NEW k \in Nat,
           <<r, k + 1>> \in DOMAIN PersistentBlocks(table, minEnd, maxEnd, tail)
    PROVE  /\ k * Group < maxEnd /\ k \in 0 .. NumLogical(table, maxEnd) - 1
           /\ k < Sink \/ Lesser(tail, Monus(minEnd, 1)) \div Group <= k
<1> DEFINE n == NumLogical(table, maxEnd)
           K == Kept(n, minEnd, tail)
           q == Lesser(tail, Monus(minEnd, 1))
<1>1. PICK j \in K : table[j + 1] = <<r, k + 1>>
  BY DEF PersistentBlocks, FillsOf
<1>2. /\ n \in Nat
      /\ \A i \in 0 .. n - 1 : i \in Nat /\ i + 1 \in 1 .. Len(table)
  BY NumLogicalBound
<1>3. j \in 0 .. n - 1
  BY <1>1 DEF Kept
<1>4. table[j + 1] = <<r, j + 1>> /\ j \in Nat
  BY <1>2, <1>3, NamedBlock
<1>5. j = k
  BY <1>1, <1>4
<1>6. k < n /\ n <= Blocks(maxEnd)
  <2>1. Blocks(maxEnd) \in Nat /\ Len(table) \in Nat
    BY CeilType
  <2>2. n <= Blocks(maxEnd)
    BY <2>1 DEF NumLogical, Lesser
  <2> HIDE DEF n
  <2> QED
    BY <1>2, <1>3, <1>5, <2>2
<1>7. k * Group < maxEnd
  <2>1. Blocks(maxEnd) \in Nat
    BY CeilType
  <2>2. k < Blocks(maxEnd)
    <3> HIDE DEF n
    <3> QED
      BY <1>2, <1>6, <2>1
  <2> QED
    BY <2>2, BlockBelow
<1>8. \/ k < Blocks(Boundary)
      \/ k >= tail \div Group
      \/ k >= Monus(Blocks(minEnd), 1)
  <2> HIDE DEF n
  <2> QED
    BY <1>1, <1>5 DEF Kept
<1>9. q \in Nat /\ q <= tail /\ q <= Monus(minEnd, 1) /\ Monus(minEnd, 1) \in Nat
  BY DEF Lesser, Monus
<1>10. q \div Group <= tail \div Group /\ q \div Group <= Monus(minEnd, 1) \div Group
  <2> HIDE DEF q
  <2> QED
    BY <1>9, GeometryAssumption, DivMonotone
<1>11. Monus(minEnd, 1) \div Group <= Monus(Blocks(minEnd), 1)
  <2> DEFINE m == Monus(minEnd, 1)
             c == m \div Group
  <2>1. m \in Nat /\ c \in Nat
    <3>1. m \in Nat
      BY <1>9
    <3> HIDE DEF m
    <3> QED
      BY <3>1, GeometryAssumption, DivMod
  <2>2. Blocks(minEnd) \in Nat
    BY CeilType
  <2>3. CASE minEnd = 0
    <3>1. m = 0
      BY <2>3 DEF Monus
    <3>2. 0 \div Group <= 0
      BY GeometryAssumption, DivAbove
    <3> QED
      BY <2>1, <2>2, <3>1, <3>2 DEF Monus
  <2>4. CASE minEnd > 0
    <3>1. m < minEnd
      BY <2>4 DEF Monus
    <3>2. c * Group <= m
      <4> HIDE DEF m
      <4>1. /\ m % Group \in 0 .. Group - 1 /\ m = Group * (m \div Group) + (m % Group)
            /\ m \div Group \in Nat
        BY <2>1, GeometryAssumption, DivMod
      <4>2. m = Group * c + (m % Group)
        BY <4>1
      <4>3. Group * c \in Nat /\ Group * c = c * Group
        <5> HIDE DEF c
        <5> QED
          BY <2>1, GeometryAssumption
      <4> HIDE DEF c
      <4> QED
        BY <4>1, <4>2, <4>3, GeometryAssumption
    <3>3. c * Group \in Nat
      <4> HIDE DEF c
      <4> QED
        BY <2>1, GeometryAssumption
    <3>4. c * Group < minEnd
      <4> HIDE DEF c, m
      <4> QED
        BY <2>1, <3>1, <3>2, <3>3
    <3>5. c < Blocks(minEnd)
      <4> HIDE DEF c, m
      <4> QED
        BY <2>1, <3>4, BlockBelow
    <3> HIDE DEF c, m
    <3>6. c <= Monus(Blocks(minEnd), 1)
      BY <2>1, <2>2, <3>5 DEF Monus
    <3> QED
      BY <3>6 DEF c, m
  <2> QED
    BY <2>3, <2>4
<1>12. /\ q \div Group \in Nat /\ tail \div Group \in Nat /\ Monus(minEnd, 1) \div Group \in Nat
       /\ Monus(Blocks(minEnd), 1) \in Nat /\ Blocks(Boundary) = Sink /\ Sink \in Nat
  <2>1. Blocks(minEnd) \in Nat /\ Blocks(Boundary) = Sink /\ Sink \in Nat
    BY CeilType, GeometryAssumption DEF Sink
  <2>2. Monus(Blocks(minEnd), 1) \in Nat
    BY <2>1 DEF Monus
  <2> HIDE DEF q
  <2> QED
    BY <1>9, <2>1, <2>2, GeometryAssumption, DivMod
<1>13. k < Sink \/ q \div Group <= k
  <2> HIDE DEF q
  <2> QED
    BY <1>8, <1>10, <1>11, <1>12
<1> QED
  BY <1>3, <1>5, <1>7, <1>13

LEMMA TouchedSpan ==
    ASSUME NEW r, NEW e, Ordered(e), NEW S, e.table \in Seq(S), Named(r, e.table),
           NEW k \in Nat, <<r, k + 1>> \in DOMAIN TouchedFills(e)
    PROVE  /\ k * Group < LocalTokens(MaxEnd(e))
           /\ LocalTokens(MinStart(e)) \div Group <= k
<1> DEFINE n == NumLogical(e.table, LocalTokens(MaxEnd(e)))
           first == LocalTokens(MinStart(e))
           last == LocalTokens(MaxEnd(e))
<1>0. MinStart(e) \in Nat /\ MaxEnd(e) \in Nat
  BY DEF Ordered
<1>1. PICK j \in Touched(e) : e.table[j + 1] = <<r, k + 1>>
  BY DEF TouchedFills, FillsOf
<1>2. j \in Nat /\ <<r, k + 1>> = <<r, j + 1>>
  BY <1>0, <1>1, TouchedNames
<1>3. j = k
  BY <1>2
<1>4. first \in Nat /\ last \in Nat
  BY <1>0, CountParts
<1>5. k \in first \div Group .. Lesser((last - 1) \div Group, n - 1) /\ first < last /\ n > 0
  BY <1>1, <1>3 DEF Touched
<1>6. n \in Nat
  BY <1>4, NumLogicalBound
<1>7. /\ first \div Group \in Nat /\ (last - 1) \div Group \in Nat
      /\ (last - 1) % Group \in 0 .. Group - 1
      /\ last - 1 = Group * ((last - 1) \div Group) + ((last - 1) % Group)
  <2>1. last - 1 \in Nat
    <3> HIDE DEF first, last, n
    <3> QED
      BY <1>4, <1>5
  <2> HIDE DEF first, last, n
  <2> QED
    BY <1>4, <2>1, GeometryAssumption, DivMod
<1> HIDE DEF first, last, n
<1>8. first \div Group <= k /\ k <= (last - 1) \div Group
  BY <1>5, <1>6, <1>7 DEF Lesser
<1> DEFINE c == (last - 1) \div Group
<1>9. Group * k <= Group * c
  BY <1>7, <1>8, GeometryAssumption, TimesMonotone
<1>10. Group * k = k * Group /\ Group * k \in Nat /\ Group * c \in Nat
  <2>1. c \in Nat
    BY <1>7
  <2> HIDE DEF c
  <2> QED
    BY <2>1, GeometryAssumption
<1>11. k * Group < last
  <2>1. last - 1 = Group * c + ((last - 1) % Group)
    BY <1>7
  <2> HIDE DEF c
  <2> QED
    BY <1>4, <1>7, <1>9, <1>10, <2>1
<1> QED
  BY <1>8, <1>11 DEF first, last

\* Where the blocks lie that a request keeps or touches in a step: in its whole
\* context as long as that stays exact, and else in the sink or from the tail
\* on.  `more` is how much the end of the step is in doubt.
LEMMA EntrySpan ==
    ASSUME NEW r, NEW e, Ordered(e), NEW S, e.table \in Seq(S), Named(r, e.table),
           PrecisionTail > 0, MinEnd(e) <= MinStart(e) + PrecisionTail,
           NEW previous, NEW wasFull \in BOOLEAN, NEW more \in Nat,
           LocalTokens(MaxEnd(e)) <= LocalTokens(MinEnd(e)) + more
    PROVE  /\ HasFullContext(e) => \A k \in Nat :
                <<r, k + 1>> \in DOMAIN GroupBlocks(e, previous, wasFull) \cup DOMAIN TouchedFills(e)
                  => \/ k < Sink + TailBlocks
                     \/ wasFull /\ <<r, k + 1>> \in DOMAIN previous
           /\ ~HasFullContext(e) =>
                Fits(r, DOMAIN GroupBlocks(e, previous, wasFull) \cup DOMAIN TouchedFills(e),
                     TailBlocks + Ceil(more))
<1> DEFINE first == LocalTokens(MinStart(e))
           end   == LocalTokens(MinEnd(e))
           last  == LocalTokens(MaxEnd(e))
           tail  == LocalTokens(Monus(MinEnd(e), PrecisionTail))
           kept  == GroupBlocks(e, previous, wasFull)
           q     == Lesser(tail, Monus(end, 1))
           T     == PrecisionTail
<1>1. /\ MinStart(e) \in Nat /\ MinEnd(e) \in Nat /\ MaxEnd(e) \in Nat
      /\ MinStart(e) <= MinEnd(e) /\ MinEnd(e) <= MaxEnd(e) /\ T \in Nat
  BY GeometryAssumption DEF Ordered
<1>2. /\ Monus(MinEnd(e), T) \in Nat /\ Monus(MinEnd(e), T) <= MinStart(e)
      /\ Monus(MinEnd(e), T) <= MinEnd(e) /\ MinEnd(e) <= Monus(MinEnd(e), T) + T
  BY <1>1 DEF Monus
<1>3. /\ first \in Nat /\ end \in Nat /\ last \in Nat /\ tail \in Nat
      /\ tail <= first /\ end + Monus(MinEnd(e), T) <= tail + MinEnd(e)
      /\ last <= MaxEnd(e)
  BY <1>1, <1>2, CountParts, CountMonotone, CountGrowth, CountBound
<1>4. end <= tail + T
  <2> HIDE DEF first, end, last, tail, T
  <2> QED
    BY <1>1, <1>2, <1>3
<1>5. q \in Nat /\ q <= tail /\ end <= q + T
  <2> HIDE DEF first, end, last, tail
  <2> QED
    BY <1>1, <1>3, <1>4 DEF Lesser, Monus
<1>6. last <= q + (T + more)
  <2>1. last <= end + more
    OBVIOUS
  <2> HIDE DEF first, end, last, q, T
  <2> QED
    BY <1>1, <1>3, <1>5, <2>1
<1>7. ASSUME HasFullContext(e), NEW k \in Nat, k * Group < last
      PROVE  k < Sink + TailBlocks
  <2>1. MaxEnd(e) <= Boundary + T
    BY <1>1, <1>7, GeometryAssumption DEF HasFullContext
  <2>2. k * Group < Boundary + T /\ Boundary + T \in Nat
    <3>1. k * Group \in Nat
      BY GeometryAssumption
    <3> HIDE DEF last, T
    <3> QED
      BY <1>1, <1>3, <1>7, <2>1, <3>1, GeometryAssumption
  <2>3. k < Blocks(Boundary + T)
    BY <2>2, BlockBelow
  <2>4. Blocks(Boundary + T) \in Nat /\ Sink \in Nat /\ TailBlocks \in Nat
    <3>1. PrecisionTail + Group - 1 \in Nat
      BY GeometryAssumption
    <3> QED
      BY <2>2, <3>1, GeometryAssumption, CeilType DEF Sink, TailBlocks
  <2> QED
    BY <2>3, <2>4, CeilContext
<1>8. ASSUME NEW k \in Nat, <<r, k + 1>> \in DOMAIN TouchedFills(e)
      PROVE  k * Group < last /\ first \div Group <= k
  BY <1>8, TouchedSpan
<1>9. ASSUME ~(HasFullContext(e) /\ wasFull), NEW k \in Nat, <<r, k + 1>> \in DOMAIN kept
      PROVE  k * Group < last /\ (k < Sink \/ q \div Group <= k)
  <2>1. kept = PersistentBlocks(e.table, end, last, tail)
    BY <1>9 DEF GroupBlocks
  <2> HIDE DEF kept, end, last, tail
  <2> QED
    BY <1>3, <1>9, <2>1, PersistentSpan
<1>10. ASSUME HasFullContext(e), wasFull, NEW k \in Nat, <<r, k + 1>> \in DOMAIN kept
       PROVE  k * Group < last \/ <<r, k + 1>> \in DOMAIN previous
  <2> DEFINE n    == NumLogical(e.table, last)
             from == {Monus(Blocks(end), 1)} \cup Touched(e)
             news == {j \in 0 .. n - 1 : \E f \in from : j >= f}
             old  == DOMAIN previous \ {e.table[j + 1] : j \in news}
  <2>1. kept = Merge([b \in old |-> previous[b]], FillsOf(e.table, news, end))
    BY <1>10 DEF GroupBlocks
  <2>2. DOMAIN kept = old \cup {e.table[j + 1] : j \in news}
    BY <2>1 DEF Merge, FillsOf
  <2>3. CASE <<r, k + 1>> \in old
    BY <2>3
  <2>4. CASE <<r, k + 1>> \in {e.table[j + 1] : j \in news}
    <3>1. PICK j \in 0 .. n - 1 : e.table[j + 1] = <<r, k + 1>>
      BY <2>4
    <3>2. n \in Nat /\ j \in Nat /\ j + 1 \in 1 .. Len(e.table)
      <4>1. n \in Nat /\ \A i \in 0 .. n - 1 : i \in Nat /\ i + 1 \in 1 .. Len(e.table)
        <5> HIDE DEF last
        <5> QED
          BY <1>3, NumLogicalBound
      <4> HIDE DEF n
      <4> QED
        BY <3>1, <4>1
    <3>3. e.table[j + 1] = <<r, j + 1>>
      BY <3>2, NamedBlock
    <3>4. j = k
      BY <3>1, <3>2, <3>3
    <3>5. Blocks(last) \in Nat /\ n <= Blocks(last)
      <4>1. Len(e.table) \in Nat
        OBVIOUS
      <4> HIDE DEF last
      <4>2. Blocks(last) \in Nat
        BY <1>3, CeilType
      <4> QED
        BY <4>1, <4>2 DEF NumLogical, Lesser
    <3>6. k < Blocks(last)
      <4> HIDE DEF n, last
      <4> QED
        BY <3>1, <3>2, <3>4, <3>5
    <3> QED
      BY <1>3, <3>6, BlockBelow
  <2> HIDE DEF kept, old, news
  <2> QED
    BY <1>10, <2>2, <2>3, <2>4
<1>11. ASSUME HasFullContext(e), NEW k \in Nat, <<r, k + 1>> \in DOMAIN kept \cup DOMAIN TouchedFills(e)
       PROVE  k < Sink + TailBlocks \/ (wasFull /\ <<r, k + 1>> \in DOMAIN previous)
  <2> HIDE DEF kept, last, first
  <2>1. k * Group < last \/ (wasFull /\ <<r, k + 1>> \in DOMAIN previous)
    BY <1>8, <1>9, <1>10, <1>11
  <2> QED
    BY <1>7, <1>11, <2>1
<1>12. ASSUME ~HasFullContext(e)
       PROVE  Fits(r, DOMAIN kept \cup DOMAIN TouchedFills(e), TailBlocks + Ceil(more))
  <2> DEFINE low == q \div Group
  <2>1. low \in Nat /\ low <= tail \div Group /\ tail \div Group <= first \div Group
        /\ tail \div Group \in Nat /\ first \div Group \in Nat
    <3> HIDE DEF q, tail, first
    <3> QED
      BY <1>3, <1>5, GeometryAssumption, DivMonotone, DivMod
  <2>2. ASSUME NEW k \in Nat, <<r, k + 1>> \in DOMAIN kept \cup DOMAIN TouchedFills(e)
        PROVE  k < Sink \/ (low <= k /\ k < low + (TailBlocks + Ceil(more)))
    <3>1. k * Group < last /\ (k < Sink \/ low <= k)
      <4> HIDE DEF kept, last, first
      <4>1. CASE <<r, k + 1>> \in DOMAIN kept
        BY <1>9, <1>12, <4>1
      <4>2. CASE <<r, k + 1>> \in DOMAIN TouchedFills(e)
        <5>1. k * Group < last /\ first \div Group <= k
          BY <1>8, <4>2
        <5> HIDE DEF low, q, tail
        <5> QED
          BY <2>1, <5>1
      <4> HIDE DEF low, q
      <4> QED
        BY <2>2, <4>1, <4>2
    <3>2. k < low + Ceil(T + more + Group - 1)
      <4>1. T + more \in Nat
        BY <1>1
      <4> HIDE DEF q, last, T
      <4> QED
        BY <1>3, <1>5, <1>6, <3>1, <4>1, SpanBlocks
    <3>3. Ceil(T + more + Group - 1) <= TailBlocks + Ceil(more)
      BY CeilSpan
    <3>4. Ceil(T + more + Group - 1) \in Nat /\ TailBlocks \in Nat /\ Ceil(more) \in Nat
      <4>1. T + more + Group - 1 \in Nat /\ T + Group - 1 \in Nat
        BY <1>1, GeometryAssumption
      <4> QED
        BY <4>1, CeilType DEF TailBlocks
    <3> HIDE DEF low, T
    <3> QED
      BY <2>1, <3>1, <3>2, <3>3, <3>4
  <2> HIDE DEF low, kept
  <2> QED
    BY <2>1, <2>2 DEF Fits
<1> QED
  BY <1>11, <1>12

\* What bounds the blocks of a request.  Once nothing is pending, the blocks it
\* keeps are the sink and as many in a row as a tail covers, and a correction
\* is of blocks it keeps: the tail reaches back over all a step can touch.
RequestFits(r) ==
    /\ r \in fullContext => \A k \in Nat :
          <<r, k + 1>> \in DOMAIN requestBlocks[r] => k < Sink + TailBlocks
    /\ DOMAIN pendingBlocks[r] = {} =>
          /\ Fits(r, DOMAIN requestBlocks[r], TailBlocks)
          /\ DOMAIN resolvedBlocks[r] \subseteq DOMAIN requestBlocks[r]
    /\ \A k \in Nat : <<r, k + 1>> \in DOMAIN pendingBlocks[r] =>
          /\ LocalTokens(Monus(unsettled[r], PrecisionTail)) \div Group <= k
          /\ r \in fullContext => k < Sink + TailBlocks

FitsInv == \A r \in Req : RequestFits(r)

LEMMA SmallSizes ==
    /\ Sink \in Nat /\ TailBlocks \in Nat /\ Ceil(0) = 0
    /\ \A n \in Nat : Ceil(n) \in Nat
<1>1. PrecisionTail + Group - 1 \in Nat
  BY GeometryAssumption
<1>2. \A n \in Nat : Ceil(n) \in Nat
  BY CeilType
<1>3. Ceil(0) = 0
  <2>1. Ceil(0) \in Nat
    BY <1>2
  <2>2. (Group - 1) \div Group <= 0
    BY GeometryAssumption, DivAbove
  <2>3. Ceil(0) = (Group - 1) \div Group
    <3>1. 0 + Group - 1 = Group - 1
      BY GeometryAssumption
    <3> QED
      BY <3>1 DEF Ceil
  <2> QED
    BY <2>1, <2>2, <2>3
<1> QED
  BY <1>1, <1>2, <1>3, GeometryAssumption DEF Sink, TailBlocks

\* Blocks of a context that is exact as a whole fit anyway.
LEMMA ContextFits ==
    ASSUME NEW r, NEW B, \A k \in Nat : <<r, k + 1>> \in B => k < Sink + TailBlocks,
           NEW more \in Nat
    PROVE  Fits(r, B, TailBlocks + more)
<1>1. \A k \in Nat : <<r, k + 1>> \in B => k < Sink \/ (Sink <= k /\ k < Sink + (TailBlocks + more))
  BY SmallSizes
<1> QED
  BY <1>1, SmallSizes DEF Fits

LEMMA FitsLess ==
    ASSUME NEW r, NEW B, NEW c \in Nat, Fits(r, B, c), NEW A \in SUBSET B, NEW d \in Nat, c <= d
    PROVE  Fits(r, A, d)
<1>1. PICK low \in Nat : \A k \in Nat : <<r, k + 1>> \in B => k < Sink \/ (low <= k /\ k < low + c)
  BY DEF Fits
<1>2. \A k \in Nat : <<r, k + 1>> \in A => k < Sink \/ (low <= k /\ k < low + d)
  BY <1>1
<1> QED
  BY <1>2 DEF Fits

\* What an entry of a step says when the tail is longer than any step.
Bounded(r, e, drafts) ==
    /\ Ordered(e) /\ e.table \in Seq(Req \X Nat) /\ Named(r, e.table)
    /\ requestBlocks'[r] = GroupBlocks(e, requestBlocks[r], r \in fullContext)
    /\ r \in fullContext' <=> HasFullContext(e)
    /\ \/ DOMAIN pendingBlocks'[r] = DOMAIN TouchedFills(e)
       \/ /\ DOMAIN pendingBlocks'[r] = {}
          /\ e.rollback = 0 \/ Touched(e) = {}
    /\ DOMAIN epochBlocks'[r] \subseteq DOMAIN requestBlocks'[r] \cup DOMAIN TouchedFills(e)
    /\ MinEnd(e) <= MinStart(e) + PrecisionTail
    /\ MaxEnd(e) <= MinEnd(e) + (drafts + Lookahead)
    /\ e.rollback = 0 => MaxEnd(e) = MinEnd(e)
    /\ Monus(unsettled'[r], PrecisionTail) <= MinStart(e) /\ unsettled'[r] \in Nat

LEMMA EntryBounded ==
    ASSUME PrecisionTail >= Budget + 2 * Lookahead,
           PrecisionInv, OwnInv, NEW R \in SUBSET Req, NEW step \in [R -> Shares], Step(step),
           \A r \in R : computed[r] + step[r].tokens < MaxLen,
           NEW r \in R, NEW e, e = EntryOf(r, step)
    PROVE  Bounded(r, e, step[r].drafts)
<1>0. e = Entry(r, step, Grown(r, Tokens(r, step))) /\ CountInv /\ EndsInv /\ r \in Req
  BY DEF EntryOf, PrecisionInv
<1>1. /\ Ordered(e) /\ e.table \in Seq(Req \X Nat) /\ Named(r, e.table)
  <2>1. Sized(r, e)
    BY EntrySized
  <2> QED
    BY <2>1 DEF Sized
<1>2. PICK scheduled : /\ Update({}, scheduled) /\ DOMAIN scheduled = R
                       /\ \A q \in R : scheduled[q] = EntryOf(q, step)
  BY StepUpdate
<1>3. Updated(r, e)
  <2>1. DOMAIN scheduled \subseteq Req /\ r \in DOMAIN scheduled /\ e = scheduled[r]
    BY <1>2
  <2> QED
    BY <1>2, <2>1, UpdatedTracker
<1>4. DOMAIN pendingBlocks[r] = {} /\ DOMAIN epochBlocks[r] = {}
  <2>1. DOMAIN pendingBlocks[r] = {}
    BY <1>0, NothingPending
  <2> QED
    BY <1>0, <2>1 DEF OwnInv
<1> DEFINE t == step[r].tokens
           x == step[r].rejected
           d == step[r].drafts
           c == computed[r]
           L == Lookahead
           T == PrecisionTail
<1>5. /\ t \in 1 .. Budget /\ x \in Nat /\ d \in Nat /\ d <= L /\ x <= d /\ x <= t /\ L \in Nat
      /\ Budget \in Nat /\ T \in Nat /\ Budget + 2 * L <= T
  BY SequencesAssumption, GeometryAssumption DEF Shares
<1>6. c \in Nat
  BY <1>0, CountAhead DEF Step
<1>7. /\ MinStart(e) = Monus(c, d + L) /\ MinEnd(e) = MinStart(e) + (t + L)
      /\ MaxEnd(e) = c + (t + L) /\ e.rollback = d + L
  BY <1>0 DEF Entry, MinStart, MinEnd, MaxEnd
<1>8. unsettled'[r] = c + t - x
  BY <1>0 DEF Step
<1>9. /\ MinEnd(e) <= MinStart(e) + T
      /\ MaxEnd(e) <= MinEnd(e) + (d + L)
      /\ e.rollback = 0 => MaxEnd(e) = MinEnd(e)
      /\ Monus(c + t - x, T) <= MinStart(e) /\ c + t - x \in Nat
  <2> HIDE DEF t, x, d, c, L, T
  <2> QED
    BY <1>5, <1>6, <1>7 DEF Monus
<1>10. requestBlocks'[r] = GroupBlocks(e, requestBlocks[r], r \in fullContext)
  BY <1>3 DEF Updated, Regrouped
<1>11. r \in fullContext' <=> HasFullContext(e)
  BY <1>3 DEF Updated
<1> DEFINE opened == {q \in DOMAIN scheduled :
                        scheduled[q].rollback > 0 /\ Touched(scheduled[q]) # {}}
<1>12. e.rollback \in Nat
  <2> HIDE DEF d, L
  <2> QED
    BY <1>5, <1>7
<1>13. \/ DOMAIN pendingBlocks'[r] = DOMAIN TouchedFills(e)
       \/ /\ DOMAIN pendingBlocks'[r] = {}
          /\ e.rollback = 0 \/ Touched(e) = {}
  <2>1. CASE e.rollback > 0 /\ Touched(e) # {}
    BY <1>3, <2>1 DEF Updated
  <2>2. CASE ~(e.rollback > 0 /\ Touched(e) # {})
    <3>1. DOMAIN pendingBlocks'[r] = {}
      BY <1>3, <1>4, <2>2 DEF Updated
    <3> QED
      BY <1>12, <2>2, <3>1
  <2> QED
    BY <2>1, <2>2
<1>14. DOMAIN epochBlocks'[r] \subseteq DOMAIN requestBlocks'[r] \cup DOMAIN TouchedFills(e)
  <2>1. e = scheduled[r] /\ r \in DOMAIN scheduled
    BY <1>2
  <2>2. CASE r \in opened
    <3>1. epochBlocks'[r] = Merge([b \in DOMAIN TouchedFills(e) |-> stepBlocks'[b]],
                                  IF HasFullContext(e) THEN NoBlocks ELSE requestBlocks'[r])
      BY <1>0, <1>2, <2>1, <2>2 DEF Update
    <3>2. DOMAIN NoBlocks = {}
      BY NoFillings
    <3> QED
      BY <3>1, <3>2 DEF Merge
  <2>3. CASE r \notin opened
    <3>1. epochBlocks'[r] = epochBlocks[r]
      BY <1>0, <1>2, <2>3 DEF Update
    <3> QED
      BY <1>4, <3>1
  <2> QED
    BY <2>2, <2>3
<1> QED
  BY <1>1, <1>8, <1>9, <1>10, <1>11, <1>13, <1>14 DEF Bounded

LEMMA TailPositive ==
    ASSUME PrecisionTail >= Budget + 2 * Lookahead
    PROVE  PrecisionTail > 0
  BY SequencesAssumption, GeometryAssumption

\* The blocks kept for an end that is known fit in a tail.
LEMMA PersistentFits ==
    ASSUME PrecisionTail > 0, NEW r, NEW S, NEW table \in Seq(S), Named(r, table),
           NEW end \in Nat, NEW maxEnd \in Nat, NEW B,
           B = DOMAIN PersistentBlocks(table, LocalTokens(end), maxEnd,
                                       LocalTokens(Monus(end, PrecisionTail))),
           \A k \in Nat : <<r, k + 1>> \in B => k * Group < LocalTokens(end)
    PROVE  Fits(r, B, TailBlocks)
<1> DEFINE high == LocalTokens(end)
           tail == LocalTokens(Monus(end, PrecisionTail))
           q    == Lesser(tail, Monus(high, 1))
           T    == PrecisionTail
<1>1. T \in Nat /\ T > 0
  BY GeometryAssumption
<1>2. /\ Monus(end, T) \in Nat /\ Monus(end, T) <= end /\ end <= Monus(end, T) + T
  BY <1>1 DEF Monus
<1>3. high \in Nat /\ tail \in Nat /\ high + Monus(end, T) <= tail + end
  BY <1>1, <1>2, CountParts, CountGrowth
<1>4. q \in Nat /\ high <= q + T
  <2> HIDE DEF high, tail, T
  <2>1. high <= tail + T
    BY <1>1, <1>2, <1>3
  <2> QED
    BY <1>1, <1>3, <2>1 DEF Lesser, Monus
<1> DEFINE low == q \div Group
<1>5. low \in Nat
  <2> HIDE DEF q
  <2> QED
    BY <1>4, GeometryAssumption, DivMod
<1>6. ASSUME NEW k \in Nat, <<r, k + 1>> \in B
      PROVE  k < Sink \/ (low <= k /\ k < low + TailBlocks)
  <2>1. k * Group < high
    BY <1>6
  <2>2. k < Sink \/ low <= k
    <3> HIDE DEF high, tail
    <3> QED
      BY <1>3, <1>6, PersistentSpan DEF high, tail
  <2>3. k < low + Ceil(T + Group - 1)
    <3> HIDE DEF high, q, T
    <3> QED
      BY <1>1, <1>3, <1>4, <2>1, SpanBlocks
  <2> HIDE DEF low
  <2> QED
    BY <2>2, <2>3 DEF TailBlocks
<1> HIDE DEF low
<1> QED
  BY <1>5, <1>6 DEF Fits

\* A step that leaves nothing pending does not leave its end in doubt, or its
\* table ends before the rows it might take back.
LEMMA KeptFits ==
    ASSUME PrecisionTail > 0, NEW r \in Req, NEW e, NEW drafts \in Nat, Bounded(r, e, drafts),
           ~HasFullContext(e), DOMAIN pendingBlocks'[r] = {}
    PROVE  Fits(r, DOMAIN requestBlocks'[r], TailBlocks)
<1> DEFINE n     == NumLogical(e.table, LocalTokens(MaxEnd(e)))
           first == LocalTokens(MinStart(e))
           end   == LocalTokens(MinEnd(e))
           last  == LocalTokens(MaxEnd(e))
           tail  == LocalTokens(Monus(MinEnd(e), PrecisionTail))
<1>1. e.table \in Seq(Req \X Nat) /\ Named(r, e.table) /\ Ordered(e)
  BY DEF Bounded
<1>2. requestBlocks'[r] = PersistentBlocks(e.table, end, last, tail)
  BY DEF Bounded, GroupBlocks
<1>3. e.rollback = 0 \/ Touched(e) = {}
  <2>1. DOMAIN TouchedFills(e) = {e.table[k + 1] : k \in Touched(e)}
    BY DEF TouchedFills, FillsOf
  <2>2. DOMAIN TouchedFills(e) = {} => Touched(e) = {}
    BY <2>1
  <2> QED
    BY <2>2 DEF Bounded
<1>4. /\ MinStart(e) \in Nat /\ MinEnd(e) \in Nat /\ MaxEnd(e) \in Nat
      /\ MinStart(e) <= MinEnd(e) /\ Monus(MinEnd(e), PrecisionTail) \in Nat
  BY <1>1, GeometryAssumption DEF Ordered, Monus
<1>5. /\ first \in Nat /\ end \in Nat /\ last \in Nat /\ tail \in Nat /\ first <= end
  BY <1>4, CountParts, CountMonotone
<1>6. ASSUME NEW k \in Nat, <<r, k + 1>> \in DOMAIN requestBlocks'[r]
      PROVE  k * Group < end
  <2>1. k * Group < last /\ k \in 0 .. n - 1
    <3> HIDE DEF end, last, tail
    <3>1. <<r, k + 1>> \in DOMAIN PersistentBlocks(e.table, end, last, tail)
      BY <1>2, <1>6
    <3> QED
      BY <1>1, <1>5, <3>1, PersistentSpan DEF last
  <2>2. CASE e.rollback = 0
    <3>1. MaxEnd(e) = MinEnd(e)
      BY <2>2 DEF Bounded
    <3> QED
      BY <2>1, <3>1
  <2>3. CASE Touched(e) = {} /\ ~(first < last)
    <3>1. k * Group \in Nat
      BY GeometryAssumption
    <3> HIDE DEF first, last, end, n
    <3> QED
      BY <1>5, <2>1, <2>3, <3>1
  <2>4. CASE Touched(e) = {} /\ first < last
    <3>1. n \in Nat
      <4>1. LocalTokens(MaxEnd(e)) \in Nat
        BY <1>5
      <4> QED
        BY <1>1, <4>1, NumLogicalBound
    <3>2. first \div Group .. Lesser((last - 1) \div Group, n - 1) = {}
      <4>1. n > 0
        <5> HIDE DEF n
        <5> QED
          BY <2>1, <3>1
      <4> QED
        BY <2>4, <4>1 DEF Touched
    <3> HIDE DEF first, last, end, n
    <3>3. first - 0 \in Nat /\ last - 1 \in Nat /\ first <= last - 1
      BY <1>5, <2>4
    <3>4. /\ first \div Group \in Nat /\ (last - 1) \div Group \in Nat
          /\ first \div Group <= (last - 1) \div Group
      BY <1>5, <3>3, GeometryAssumption, DivMod, DivMonotone
    <3>5. k < first \div Group
      <4> DEFINE a == first \div Group
                 z == (last - 1) \div Group
      <4>1. a \in Nat /\ z \in Nat /\ a <= z /\ a .. Lesser(z, n - 1) = {}
        BY <3>2, <3>4
      <4> HIDE DEF a, z
      <4>2. a \notin a .. Lesser(z, n - 1)
        BY <4>1
      <4>3. k < a
        BY <2>1, <3>1, <4>1, <4>2 DEF Lesser
      <4> QED
        BY <4>3 DEF a
    <3>6. Whole(k, MinStart(e))
      BY <1>4, <3>5, BeforeRow DEF first
    <3>7. k * Group < LocalTokens(MinEnd(e))
      BY <1>4, <3>6, WholeBelow
    <3> QED
      BY <3>7 DEF end
  <2> QED
    BY <1>3, <2>2, <2>3, <2>4
<1> HIDE DEF last
<1> QED
  BY <1>1, <1>2, <1>4, <1>5, <1>6, PersistentFits

\* The growth of the doubt about the end, in rows of this rank.
LEMMA EndInDoubt ==
    ASSUME NEW e, Ordered(e), NEW more \in Nat, MaxEnd(e) <= MinEnd(e) + more
    PROVE  LocalTokens(MaxEnd(e)) <= LocalTokens(MinEnd(e)) + more
<1> DEFINE a == LocalTokens(MinEnd(e))
           b == LocalTokens(MaxEnd(e))
<1>1. MinEnd(e) \in Nat /\ MaxEnd(e) \in Nat /\ MinEnd(e) <= MaxEnd(e)
  BY DEF Ordered
<1>2. a \in Nat /\ b \in Nat /\ b + MinEnd(e) <= a + MaxEnd(e)
  BY <1>1, CountParts, CountGrowth
<1> HIDE DEF a, b
<1>3. b <= a + more
  BY <1>1, <1>2
<1> QED
  BY <1>3 DEF a, b

LEMMA ScheduledFits ==
    ASSUME PrecisionTail > 0, NEW r \in Req, NEW e, NEW drafts \in Nat, Bounded(r, e, drafts),
           RequestFits(r), resolvedBlocks' = Nothing
    PROVE  /\ RequestFits(r)'
           /\ Fits(r, DOMAIN requestBlocks'[r] \cup DOMAIN TouchedFills(e),
                   TailBlocks + Ceil(drafts + Lookahead))
<1>1. /\ Ordered(e) /\ e.table \in Seq(Req \X Nat) /\ Named(r, e.table)
      /\ requestBlocks'[r] = GroupBlocks(e, requestBlocks[r], r \in fullContext)
      /\ r \in fullContext' <=> HasFullContext(e)
      /\ MinEnd(e) <= MinStart(e) + PrecisionTail
      /\ MaxEnd(e) <= MinEnd(e) + (drafts + Lookahead)
  BY DEF Bounded
<1>2. drafts + Lookahead \in Nat
  BY SequencesAssumption
<1> DEFINE both == DOMAIN requestBlocks'[r] \cup DOMAIN TouchedFills(e)
<1>3. /\ HasFullContext(e) => \A k \in Nat : <<r, k + 1>> \in both
            => \/ k < Sink + TailBlocks
               \/ r \in fullContext /\ <<r, k + 1>> \in DOMAIN requestBlocks[r]
      /\ ~HasFullContext(e) => Fits(r, both, TailBlocks + Ceil(drafts + Lookahead))
  <2>1. LocalTokens(MaxEnd(e)) <= LocalTokens(MinEnd(e)) + (drafts + Lookahead)
    BY <1>1, <1>2, EndInDoubt
  <2>2. (r \in fullContext) \in BOOLEAN
    OBVIOUS
  <2>3. both = DOMAIN GroupBlocks(e, requestBlocks[r], r \in fullContext) \cup DOMAIN TouchedFills(e)
    BY <1>1
  <2> HIDE DEF both
  <2> QED
    BY <1>1, <1>2, <2>1, <2>2, <2>3, EntrySpan
<1>4. HasFullContext(e) => \A k \in Nat : <<r, k + 1>> \in both => k < Sink + TailBlocks
  BY <1>3 DEF RequestFits
<1>5. Fits(r, both, TailBlocks + Ceil(drafts + Lookahead))
  <2>1. Ceil(drafts + Lookahead) \in Nat
    BY <1>2, SmallSizes
  <2> HIDE DEF both
  <2> QED
    BY <1>3, <1>4, <2>1, ContextFits
<1>6. r \in fullContext' => \A k \in Nat : <<r, k + 1>> \in DOMAIN requestBlocks'[r] => k < Sink + TailBlocks
  BY <1>1, <1>4
<1>7. ASSUME DOMAIN pendingBlocks'[r] = {}
      PROVE  Fits(r, DOMAIN requestBlocks'[r], TailBlocks)
  <2>1. CASE HasFullContext(e)
    <3>1. Fits(r, DOMAIN requestBlocks'[r], TailBlocks + 0)
      BY <1>1, <1>6, <2>1, ContextFits
    <3>2. TailBlocks + 0 = TailBlocks
      BY SmallSizes
    <3> QED
      BY <3>1, <3>2
  <2>2. CASE ~HasFullContext(e)
    BY <1>7, <2>2, KeptFits
  <2> QED
    BY <2>1, <2>2
<1>8. DOMAIN resolvedBlocks'[r] = {}
  BY NoFillings DEF Nothing
<1>9. ASSUME NEW k \in Nat, <<r, k + 1>> \in DOMAIN pendingBlocks'[r]
      PROVE  /\ LocalTokens(Monus(unsettled'[r], PrecisionTail)) \div Group <= k
             /\ r \in fullContext' => k < Sink + TailBlocks
  <2>1. <<r, k + 1>> \in DOMAIN TouchedFills(e)
    BY <1>9 DEF Bounded
  <2>2. LocalTokens(MinStart(e)) \div Group <= k
    BY <1>1, <2>1, TouchedSpan
  <2> DEFINE a == LocalTokens(Monus(unsettled'[r], PrecisionTail))
             z == LocalTokens(MinStart(e))
  <2>3. a \in Nat /\ z \in Nat /\ a <= z
    <3>1. MinStart(e) \in Nat /\ Monus(unsettled'[r], PrecisionTail) \in Nat
          /\ Monus(unsettled'[r], PrecisionTail) <= MinStart(e)
      <4>1. unsettled'[r] \in Nat /\ MinStart(e) \in Nat
            /\ Monus(unsettled'[r], PrecisionTail) <= MinStart(e)
        BY DEF Bounded, Ordered
      <4> QED
        BY <4>1, GeometryAssumption DEF Monus
    <3> QED
      BY <3>1, CountParts, CountMonotone
  <2>4. a \div Group <= k
    <3> HIDE DEF a, z
    <3>1. a \div Group <= z \div Group /\ a \div Group \in Nat /\ z \div Group \in Nat
      BY <2>3, GeometryAssumption, DivMonotone, DivMod
    <3>2. z \div Group <= k
      BY <2>2 DEF z
    <3> QED
      BY <3>1, <3>2
  <2> QED
    BY <1>1, <1>4, <2>1, <2>4
<1>10. RequestFits(r)'
  BY <1>6, <1>7, <1>8, <1>9 DEF RequestFits, Fits, Sink, TailBlocks, Ceil, LocalTokens, LocalTokensOf, Monus, Lesser
<1> QED
  BY <1>5, <1>10

LEMMA OthersFit ==
    ASSUME NEW r \in Req, RequestFits(r), resolvedBlocks' = Nothing,
           requestBlocks'[r] = requestBlocks[r], pendingBlocks'[r] = pendingBlocks[r],
           r \in fullContext' <=> r \in fullContext, DOMAIN pendingBlocks[r] = {}
    PROVE  RequestFits(r)'
<1>1. DOMAIN resolvedBlocks'[r] = {}
  BY NoFillings DEF Nothing
<1> QED
  BY <1>1 DEF RequestFits, Fits, Sink, TailBlocks, Ceil

LEMMA StepFits ==
    ASSUME PrecisionTail >= Budget + 2 * Lookahead,
           PrecisionInv, OwnInv, FitsInv,
           NEW R \in SUBSET Req, NEW step \in [R -> Shares], Step(step),
           \A r \in R : computed[r] + step[r].tokens < MaxLen
    PROVE  FitsInv'
<1>1. PICK scheduled : Update({}, scheduled)
  BY StepUpdate
<1>2. resolvedBlocks' = Nothing
  BY <1>1 DEF Update
<1>3. SUFFICES ASSUME NEW r \in Req PROVE RequestFits(r)'
  BY DEF FitsInv
<1>4. RequestFits(r)
  BY DEF FitsInv
<1>5. CASE r \in R
  <2>1. PICK e : e = EntryOf(r, step)
    OBVIOUS
  <2>2. Bounded(r, e, step[r].drafts)
    BY <1>5, <2>1, EntryBounded
  <2>3. step[r].drafts \in Nat
    BY <1>5, SequencesAssumption DEF Shares
  <2> QED
    BY <1>2, <1>4, <2>2, <2>3, TailPositive, ScheduledFits
<1>6. CASE r \notin R
  <2>1. /\ requestBlocks'[r] = requestBlocks[r] /\ pendingBlocks'[r] = pendingBlocks[r]
        /\ r \in fullContext' <=> r \in fullContext
    BY <1>6, OthersUntouched DEF PrecisionInv
  <2>2. DOMAIN pendingBlocks[r] = {}
    BY NothingPending DEF PrecisionInv
  <2> QED
    BY <1>2, <1>4, <2>1, <2>2, OthersFit
<1> QED
  BY <1>5, <1>6

\* Once the end of a step is known, what was pending is kept: it is not before
\* the tail, and what was not written is not part of the correction.
LEMMA SettledFits ==
    ASSUME PrecisionTail > 0, PrecisionInv, OwnInv, Settle, NEW r \in Req, RequestFits(r),
           r \in DOMAIN unsettled, DOMAIN pendingBlocks[r] # {}
    PROVE  RequestFits(r)'
<1> DEFINE end   == unsettled[r]
           high  == LocalTokens(end)
           tail  == LocalTokens(Monus(end, PrecisionTail))
           table == tables[r]
<1>1. /\ end \in Nat /\ table \in Seq(Req \X Nat) /\ Named(r, table)
      /\ \A k \in Nat : <<r, k + 1>> \in DOMAIN pendingBlocks[r] => pendingBlocks[r][<<r, k + 1>>] = k
  BY SettledEnd
<1>2. /\ requestBlocks'[r] = Rebuilt(r, table, end)
      /\ resolvedBlocks'[r] = Corrected(r, end)
      /\ pendingBlocks'[r] = NoBlocks
      /\ fullContext' = fullContext
  BY DEF Settle, ResolveAsync
<1>3. Monus(end, PrecisionTail) \in Nat
  BY <1>1, GeometryAssumption DEF Monus
<1>4. high \in Nat /\ tail \in Nat
  BY <1>1, <1>3, CountParts
<1>5. DOMAIN Corrected(r, end) \subseteq DOMAIN pendingBlocks[r]
  BY DEF Corrected
<1>6. ASSUME NEW b \in DOMAIN pendingBlocks[r]
      PROVE  \E k \in Nat : b = <<r, k + 1>> /\ k + 1 \in 1 .. Len(table)
  <2>1. b \in Members(table)
    <3>1. pendingBlocks[r] \in Placings(Members(table))
      BY DEF OwnInv
    <3> HIDE DEF table
    <3> QED
      BY <3>1, <1>6, PlacingParts
  <2> HIDE DEF table
  <2> QED
    BY <1>1, <2>1, NamedMember
<1>7. CASE r \in fullContext
  <2>1. DOMAIN requestBlocks'[r] = (DOMAIN requestBlocks[r] \ DOMAIN pendingBlocks[r])
                                      \cup DOMAIN Corrected(r, end)
    BY <1>2, <1>7 DEF Rebuilt, Merge
  <2>2. \A k \in Nat : <<r, k + 1>> \in DOMAIN requestBlocks'[r] => k < Sink + TailBlocks
    BY <1>5, <1>7, <2>1 DEF RequestFits
  <2>3. DOMAIN resolvedBlocks'[r] \subseteq DOMAIN requestBlocks'[r]
    BY <1>2, <2>1
  <2>4. Fits(r, DOMAIN requestBlocks'[r], TailBlocks)
    <3>1. Fits(r, DOMAIN requestBlocks'[r], TailBlocks + 0) /\ TailBlocks + 0 = TailBlocks
      BY <2>2, SmallSizes, ContextFits
    <3> QED
      BY <3>1
  <2>5. DOMAIN pendingBlocks'[r] = {}
    BY <1>2, NoFillings
  <2> QED
    BY <2>2, <2>3, <2>4, <2>5 DEF RequestFits, Fits, Sink, TailBlocks, Ceil
<1>8. CASE r \notin fullContext
  <2>1. requestBlocks'[r] = PersistentBlocks(table, high, high, tail)
    BY <1>2, <1>8 DEF Rebuilt
  <2>2. ASSUME NEW k \in Nat, <<r, k + 1>> \in DOMAIN requestBlocks'[r]
        PROVE  k * Group < high
    <3> HIDE DEF high, tail, table
    <3> QED
      BY <1>1, <1>4, <2>1, <2>2, PersistentSpan
  <2>3. Fits(r, DOMAIN requestBlocks'[r], TailBlocks)
    <3> HIDE DEF table, end
    <3> QED
      BY <1>1, <1>4, <2>1, <2>2, PersistentFits
  <2>4. ASSUME NEW b \in DOMAIN Corrected(r, end)
        PROVE  b \in DOMAIN requestBlocks'[r]
    <3>1. b \in DOMAIN pendingBlocks[r] /\ BlockFill(high, pendingBlocks[r][b]) > 0
      BY <2>4 DEF Corrected
    <3>2. PICK k \in Nat : b = <<r, k + 1>> /\ k + 1 \in 1 .. Len(table)
      BY <1>6, <3>1
    <3>3. BlockFill(high, k) > 0
      BY <1>1, <3>1, <3>2
    <3>4. k * Group < high
      <4>1. k * Group \in Nat
        BY GeometryAssumption
      <4> HIDE DEF high
      <4> QED
        BY <1>4, <3>3, <4>1, GeometryAssumption DEF BlockFill, Lesser, Monus
    <3>5. k \in 0 .. NumLogical(table, high) - 1
      <4> HIDE DEF high, table
      <4> QED
        BY <1>1, <1>4, <3>2, <3>4, LogicalBlock
    <3>6. tail \div Group <= k
      BY <3>1, <3>2 DEF RequestFits
    <3>7. k \in Kept(NumLogical(table, high), high, tail)
      <4>1. tail \div Group \in Nat
        <5> HIDE DEF tail
        <5> QED
          BY <1>4, GeometryAssumption, DivMod
      <4> HIDE DEF high, tail, table
      <4> QED
        BY <3>5, <3>6, <4>1 DEF Kept
    <3>8. table[k + 1] = b
      <4> HIDE DEF table
      <4> QED
        BY <1>1, <3>2, NamedBlock
    <3> HIDE DEF table, high, tail
    <3> QED
      BY <2>1, <3>7, <3>8 DEF PersistentBlocks, FillsOf
  <2>5. DOMAIN resolvedBlocks'[r] \subseteq DOMAIN requestBlocks'[r]
    BY <1>2, <2>4
  <2>6. DOMAIN pendingBlocks'[r] = {} /\ r \notin fullContext'
    BY <1>2, <1>8, NoFillings
  <2> QED
    BY <2>3, <2>5, <2>6 DEF RequestFits, Fits, Sink, TailBlocks, Ceil
<1> QED
  BY <1>7, <1>8

LEMMA SettleFits ==
    ASSUME PrecisionTail > 0, PrecisionInv, OwnInv, FitsInv, Settle
    PROVE  FitsInv'
<1>1. SUFFICES ASSUME NEW r \in Req PROVE RequestFits(r)'
  BY DEF FitsInv
<1>2. RequestFits(r)
  BY DEF FitsInv
<1>3. CASE r \in DOMAIN unsettled /\ DOMAIN pendingBlocks[r] # {}
  BY <1>2, <1>3, SettledFits
<1>4. CASE ~(r \in DOMAIN unsettled /\ DOMAIN pendingBlocks[r] # {})
  <2>1. DOMAIN pendingBlocks[r] = {}
    BY <1>4 DEF PrecisionInv, EndsInv
  <2>2. /\ requestBlocks'[r] = requestBlocks[r] /\ resolvedBlocks'[r] = resolvedBlocks[r]
        /\ fullContext' = fullContext
        /\ pendingBlocks'[r] = NoBlocks \/ pendingBlocks'[r] = pendingBlocks[r]
    BY <1>4, <2>1 DEF Settle, ResolveAsync
  <2>3. DOMAIN pendingBlocks'[r] = {}
    BY <2>1, <2>2, NoFillings
  <2> QED
    BY <1>2, <2>1, <2>2, <2>3 DEF RequestFits, Fits, Sink, TailBlocks, Ceil
<1> QED
  BY <1>3, <1>4

LEMMA InitFits == Init => FitsInv
<1>1. SUFFICES ASSUME Init, NEW r \in Req PROVE RequestFits(r)
  BY DEF FitsInv
<1>2. /\ DOMAIN requestBlocks[r] = {} /\ DOMAIN pendingBlocks[r] = {}
      /\ DOMAIN resolvedBlocks[r] = {} /\ fullContext = {}
  BY <1>1, NoFillings DEF Init, TrackerInit, Nothing
<1>3. Fits(r, {}, TailBlocks)
  BY DEF Fits
<1> QED
  BY <1>2, <1>3 DEF RequestFits

LEMMA SameFits ==
    ASSUME FitsInv, UNCHANGED tracker, UNCHANGED unsettled
    PROVE  FitsInv'
  BY DEF FitsInv, RequestFits, tracker, Fits, Sink, TailBlocks, Ceil

\* Counting by naming: with at most c names per request.
LEMMA CountPairs ==
    ASSUME NEW B, NEW c \in Nat, NEW at \in [B -> Req \X (1 .. c)],
           \A a, b \in B : at[a] = at[b] => a = b
    PROVE  /\ IsFiniteSet(B) /\ Cardinality(B) \in Nat
           /\ Cardinality(B) <= Cardinality(Req) * c
<1> DEFINE T == Req \X (1 .. c)
<1>1. IsFiniteSet(1 .. c) /\ Cardinality(1 .. c) = c
  BY FS_Interval
<1>2. IsFiniteSet(T) /\ Cardinality(T) = Cardinality(Req) * c
  BY <1>1, SequencesAssumption, FS_Product
<1>3. at \in Injection(B, T)
  BY DEF Injection, IsInjective
<1> HIDE DEF T
<1>4. IsFiniteSet(B) /\ Cardinality(B) <= Cardinality(T)
  BY <1>2, <1>3, FS_Injection
<1> QED
  BY <1>2, <1>4, FS_CardinalityType

\* Every block of a request has a number of its own, if its blocks fit.
LEMMA Numbered ==
    ASSUME NEW B, \A b \in B : \E r \in Req, k \in Nat : b = <<r, k + 1>>,
           NEW extra \in [Req -> Nat],
           \A r \in Req : Fits(r, B, TailBlocks + extra[r])
    PROVE  \E at \in [B -> Req \X Nat] :
              /\ \A a, b \in B : at[a] = at[b] => a = b
              /\ \A b \in B : /\ at[b][1] = b[1] /\ b[1] \in Req /\ at[b][2] >= 1
                              /\ at[b][2] <= Sink + TailBlocks + extra[b[1]]
<1> DEFINE low == [r \in Req |-> CHOOSE n \in Nat : \A k \in Nat :
                      <<r, k + 1>> \in B => k < Sink \/ (n <= k /\ k < n + (TailBlocks + extra[r]))]
           number(b) == IF b[2] <= Sink THEN b[2] ELSE Sink + b[2] - low[b[1]]
           at == [b \in B |-> <<b[1], number(b)>>]
<1>1. ASSUME NEW r \in Req
      PROVE  /\ low[r] \in Nat
             /\ \A k \in Nat : <<r, k + 1>> \in B
                  => k < Sink \/ (low[r] <= k /\ k < low[r] + (TailBlocks + extra[r]))
  <2>1. \E n \in Nat : \A k \in Nat :
           <<r, k + 1>> \in B => k < Sink \/ (n <= k /\ k < n + (TailBlocks + extra[r]))
    BY DEF Fits
  <2> QED
    BY <2>1
<1> HIDE DEF low
<1>2. Sink \in Nat /\ TailBlocks \in Nat
  BY SmallSizes
<1>3. ASSUME NEW r \in Req, NEW k \in Nat, <<r, k + 1>> \in B
      PROVE  /\ number(<<r, k + 1>>) \in Nat /\ number(<<r, k + 1>>) >= 1
             /\ number(<<r, k + 1>>) <= Sink + TailBlocks + extra[r]
  <2>1. extra[r] \in Nat
    OBVIOUS
  <2>2. CASE k + 1 <= Sink
    BY <1>2, <2>1, <2>2
  <2>3. CASE ~(k + 1 <= Sink)
    <3>1. low[r] <= k /\ k < low[r] + (TailBlocks + extra[r]) /\ low[r] \in Nat
      BY <1>1, <1>2, <1>3, <2>3
    <3>2. number(<<r, k + 1>>) = Sink + (k + 1) - low[r]
      BY <2>3
    <3> HIDE DEF number
    <3> QED
      BY <1>2, <2>1, <3>1, <3>2
  <2> QED
    BY <2>2, <2>3
<1>4. ASSUME NEW r \in Req, NEW j \in Nat, NEW k \in Nat, <<r, j + 1>> \in B, <<r, k + 1>> \in B,
             number(<<r, j + 1>>) = number(<<r, k + 1>>)
      PROVE  j = k
  <2>1. /\ j < Sink \/ low[r] <= j
        /\ k < Sink \/ low[r] <= k
        /\ low[r] \in Nat
    BY <1>1, <1>4
  <2>2. /\ number(<<r, j + 1>>) = IF j + 1 <= Sink THEN j + 1 ELSE Sink + (j + 1) - low[r]
        /\ number(<<r, k + 1>>) = IF k + 1 <= Sink THEN k + 1 ELSE Sink + (k + 1) - low[r]
    OBVIOUS
  <2> HIDE DEF number
  <2> QED
    BY <1>2, <1>4, <2>1, <2>2
<1>5. ASSUME NEW b \in B
      PROVE  /\ at[b] \in Req \X Nat /\ at[b][1] = b[1] /\ b[1] \in Req
             /\ at[b][2] = number(b) /\ at[b][2] >= 1
             /\ at[b][2] <= Sink + TailBlocks + extra[b[1]]
  <2>1. PICK r \in Req, k \in Nat : b = <<r, k + 1>>
    OBVIOUS
  <2>2. at[b] = <<r, number(b)>> /\ b[1] = r
    BY <2>1
  <2> HIDE DEF number, at
  <2> QED
    BY <1>3, <2>1, <2>2
<1>6. ASSUME NEW a \in B, NEW b \in B, at[a] = at[b]
      PROVE  a = b
  <2>1. PICK r \in Req, j \in Nat : a = <<r, j + 1>>
    OBVIOUS
  <2>2. PICK q \in Req, k \in Nat : b = <<q, k + 1>>
    OBVIOUS
  <2>3. a[1] = b[1] /\ number(a) = number(b)
    <3> HIDE DEF number, at
    <3> QED
      BY <1>5, <1>6
  <2>4. r = q
    BY <2>1, <2>2, <2>3
  <2> HIDE DEF number
  <2>5. j = k
    BY <1>4, <2>1, <2>2, <2>3, <2>4
  <2> QED
    BY <2>1, <2>2, <2>4, <2>5
<1>7. at \in [B -> Req \X Nat]
  <2>1. at = [b \in B |-> at[b]]
    OBVIOUS
  <2> HIDE DEF at
  <2> QED
    BY <1>5, <2>1
<1> HIDE DEF at, number
<1> QED
  BY <1>5, <1>6, <1>7

\* The rows in doubt, one by one.
Doubts(more) == {p \in Req \X Nat : 1 <= p[2] /\ p[2] <= more[p[1]]}

LEMMA CeilOver ==
    ASSUME NEW n \in Nat
    PROVE  n \div Group \in Nat /\ Ceil(n) <= n \div Group + 1
<1> DEFINE q == n \div Group
           m == n + Group - 1
<1>1. q \in Nat /\ n % Group \in 0 .. Group - 1 /\ n = Group * q + (n % Group)
  BY GeometryAssumption, DivMod
<1>2. Group * (q + 1 + 1) = Group * q + Group + Group /\ Group * q \in Nat
  <2> HIDE DEF q
  <2> QED
    BY <1>1, GeometryAssumption
<1>3. m < Group * (q + 1 + 1) /\ m \in Nat
  <2> HIDE DEF q
  <2> QED
    BY <1>1, <1>2, GeometryAssumption
<1>4. m \div Group <= q + 1
  <2> HIDE DEF q, m
  <2>1. q + 1 \in Nat
    BY <1>1
  <2> QED
    BY <1>3, <2>1, GeometryAssumption, DivAbove
<1> QED
  BY <1>1, <1>4 DEF Ceil

\* The whole blocks among the rows in doubt, of all requests together.
LEMMA WholeDoubts ==
    ASSUME NEW more \in [Req -> Nat], NEW M \in Nat,
           IsFiniteSet(Doubts(more)), Cardinality(Doubts(more)) <= M,
           NEW E, E = {p \in Req \X Nat : 1 <= p[2] /\ p[2] <= more[p[1]] \div Group}
    PROVE  /\ IsFiniteSet(E) /\ Cardinality(E) \in Nat
           /\ Cardinality(E) <= M \div Group
<1> DEFINE X == Doubts(more)
           P == E \X (1 .. Group)
           row(p) == (p[1][2] - 1) * Group + p[2]
           f == [p \in P |-> <<p[1][1], row(p)>>]
           first == [p \in E |-> <<p[1], (p[2] - 1) * Group + 1>>]
<1>0. Group \in Nat /\ Group >= 1
  BY GeometryAssumption
<1>1. ASSUME NEW r \in Req, NEW i \in Nat, <<r, i>> \in E, NEW g \in 1 .. Group
      PROVE  /\ (i - 1) * Group + g \in Nat /\ 1 <= (i - 1) * Group + g
             /\ (i - 1) * Group + g <= more[r] /\ i >= 1
  <2> DEFINE q == more[r] \div Group
  <2>1. i >= 1 /\ i <= q
    BY <1>1
  <2>2. /\ q \in Nat /\ more[r] % Group \in 0 .. Group - 1 /\ more[r] \in Nat
        /\ more[r] = Group * q + (more[r] % Group)
    BY GeometryAssumption, DivMod
  <2> HIDE DEF q
  <2>3. Group * i <= Group * q
    BY <1>0, <2>1, <2>2, TimesMonotone
  <2>4. Group * i = (i - 1) * Group + Group /\ (i - 1) * Group \in Nat /\ Group * q \in Nat
    <3>1. i - 1 \in Nat
      BY <2>1
    <3> DEFINE j == i - 1
    <3>2. j \in Nat /\ i = j + 1
      BY <3>1
    <3> HIDE DEF j
    <3>3. Group * i = j * Group + Group /\ j * Group \in Nat
      BY <1>0, <3>2
    <3> QED
      BY <1>0, <2>2, <3>3 DEF j
  <2> QED
    BY <1>0, <2>1, <2>2, <2>3, <2>4
<1>2. ASSUME NEW i \in Nat, NEW j \in Nat, NEW g \in 1 .. Group, NEW h \in 1 .. Group,
             i >= 1, j >= 1, (i - 1) * Group + g = (j - 1) * Group + h
      PROVE  i = j /\ g = h
  <2> DEFINE a == i - 1
             b == j - 1
  <2>1. a \in Nat /\ b \in Nat /\ i = a + 1 /\ j = b + 1
    BY <1>2
  <2>2. a * Group + g = b * Group + h
    BY <1>2
  <2> HIDE DEF a, b
  <2> DEFINE n == Group * a + (g - 1)
  <2>3. n \in Nat /\ g - 1 \in 0 .. Group - 1 /\ h - 1 \in 0 .. Group - 1
        /\ n = Group * b + (h - 1)
    <3>1. /\ a * Group = Group * a /\ b * Group = Group * b
          /\ Group * a \in Nat /\ Group * b \in Nat
      BY <1>0, <2>1
    <3>2. g \in Nat /\ g >= 1 /\ g <= Group /\ h \in Nat /\ h >= 1 /\ h <= Group
      BY <1>0
    <3>3. n = Group * a + (g - 1)
      OBVIOUS
    <3> HIDE DEF n
    <3> QED
      BY <1>0, <2>2, <3>1, <3>2, <3>3
  <2>4. n = Group * a + (g - 1)
    OBVIOUS
  <2> HIDE DEF n
  <2>5. n \div Group = a /\ n % Group = g - 1 /\ n \div Group = b /\ n % Group = h - 1
    <3> DEFINE u == g - 1
               w == h - 1
    <3>1. u \in 0 .. Group - 1 /\ w \in 0 .. Group - 1 /\ n = Group * a + u /\ n = Group * b + w
      BY <2>3, <2>4
    <3> HIDE DEF u, w
    <3>2. n \div Group = a /\ n % Group = u
      BY <2>1, <2>3, <3>1, GeometryAssumption, DivUnique
    <3>3. n \div Group = b /\ n % Group = w
      BY <2>1, <2>3, <3>1, GeometryAssumption, DivUnique
    <3> QED
      BY <3>2, <3>3 DEF u, w
  <2> QED
    BY <2>1, <2>5
<1>3. ASSUME NEW p \in E
      PROVE  p = <<p[1], p[2]>> /\ p[1] \in Req /\ p[2] \in Nat
  OBVIOUS
<1>4. f \in [P -> X] /\ \A p, q \in P : f[p] = f[q] => p = q
  <2>1. ASSUME NEW p \in P
        PROVE  /\ p[1] \in E /\ p[2] \in 1 .. Group /\ p = <<p[1], p[2]>>
               /\ f[p] = <<p[1][1], row(p)>> /\ f[p] \in X /\ p[1][2] >= 1
    <3>1. p[1] \in E /\ p[2] \in 1 .. Group /\ p = <<p[1], p[2]>>
      OBVIOUS
    <3>2. p[1] = <<p[1][1], p[1][2]>> /\ p[1][1] \in Req /\ p[1][2] \in Nat
      BY <1>3, <3>1
    <3>3. row(p) \in Nat /\ 1 <= row(p) /\ row(p) <= more[p[1][1]] /\ p[1][2] >= 1
      BY <1>1, <3>1, <3>2
    <3>4. f[p] = <<p[1][1], row(p)>>
      OBVIOUS
    <3> HIDE DEF f, row, P
    <3> QED
      BY <3>1, <3>2, <3>3, <3>4 DEF Doubts
  <2>2. ASSUME NEW p \in P, NEW q \in P, f[p] = f[q]
        PROVE  p = q
    <3>1. /\ p[1] \in E /\ q[1] \in E /\ p[2] \in 1 .. Group /\ q[2] \in 1 .. Group
          /\ p = <<p[1], p[2]>> /\ q = <<q[1], q[2]>> /\ p[1][2] >= 1 /\ q[1][2] >= 1
          /\ p[1][1] = q[1][1] /\ row(p) = row(q)
      <4> HIDE DEF f, row, P
      <4> QED
        BY <2>1, <2>2
    <3>2. p[1][2] \in Nat /\ q[1][2] \in Nat
      BY <1>3, <3>1
    <3>3. p[1][2] = q[1][2] /\ p[2] = q[2]
      BY <1>2, <3>1, <3>2
    <3>4. p[1] = q[1]
      BY <1>3, <3>1, <3>3
    <3> QED
      BY <3>1, <3>3, <3>4
  <2>3. f = [p \in P |-> f[p]]
    OBVIOUS
  <2> HIDE DEF f, P, X
  <2> QED
    BY <2>1, <2>2, <2>3
<1>5. IsFiniteSet(P) /\ Cardinality(P) <= Cardinality(X)
  <2>1. f \in Injection(P, X)
    <3> HIDE DEF f, P, X
    <3> QED
      BY <1>4 DEF Injection, IsInjective
  <2> HIDE DEF f, P, X
  <2> QED
    BY <2>1, FS_Injection DEF X
<1>6. IsFiniteSet(E)
  <2>1. first \in [E -> X] /\ \A p, q \in E : first[p] = first[q] => p = q
    <3>1. ASSUME NEW p \in E
          PROVE  /\ first[p] = <<p[1], (p[2] - 1) * Group + 1>> /\ first[p] \in X
                 /\ p[1] \in Req /\ p[2] \in Nat /\ p[2] >= 1
      <4>1. p = <<p[1], p[2]>> /\ p[1] \in Req /\ p[2] \in Nat /\ 1 \in 1 .. Group
        BY <1>0, <1>3
      <4>2. /\ (p[2] - 1) * Group + 1 \in Nat /\ 1 <= (p[2] - 1) * Group + 1
            /\ (p[2] - 1) * Group + 1 <= more[p[1]] /\ p[2] >= 1
        BY <1>1, <4>1
      <4>3. first[p] = <<p[1], (p[2] - 1) * Group + 1>>
        OBVIOUS
      <4> HIDE DEF first
      <4> QED
        BY <4>1, <4>2, <4>3 DEF Doubts
    <3>2. ASSUME NEW p \in E, NEW q \in E, first[p] = first[q]
          PROVE  p = q
      <4>1. /\ p[1] = q[1] /\ (p[2] - 1) * Group + 1 = (q[2] - 1) * Group + 1
            /\ p[2] \in Nat /\ q[2] \in Nat /\ p[2] >= 1 /\ q[2] >= 1 /\ 1 \in 1 .. Group
        <5> HIDE DEF first
        <5> QED
          BY <1>0, <3>1, <3>2
      <4>2. p[2] = q[2]
        BY <1>2, <4>1
      <4> QED
        BY <1>3, <4>1, <4>2
    <3>3. first = [p \in E |-> first[p]]
      OBVIOUS
    <3> HIDE DEF first, X
    <3> QED
      BY <3>1, <3>2, <3>3
  <2>2. first \in Injection(E, X)
    <3> HIDE DEF first, X
    <3> QED
      BY <2>1 DEF Injection, IsInjective
  <2> HIDE DEF first, X
  <2> QED
    BY <2>2, FS_Injection DEF X
<1>7. Cardinality(P) = Cardinality(E) * Group
  <2>1. IsFiniteSet(1 .. Group) /\ Cardinality(1 .. Group) = Group
    BY <1>0, FS_Interval
  <2> QED
    BY <1>6, <2>1, FS_Product
<1>8. Cardinality(E) \in Nat /\ Cardinality(X) \in Nat
  BY <1>6, FS_CardinalityType
<1> DEFINE c == Cardinality(E)
<1>9. Group * c <= M
  <2> DEFINE x == Cardinality(X)
             p == Cardinality(P)
  <2>1. p = c * Group /\ p <= x /\ x <= M /\ c \in Nat /\ x \in Nat
    BY <1>5, <1>7, <1>8
  <2> HIDE DEF x, p, c
  <2>2. c * Group = Group * c /\ c * Group \in Nat
    BY <1>0, <2>1
  <2> QED
    BY <2>1, <2>2
<1>10. c <= M \div Group
  <2> HIDE DEF c
  <2> QED
    BY <1>8, <1>9, GeometryAssumption, DivBelow DEF c
<1> QED
  BY <1>6, <1>8, <1>10

\* All the blocks there are: per request the sink, a tail and one more, and the
\* whole blocks among the rows in doubt.
LEMMA FittingBlocks ==
    ASSUME NEW B, \A b \in B : \E r \in Req, k \in Nat : b = <<r, k + 1>>,
           NEW more \in [Req -> Nat], NEW M \in Nat,
           IsFiniteSet(Doubts(more)), Cardinality(Doubts(more)) <= M,
           \A r \in Req : Fits(r, B, TailBlocks + Ceil(more[r]))
    PROVE  /\ Cardinality(B) \in Nat
           /\ Cardinality(B) <= Cardinality(Req) * (Sink + TailBlocks + 1) + M \div Group
<1> DEFINE extra == [r \in Req |-> Ceil(more[r])]
           c == Sink + TailBlocks + 1
           E == {p \in Req \X Nat : 1 <= p[2] /\ p[2] <= more[p[1]] \div Group}
<1>1. \A r \in Req : extra[r] \in Nat /\ extra[r] <= more[r] \div Group + 1
                     /\ more[r] \div Group \in Nat
  BY CeilOver, SmallSizes
<1>2. c \in Nat /\ Sink \in Nat /\ TailBlocks \in Nat
  BY SmallSizes
<1>3. PICK at \in [B -> Req \X Nat] :
         /\ \A a, b \in B : at[a] = at[b] => a = b
         /\ \A b \in B : /\ at[b][1] = b[1] /\ b[1] \in Req /\ at[b][2] >= 1
                         /\ at[b][2] <= Sink + TailBlocks + extra[b[1]]
  <2>1. extra \in [Req -> Nat]
    BY <1>1
  <2>2. \A r \in Req : Fits(r, B, TailBlocks + extra[r])
    OBVIOUS
  <2> HIDE DEF extra
  <2> QED
    BY <2>1, <2>2, Numbered
<1>4. ASSUME NEW b \in B
      PROVE  /\ at[b] = <<at[b][1], at[b][2]>> /\ at[b][1] \in Req /\ at[b][2] \in Nat
             /\ at[b][2] >= 1 /\ at[b][2] <= c + (more[at[b][1]] \div Group)
  <2>1. at[b] \in Req \X Nat
    OBVIOUS
  <2>2. at[b] = <<at[b][1], at[b][2]>> /\ at[b][1] \in Req /\ at[b][2] \in Nat
    BY <2>1
  <2>3. at[b][1] = b[1] /\ at[b][2] >= 1 /\ at[b][2] <= Sink + TailBlocks + extra[b[1]]
    BY <1>3
  <2> HIDE DEF extra
  <2> QED
    BY <1>1, <1>2, <2>2, <2>3
<1> DEFINE near == {b \in B : at[b][2] <= c}
           far  == {b \in B : ~(at[b][2] <= c)}
           beyond == [b \in far |-> <<at[b][1], at[b][2] - c>>]
<1>5. IsFiniteSet(near) /\ Cardinality(near) \in Nat /\ Cardinality(near) <= Cardinality(Req) * c
  <2> DEFINE f == [b \in near |-> at[b]]
  <2>1. f \in [near -> Req \X (1 .. c)] /\ \A a, b \in near : f[a] = f[b] => a = b
    <3>1. ASSUME NEW b \in near PROVE f[b] \in Req \X (1 .. c)
      <4>1. b \in B /\ at[b][2] <= c /\ f[b] = at[b]
        OBVIOUS
      <4> HIDE DEF f, near, c
      <4>2. at[b][2] \in 1 .. c
        BY <1>2, <1>4, <4>1
      <4> QED
        BY <1>4, <4>1, <4>2
    <3>2. \A a, b \in near : f[a] = f[b] => a = b
      BY <1>3
    <3>3. f = [b \in near |-> f[b]]
      OBVIOUS
    <3> HIDE DEF f, near, c
    <3> QED
      BY <3>1, <3>2, <3>3
  <2> HIDE DEF f, near, c
  <2> QED
    BY <1>2, <2>1, CountPairs
<1>6. IsFiniteSet(E) /\ Cardinality(E) \in Nat /\ Cardinality(E) <= M \div Group
  BY WholeDoubts
<1>7. IsFiniteSet(far) /\ Cardinality(far) \in Nat /\ Cardinality(far) <= Cardinality(E)
  <2>1. beyond \in [far -> E] /\ \A a, b \in far : beyond[a] = beyond[b] => a = b
    <3>1. ASSUME NEW b \in far
          PROVE  /\ b \in B /\ beyond[b] = <<at[b][1], at[b][2] - c>> /\ beyond[b] \in E
      <4>1. b \in B /\ ~(at[b][2] <= c) /\ beyond[b] = <<at[b][1], at[b][2] - c>>
        OBVIOUS
      <4> HIDE DEF beyond, far, c
      <4>2. at[b][2] - c \in Nat /\ 1 <= at[b][2] - c /\ at[b][2] - c <= more[at[b][1]] \div Group
        <5> DEFINE i == at[b][2]
                   d == more[at[b][1]] \div Group
        <5>1. i \in Nat /\ i <= c + d /\ d \in Nat /\ c \in Nat /\ ~(i <= c)
          BY <1>1, <1>2, <1>4, <4>1
        <5> HIDE DEF i, d
        <5>2. i - c \in Nat /\ 1 <= i - c /\ i - c <= d
          BY <5>1
        <5> QED
          BY <5>2 DEF i, d
      <4> QED
        BY <1>4, <4>1, <4>2
    <3>2. ASSUME NEW a \in far, NEW b \in far, beyond[a] = beyond[b]
          PROVE  a = b
      <4> HIDE DEF beyond, far, c
      <4>1. at[a][1] = at[b][1] /\ at[a][2] - c = at[b][2] - c
        BY <3>1, <3>2
      <4>2. at[a][2] = at[b][2]
        <5> DEFINE i == at[a][2]
                   j == at[b][2]
        <5>1. i \in Nat /\ j \in Nat /\ i - c = j - c
          BY <1>4, <3>1, <4>1
        <5>2. c \in Nat
          BY <1>2 DEF c
        <5> HIDE DEF i, j
        <5>3. i = j
          BY <5>1, <5>2
        <5> QED
          BY <5>3 DEF i, j
      <4>3. at[a] = at[b]
        BY <1>4, <3>1, <4>1, <4>2
      <4> QED
        BY <1>3, <3>1, <4>3
    <3>3. beyond = [b \in far |-> beyond[b]]
      OBVIOUS
    <3> HIDE DEF beyond, far, E
    <3> QED
      BY <3>1, <3>2, <3>3
  <2>2. beyond \in Injection(far, E)
    <3> HIDE DEF beyond, far, E
    <3> QED
      BY <2>1 DEF Injection, IsInjective
  <2> HIDE DEF beyond, far, E
  <2> QED
    BY <1>6, <2>2, FS_Injection, FS_CardinalityType
<1>8. B = near \cup far
  OBVIOUS
<1>9. Cardinality(B) <= Cardinality(near) + Cardinality(far)
  <2> HIDE DEF near, far
  <2>1. /\ IsFiniteSet(near \cap far) /\ Cardinality(near \cap far) \in Nat
        /\ Cardinality(near \cup far) = Cardinality(near) + Cardinality(far) - Cardinality(near \cap far)
    BY <1>5, <1>7, FS_Union, FS_Intersection, FS_CardinalityType
  <2> QED
    BY <1>5, <1>7, <1>8, <2>1
<1>10. M \div Group \in Nat /\ Cardinality(Req) * c \in Nat
       /\ Cardinality(B) \in Nat
  <2>1. Cardinality(Req) \in Nat
    BY SequencesAssumption, FS_CardinalityType
  <2>2. Cardinality(B) \in Nat
    <3> HIDE DEF near, far
    <3> QED
      BY <1>5, <1>7, <1>8, FS_Union, FS_CardinalityType
  <2>3. M \div Group \in Nat
    BY GeometryAssumption, DivMod
  <2>4. c \in Nat
    BY <1>2
  <2> HIDE DEF c
  <2>5. Cardinality(Req) * c \in Nat
    BY <2>1, <2>4
  <2> QED
    BY <2>2, <2>3, <2>5
<1> DEFINE x == Cardinality(near)
           y == Cardinality(far)
           z == Cardinality(E)
           w == Cardinality(Req) * c
           m == M \div Group
<1>11. /\ x \in Nat /\ x <= w /\ y \in Nat /\ y <= z /\ z \in Nat /\ z <= m
       /\ w \in Nat /\ m \in Nat /\ Cardinality(B) <= x + y
  BY <1>5, <1>6, <1>7, <1>9, <1>10
<1> HIDE DEF x, y, z, w, m
<1>12. Cardinality(B) <= w + m
  BY <1>10, <1>11
<1> QED
  BY <1>10, <1>12 DEF w, m

LEMMA NeededNamed ==
    ASSUME PrecisionInv, OwnInv, NEW R \in SUBSET Req, NEW step \in [R -> Shares], Step(step),
           \A r \in R : computed[r] + step[r].tokens < MaxLen,
           NEW b \in needed'
    PROVE  \E r \in Req, k \in Nat : b = <<r, k + 1>>
<1>1. PICK scheduled : /\ Update({}, scheduled) /\ DOMAIN scheduled = R
                       /\ \A q \in R : scheduled[q] = EntryOf(q, step)
  BY StepUpdate
<1> DEFINE S == Req \X Nat
<1>2. OwnInv'
  BY StepOwns
<1>3. ASSUME NEW q \in Req
      PROVE  /\ tables[q] \in Seq(S) /\ Named(q, tables[q])
             /\ tables'[q] \in Seq(S) /\ Named(q, tables'[q])
  <2>1. tables[q] \in Seq(S) /\ Named(q, tables[q])
    BY DEF PrecisionInv, CountInv, TablesInv
  <2>2. CASE q \in R
    <3>1. Sized(q, scheduled[q])
      BY <1>1, <2>2, EntrySized
    <3> QED
      BY <2>1, <3>1 DEF Sized
  <2>3. CASE q \notin R
    BY <2>1, <2>3, OthersUntouched DEF PrecisionInv
  <2> QED
    BY <2>2, <2>3
<1>4. ASSUME NEW q \in Req, b \in Members(tables[q]) \/ b \in Members(tables'[q])
      PROVE  \E k \in Nat : b = <<q, k + 1>>
  <2>1. CASE b \in Members(tables[q])
    <3> HIDE DEF S
    <3> QED
      BY <1>3, <2>1, NamedMember
  <2>2. CASE b \in Members(tables'[q])
    <3> DEFINE t == tables'[q]
    <3>1. t \in Seq(S) /\ Named(q, t) /\ b \in Members(t)
      BY <1>3, <2>2
    <3> HIDE DEF S, t
    <3> QED
      BY <3>1, NamedMember
  <2> QED
    BY <1>4, <2>1, <2>2
<1>5. /\ DOMAIN requestBlocks' = Req /\ DOMAIN epochBlocks' = Req /\ DOMAIN resolvedBlocks' = Req
      /\ \A q \in Req : /\ DOMAIN requestBlocks'[q] \subseteq Members(tables'[q])
                        /\ DOMAIN epochBlocks'[q] \subseteq Members(tables'[q])
                        /\ DOMAIN resolvedBlocks'[q] \subseteq Members(tables'[q])
                        /\ DOMAIN resolvedBlocks[q] \subseteq Members(tables[q])
  <2>1. ASSUME NEW q \in Req
        PROVE  /\ requestBlocks'[q] \in Fillings(Members(tables'[q]))
               /\ epochBlocks'[q] \in Fillings(Members(tables'[q]))
               /\ resolvedBlocks'[q] \in Fillings(Members(tables'[q]))
               /\ resolvedBlocks[q] \in Fillings(Members(tables[q]))
    BY <1>2 DEF OwnInv
  <2> QED
    BY <1>2, <2>1, FillingParts DEF OwnInv
<1> DEFINE held     == UNION {DOMAIN Remaining({})[q] : q \in Req}
           resolved == [q \in Req |-> [c \in DOMAIN resolvedBlocks[q] \ held |-> resolvedBlocks[q][c]]]
           touched  == [q \in DOMAIN scheduled |-> TouchedFills(scheduled[q])]
<1>6. stepBlocks' = Merge(MergeAll(resolved), MergeAll(touched))
  BY <1>1 DEF Update, Consumed
<1>7. /\ DOMAIN MergeAll(resolved) \subseteq UNION {DOMAIN resolvedBlocks[q] : q \in Req}
      /\ DOMAIN MergeAll(touched) = UNION {DOMAIN TouchedFills(scheduled[q]) : q \in R}
  BY <1>1 DEF MergeAll
<1>8. ASSUME NEW q \in R
      PROVE  DOMAIN TouchedFills(scheduled[q]) \subseteq Members(tables'[q])
  <2>1. Sized(q, scheduled[q])
    BY <1>1, EntrySized
  <2>2. Sound(scheduled[q]) /\ tables'[q] = scheduled[q].table
    BY <2>1 DEF Sized
  <2>3. TouchedFills(scheduled[q]) \in Fillings(Members(scheduled[q].table))
    BY <2>2, TouchedFilling
  <2>4. DOMAIN TouchedFills(scheduled[q]) \subseteq Members(scheduled[q].table)
    BY <2>3, FillingParts
  <2> QED
    BY <2>2, <2>4
<1>9. \/ b \in DOMAIN stepBlocks'
      \/ \E q \in Req : \/ b \in DOMAIN requestBlocks'[q]
                        \/ b \in DOMAIN epochBlocks'[q]
                        \/ b \in DOMAIN resolvedBlocks'[q]
  <2>1. needed' = DOMAIN BlockFills'
    BY DEF Step
  <2>2. BlockFills' = Merge(Merge(stepBlocks', MergeAll(requestBlocks')),
                            Merge(MergeAll(epochBlocks'), MergeAll(resolvedBlocks')))
    BY DEF BlockFills
  <2>3. \/ b \in DOMAIN stepBlocks' \/ b \in DOMAIN MergeAll(requestBlocks')
        \/ b \in DOMAIN MergeAll(epochBlocks') \/ b \in DOMAIN MergeAll(resolvedBlocks')
    BY <2>1, <2>2 DEF Merge
  <2> QED
    BY <1>5, <2>3 DEF MergeAll
<1>10. CASE b \in DOMAIN stepBlocks'
  <2>1. b \in DOMAIN MergeAll(resolved) \/ b \in DOMAIN MergeAll(touched)
    <3> HIDE DEF resolved, touched
    <3> QED
      BY <1>6, <1>10 DEF Merge
  <2>2. (\E q \in Req : b \in DOMAIN resolvedBlocks[q])
          \/ (\E q \in R : b \in DOMAIN TouchedFills(scheduled[q]))
    <3> HIDE DEF resolved, touched
    <3> QED
      BY <1>7, <2>1
  <2> QED
    BY <1>4, <1>5, <1>8, <2>2
<1>11. CASE \E q \in Req : \/ b \in DOMAIN requestBlocks'[q]
                           \/ b \in DOMAIN epochBlocks'[q]
                           \/ b \in DOMAIN resolvedBlocks'[q]
  BY <1>4, <1>5, <1>11
<1> QED
  BY <1>9, <1>10, <1>11

\* The rows in doubt of the requests of a step.
InDoubt(R, step) == [r \in Req |-> IF r \in R THEN step[r].drafts + Lookahead ELSE 0]

LEMMA NeededFits ==
    ASSUME PrecisionTail >= Budget + 2 * Lookahead,
           PrecisionInv, OwnInv, FitsInv,
           NEW R \in SUBSET Req, NEW step \in [R -> Shares], Step(step),
           \A r \in R : computed[r] + step[r].tokens < MaxLen, NEW r \in Req
    PROVE  Fits(r, needed', TailBlocks + Ceil(InDoubt(R, step)[r]))
<1>1. DOMAIN pendingBlocks[r] = {}
  BY NothingPending DEF PrecisionInv
<1>2. /\ Fits(r, DOMAIN requestBlocks[r], TailBlocks)
      /\ DOMAIN resolvedBlocks[r] \subseteq DOMAIN requestBlocks[r]
  BY <1>1 DEF FitsInv, RequestFits
<1>3. ASSUME NEW k \in Nat, <<r, k + 1>> \in needed'
      PROVE  \/ <<r, k + 1>> \in DOMAIN requestBlocks'[r]
             \/ <<r, k + 1>> \in DOMAIN epochBlocks'[r]
             \/ r \in R /\ <<r, k + 1>> \in DOMAIN TouchedFills(EntryOf(r, step))
  <2>1. SnapshotBlock(R, step, r, <<r, k + 1>>)
    BY SnapshotParts
  <2> QED
    BY <1>2, <1>3, <2>1 DEF SnapshotBlock
<1>4. CASE r \in R
  <2>1. PICK e : e = EntryOf(r, step)
    OBVIOUS
  <2>2. Bounded(r, e, step[r].drafts)
    BY <1>4, <2>1, EntryBounded
  <2>3. step[r].drafts \in Nat
    BY <1>4, SequencesAssumption DEF Shares
  <2>4. PICK scheduled : Update({}, scheduled)
    BY StepUpdate
  <2>5. Fits(r, DOMAIN requestBlocks'[r] \cup DOMAIN TouchedFills(e),
             TailBlocks + Ceil(step[r].drafts + Lookahead))
    <3>1. resolvedBlocks' = Nothing /\ RequestFits(r)
      BY <2>4 DEF Update, FitsInv
    <3> QED
      BY <2>2, <2>3, <3>1, TailPositive, ScheduledFits
  <2>6. \A k \in Nat : <<r, k + 1>> \in needed'
          => <<r, k + 1>> \in DOMAIN requestBlocks'[r] \cup DOMAIN TouchedFills(e)
    BY <1>3, <2>1, <2>2 DEF Bounded
  <2>7. InDoubt(R, step)[r] = step[r].drafts + Lookahead
    BY <1>4 DEF InDoubt
  <2> QED
    BY <2>5, <2>6, <2>7 DEF Fits
<1>5. CASE r \notin R
  <2>1. requestBlocks'[r] = requestBlocks[r] /\ pendingBlocks'[r] = pendingBlocks[r]
    BY <1>5, OthersUntouched DEF PrecisionInv
  <2>2. DOMAIN epochBlocks'[r] = {}
    <3>1. OwnInv'
      BY StepOwns
    <3> QED
      BY <1>1, <2>1, <3>1 DEF OwnInv
  <2>3. InDoubt(R, step)[r] = 0 /\ TailBlocks + Ceil(0) = TailBlocks
    BY <1>5, SmallSizes DEF InDoubt
  <2>4. Fits(r, needed', TailBlocks)
    BY <1>2, <1>3, <1>5, <2>1, <2>2 DEF Fits
  <2> QED
    BY <2>3, <2>4
<1> QED
  BY <1>4, <1>5

\* The drafts of a step are among its tokens; the lookahead comes on top.
LEMMA DoubtsCount ==
    ASSUME NEW R \in SUBSET Req, NEW step \in [R -> Shares],
           Cardinality(TokensOf(step)) <= Budget
    PROVE  /\ InDoubt(R, step) \in [Req -> Nat]
           /\ IsFiniteSet(Doubts(InDoubt(R, step)))
           /\ Cardinality(Doubts(InDoubt(R, step))) <= Budget + Cardinality(Req) * Lookahead
<1> DEFINE more == InDoubt(R, step)
           X == Doubts(more)
           drafts(r) == IF r \in R THEN step[r].drafts ELSE 0
           early == {p \in X : p[2] <= drafts(p[1])}
           late  == {p \in X : ~(p[2] <= drafts(p[1]))}
           f == [p \in late |-> <<p[1], p[2] - drafts(p[1])>>]
<1>1. Lookahead \in Nat /\ Budget \in Nat
  BY SequencesAssumption
<1>2. ASSUME NEW r \in R
      PROVE  /\ step[r].tokens \in 1 .. Budget /\ step[r].drafts \in Nat
             /\ step[r].drafts <= step[r].tokens
  <2>1. /\ step[r].tokens \in 1 .. Budget /\ step[r].drafts \in Nat
        /\ step[r].drafts \in {0, step[r].tokens - 1}
    BY <1>1 DEF Shares
  <2> QED
    BY <1>1, <2>1
<1>3. more \in [Req -> Nat]
  BY <1>1, <1>2 DEF InDoubt
<1>4. ASSUME NEW p \in X
      PROVE  /\ p = <<p[1], p[2]>> /\ p[1] \in Req /\ p[2] \in Nat /\ 1 <= p[2]
             /\ p[1] \in R /\ p[2] <= step[p[1]].drafts + Lookahead
  <2>1. p = <<p[1], p[2]>> /\ p[1] \in Req /\ p[2] \in Nat /\ 1 <= p[2] /\ p[2] <= more[p[1]]
    BY DEF Doubts
  <2>2. p[1] \in R
    BY <2>1 DEF InDoubt
  <2> QED
    BY <2>1, <2>2 DEF InDoubt
<1>5. IsFiniteSet(TokensOf(step)) /\ Cardinality(TokensOf(step)) \in Nat
  <2>1. TokensOf(step) \subseteq Req \X (1 .. Budget)
    <3>1. ASSUME NEW r \in R, NEW i \in 1 .. step[r].tokens
          PROVE  <<r, i>> \in Req \X (1 .. Budget)
      BY <1>1, <1>2
    <3>2. DOMAIN step = R
      OBVIOUS
    <3> QED
      BY <3>1, <3>2 DEF TokensOf
  <2>2. IsFiniteSet(Req \X (1 .. Budget))
    <3>1. IsFiniteSet(1 .. Budget)
      BY <1>1, FS_Interval
    <3>2. IsFiniteSet(Req)
      BY SequencesAssumption
    <3> QED
      BY <3>1, <3>2, FS_Product
  <2>3. IsFiniteSet(TokensOf(step))
    BY <2>1, <2>2, FS_Subset
  <2> QED
    BY <2>3, FS_CardinalityType
<1>6. early \subseteq TokensOf(step)
  <2>1. ASSUME NEW p \in early
        PROVE  p \in TokensOf(step)
    <3>1. p \in X /\ p[2] <= drafts(p[1])
      OBVIOUS
    <3> HIDE DEF early, X
    <3>2. p[1] \in R /\ p[2] \in Nat /\ 1 <= p[2] /\ p = <<p[1], p[2]>> /\ p[2] <= step[p[1]].drafts
      BY <1>4, <3>1
    <3>3. p[2] \in 1 .. step[p[1]].tokens
      BY <1>1, <1>2, <3>2
    <3>4. p \in {p[1]} \X (1 .. step[p[1]].tokens) /\ p[1] \in DOMAIN step
      BY <3>2, <3>3
    <3> QED
      BY <3>4 DEF TokensOf
  <2> HIDE DEF early
  <2> QED
    BY <2>1
<1>7. IsFiniteSet(early) /\ Cardinality(early) \in Nat /\ Cardinality(early) <= Budget
  <2> HIDE DEF early
  <2>1. IsFiniteSet(early) /\ Cardinality(early) <= Cardinality(TokensOf(step))
    BY <1>5, <1>6, FS_Subset
  <2>2. Cardinality(early) \in Nat
    BY <2>1, FS_CardinalityType
  <2> QED
    BY <1>1, <1>5, <2>1, <2>2
<1>8. IsFiniteSet(late) /\ Cardinality(late) \in Nat /\ Cardinality(late) <= Cardinality(Req) * Lookahead
  <2>1. ASSUME NEW p \in late
        PROVE  /\ p = <<p[1], p[2]>> /\ p[1] \in R /\ p[2] \in Nat /\ drafts(p[1]) \in Nat
               /\ f[p] = <<p[1], p[2] - drafts(p[1])>> /\ f[p] \in Req \X (1 .. Lookahead)
    <3>1. p \in X /\ ~(p[2] <= drafts(p[1])) /\ f[p] = <<p[1], p[2] - drafts(p[1])>>
      OBVIOUS
    <3>2. /\ p[1] \in R /\ p[1] \in Req /\ p[2] \in Nat /\ p = <<p[1], p[2]>>
          /\ p[2] <= step[p[1]].drafts + Lookahead
      <4> HIDE DEF X
      <4> QED
        BY <1>4, <3>1
    <3>3. drafts(p[1]) = step[p[1]].drafts /\ drafts(p[1]) \in Nat
      BY <1>2, <3>2
    <3> HIDE DEF f, drafts
    <3>4. p[2] - drafts(p[1]) \in 1 .. Lookahead
      BY <1>1, <3>1, <3>2, <3>3
    <3> QED
      BY <3>1, <3>2, <3>3, <3>4
  <2>2. ASSUME NEW p \in late, NEW q \in late, f[p] = f[q]
        PROVE  p = q
    <3> HIDE DEF f, late
    <3>1. p[1] = q[1] /\ p[2] - drafts(p[1]) = q[2] - drafts(q[1])
      BY <2>1, <2>2
    <3> HIDE DEF drafts
    <3>2. p[2] = q[2]
      BY <2>1, <3>1
    <3> QED
      BY <2>1, <3>1, <3>2
  <2>3. f = [p \in late |-> f[p]]
    OBVIOUS
  <2> HIDE DEF f, late
  <2>4. f \in [late -> Req \X (1 .. Lookahead)]
    BY <2>1, <2>3
  <2> QED
    BY <1>1, <2>2, <2>4, CountPairs
<1>9. X = early \cup late
  OBVIOUS
<1>10. /\ IsFiniteSet(X)
       /\ Cardinality(X) <= Cardinality(early) + Cardinality(late)
  <2> HIDE DEF early, late, X
  <2>1. IsFiniteSet(early \cup late) /\ Cardinality(early \cap late) \in Nat
        /\ Cardinality(early \cup late) = Cardinality(early) + Cardinality(late) - Cardinality(early \cap late)
    BY <1>7, <1>8, FS_Union, FS_Intersection, FS_CardinalityType
  <2> QED
    BY <1>7, <1>8, <1>9, <2>1
<1> DEFINE x == Cardinality(early)
           y == Cardinality(late)
           z == Cardinality(X)
           w == Cardinality(Req) * Lookahead
<1>11. /\ x \in Nat /\ x <= Budget /\ y \in Nat /\ y <= w /\ z <= x + y /\ z \in Nat /\ w \in Nat
  <2>1. Cardinality(Req) \in Nat /\ z \in Nat
    <3> HIDE DEF X
    <3> QED
      BY <1>10, SequencesAssumption, FS_CardinalityType
  <2>2. w \in Nat
    BY <1>1, <2>1
  <2> QED
    BY <1>7, <1>8, <1>10, <2>1, <2>2
<1> HIDE DEF x, y, z, w
<1>12. z <= Budget + w
  BY <1>1, <1>11
<1> QED
  BY <1>3, <1>10, <1>12 DEF z, w

LEMMA CeilSum ==
    ASSUME NEW a \in Nat, NEW b \in Nat
    PROVE  (a + b) \div Group <= Ceil(a) + Ceil(b) /\ (a + b) \div Group \in Nat
<1> DEFINE c == a + Group - 1
<1>1. a \in Nat /\ c \in Nat /\ a <= c /\ Ceil(a) = c \div Group
      /\ Ceil(b) = (b + Group - 1) \div Group /\ Ceil(a) \in Nat /\ Ceil(b) \in Nat
  BY GeometryAssumption, SmallSizes DEF Ceil
<1>2. a \div Group <= c \div Group /\ a \div Group \in Nat
  <2> HIDE DEF c
  <2> QED
    BY <1>1, GeometryAssumption, DivMonotone, DivMod
<1>3. (a + b) \div Group <= a \div Group + (b + Group - 1) \div Group
  BY GeometryAssumption, DivParts
<1>4. (a + b) \div Group \in Nat
  <2>1. a + b \in Nat
    OBVIOUS
  <2> QED
    BY <2>1, GeometryAssumption, DivMod
<1> HIDE DEF c
<1> QED
  BY <1>1, <1>2, <1>3, <1>4

\* Rollback blocks are reserved when scheduling is asynchronous.
LEMMA AsyncPool ==
    ASSUME PrecisionTail > 0, Async
    PROVE  Cardinality(Req) * (Sink + TailBlocks + 1)
             + (Budget + Cardinality(Req) * Lookahead) \div Group <= PoolSlots
<1> DEFINE n == Cardinality(Req)
           m == n * Lookahead
           c == Sink + TailBlocks
           d == c * n
           q == (Budget + m) \div Group
<1>1. n \in Nat /\ Lookahead \in Nat /\ Budget \in Nat /\ c \in Nat
  BY SequencesAssumption, FS_CardinalityType, SmallSizes
<1>2. m \in Nat /\ d \in Nat /\ n * (c + 1) = d + n
  <2> HIDE DEF n, c
  <2> QED
    BY <1>1
<1>3. q <= Ceil(Budget) + Ceil(m) /\ q \in Nat /\ Ceil(Budget) \in Nat /\ Ceil(m) \in Nat
  <2> HIDE DEF m
  <2> QED
    BY <1>1, <1>2, CeilSum, SmallSizes
<1>4. ResidentBlocksPerSeq = c
  BY DEF ResidentBlocksPerSeq, Sink, TailBlocks
<1>5. PoolSlots = d + Ceil(Budget) + n + (IF Lookahead > 0 THEN Ceil(m) + n ELSE 0)
  BY <1>4 DEF PoolSlots
<1>6. Lookahead = 0 => m = 0 /\ Ceil(m) = 0
  <2>1. Lookahead = 0 => m = 0
    <3> HIDE DEF n
    <3> QED
      BY <1>1
  <2> QED
    BY <2>1, SmallSizes
<1> HIDE DEF n, m, d, q, c
<1>7. d + n + q <= PoolSlots
  BY <1>1, <1>2, <1>3, <1>5, <1>6
<1>8. n * (c + 1) + q <= PoolSlots
  BY <1>2, <1>7
<1> QED
  BY <1>8 DEF n, c, q, m

\* Else the block of boundary_overlap is enough for a short lookahead.
LEMMA SyncPool ==
    ASSUME PrecisionTail > 0
    PROVE  Cardinality(Req) * (Sink + TailBlocks + 1) <= PoolSlots
<1> DEFINE n == Cardinality(Req)
           c == Sink + TailBlocks
           d == c * n
           rollback == IF Async /\ Lookahead > 0 THEN Ceil(n * Lookahead) + n ELSE 0
<1>1. n \in Nat /\ Lookahead \in Nat /\ Budget \in Nat /\ c \in Nat
  BY SequencesAssumption, FS_CardinalityType, SmallSizes
<1>2. n * Lookahead \in Nat /\ d \in Nat /\ n * (c + 1) = d + n
  <2> HIDE DEF n, c
  <2> QED
    BY <1>1
<1>3. rollback \in Nat /\ Ceil(Budget) \in Nat
  <2>1. Ceil(n * Lookahead) \in Nat
    BY <1>2, SmallSizes
  <2> QED
    BY <1>1, <2>1, SmallSizes
<1>4. ResidentBlocksPerSeq = c
  BY DEF ResidentBlocksPerSeq, Sink, TailBlocks
<1>5. PoolSlots = d + Ceil(Budget) + n + rollback
  BY <1>4 DEF PoolSlots
<1> HIDE DEF n, d, c, rollback
<1>6. n * (c + 1) <= PoolSlots
  BY <1>1, <1>2, <1>3, <1>5
<1> QED
  BY <1>6 DEF n, c


\* A short lookahead puts rows of one more block in doubt at most.
LEMMA ShortDoubt ==
    ASSUME 2 * Lookahead <= Group, NEW R \in SUBSET Req, NEW step \in [R -> Shares], NEW r \in Req
    PROVE  Ceil(InDoubt(R, step)[r]) <= 1 /\ Ceil(InDoubt(R, step)[r]) \in Nat
<1> DEFINE more == InDoubt(R, step)[r]
<1>1. Lookahead \in Nat /\ Group \in Nat \ {0}
  BY SequencesAssumption, GeometryAssumption
<1>2. more \in Nat /\ more <= 2 * Lookahead
  <2>1. r \in R => step[r].drafts \in Nat /\ step[r].drafts <= Lookahead
    BY <1>1 DEF Shares
  <2> QED
    BY <1>1, <2>1 DEF InDoubt
<1> HIDE DEF more
<1>3. more + Group - 1 \in Nat /\ more + Group - 1 < Group * (1 + 1)
  BY <1>1, <1>2
<1>4. (more + Group - 1) \div Group <= 1
  <2> DEFINE n == more + Group - 1
  <2> HIDE DEF n
  <2>1. n \in Nat /\ n < Group * (1 + 1)
    BY <1>3 DEF n
  <2>2. n \div Group <= 1
    BY <1>1, <2>1, DivAbove
  <2> QED
    BY <2>2 DEF n
<1>5. Ceil(more) <= 1 /\ Ceil(more) \in Nat
  BY <1>2, <1>4, SmallSizes DEF Ceil
<1> QED
  BY <1>5 DEF more

LEMMA PoolType ==
    ASSUME PrecisionTail > 0
    PROVE  PoolSlots \in Nat
<1> DEFINE n == Cardinality(Req)
<1>1. n \in Nat /\ Lookahead \in Nat /\ Budget \in Nat
  BY SequencesAssumption, FS_CardinalityType
<1>2. n * Lookahead \in Nat
  <2> HIDE DEF n
  <2> QED
    BY <1>1
<1>3. Ceil(n * Lookahead) \in Nat /\ Ceil(Budget) \in Nat /\ Sink + TailBlocks \in Nat
  BY <1>1, <1>2, SmallSizes
<1>4. ResidentBlocksPerSeq = Sink + TailBlocks
  BY DEF ResidentBlocksPerSeq, Sink, TailBlocks
<1> DEFINE rollback == IF Async /\ Lookahead > 0 THEN Ceil(n * Lookahead) + n ELSE 0
<1>5. (Sink + TailBlocks) * n \in Nat
  <2> HIDE DEF n
  <2> QED
    BY <1>1, <1>3
<1>6. PoolSlots = (Sink + TailBlocks) * n + Ceil(Budget) + n + rollback
  BY <1>4 DEF PoolSlots
<1>7. rollback \in Nat
  BY <1>1, <1>3
<1> HIDE DEF n, rollback
<1> QED
  BY <1>1, <1>3, <1>5, <1>6, <1>7

LEMMA NeededCount ==
    ASSUME PrecisionTail >= Budget + 2 * Lookahead, Async \/ 2 * Lookahead <= Group,
           PrecisionInv, OwnInv, FitsInv,
           NEW R \in SUBSET Req, NEW step \in [R -> Shares], Step(step),
           \A r \in R : computed[r] + step[r].tokens < MaxLen,
           Cardinality(TokensOf(step)) <= Budget
    PROVE  Cardinality(needed') \in Nat /\ Cardinality(needed') <= PoolSlots
<1> DEFINE B == needed'
           more == InDoubt(R, step)
           M == Budget + Cardinality(Req) * Lookahead
           n == Cardinality(Req)
           c == Sink + TailBlocks + 1
<1>1. \A b \in B : \E r \in Req, k \in Nat : b = <<r, k + 1>>
  BY NeededNamed
<1>2. \A r \in Req : Fits(r, B, TailBlocks + Ceil(more[r]))
  BY NeededFits
<1>3. n \in Nat /\ Lookahead \in Nat /\ Budget \in Nat /\ c \in Nat /\ TailBlocks \in Nat /\ Sink \in Nat
  BY SequencesAssumption, FS_CardinalityType, SmallSizes
<1>4. n * Lookahead \in Nat /\ n * c \in Nat
  <2> HIDE DEF n, c
  <2> QED
    BY <1>3
<1>5. M \in Nat
  BY <1>3, <1>4
<1>6. M \div Group \in Nat
  <2> HIDE DEF M
  <2> QED
    BY <1>5, GeometryAssumption, DivMod
<1>7. PoolSlots \in Nat
  BY TailPositive, PoolType
<1>8. CASE Async
  <2>1. more \in [Req -> Nat] /\ IsFiniteSet(Doubts(more)) /\ Cardinality(Doubts(more)) <= M
    BY DoubtsCount
  <2>2. Cardinality(B) \in Nat /\ Cardinality(B) <= n * c + M \div Group
    <3> HIDE DEF B, more, M
    <3> QED
      BY <1>1, <1>2, <1>5, <2>1, FittingBlocks
  <2>3. n * c + M \div Group <= PoolSlots
    BY <1>8, TailPositive, AsyncPool
  <2> HIDE DEF B, n, c, M
  <2>4. Cardinality(B) \in Nat /\ Cardinality(B) <= PoolSlots
    BY <1>4, <1>6, <1>7, <2>2, <2>3
  <2> QED
    BY <2>4 DEF B
<1>9. CASE 2 * Lookahead <= Group
  <2> DEFINE extra == [r \in Req |-> 1]
  <2>1. extra \in [Req -> Nat]
    OBVIOUS
  <2>2. ASSUME NEW r \in Req PROVE Fits(r, B, TailBlocks + extra[r])
    <3>1. Ceil(more[r]) <= 1 /\ Ceil(more[r]) \in Nat
      BY <1>9, ShortDoubt
    <3> HIDE DEF B, more
    <3>2. /\ TailBlocks + Ceil(more[r]) \in Nat /\ TailBlocks + extra[r] \in Nat
          /\ TailBlocks + Ceil(more[r]) <= TailBlocks + extra[r]
      BY <1>3, <3>1
    <3> HIDE DEF extra
    <3> QED
      BY <1>2, <3>2, FitsLess
  <2>3. PICK at \in [B -> Req \X Nat] :
           /\ \A a, b \in B : at[a] = at[b] => a = b
           /\ \A b \in B : /\ at[b][1] = b[1] /\ b[1] \in Req /\ at[b][2] >= 1
                           /\ at[b][2] <= Sink + TailBlocks + extra[b[1]]
    <3> HIDE DEF B, extra
    <3> QED
      BY <1>1, <2>1, <2>2, Numbered
  <2>4. ASSUME NEW b \in B PROVE at[b] \in Req \X (1 .. c)
    <3> HIDE DEF B
    <3>1. at[b] \in Req \X Nat /\ b[1] \in Req
      BY <2>3
    <3>2. at[b] = <<at[b][1], at[b][2]>> /\ at[b][1] \in Req /\ at[b][2] \in Nat
      BY <3>1
    <3>3. at[b][2] >= 1 /\ at[b][2] <= Sink + TailBlocks + 1
      BY <2>3, <3>1
    <3>4. at[b][2] \in 1 .. c
      BY <1>3, <3>2, <3>3
    <3> QED
      BY <3>2, <3>4
  <2>5. at \in [B -> Req \X (1 .. c)]
    BY <2>3, <2>4
  <2>6. Cardinality(B) \in Nat /\ Cardinality(B) <= n * c
    <3> HIDE DEF B, c
    <3> QED
      BY <1>3, <2>3, <2>5, CountPairs
  <2>7. n * c <= PoolSlots
    BY TailPositive, SyncPool
  <2> HIDE DEF B, n, c
  <2>8. Cardinality(B) \in Nat /\ Cardinality(B) <= PoolSlots
    BY <1>4, <1>7, <2>6, <2>7
  <2> QED
    BY <2>8 DEF B
<1> QED
  BY <1>8, <1>9

LEMMA StepSnapshot ==
    ASSUME PrecisionTail >= Budget + 2 * Lookahead, Async \/ 2 * Lookahead <= Group,
           PrecisionInv, OwnInv, FitsInv,
           NEW R \in SUBSET Req, NEW step \in [R -> Shares], Step(step),
           \A r \in R : computed[r] + step[r].tokens < MaxLen,
           Cardinality(TokensOf(step)) <= Budget
    PROVE  SnapshotFits'
<1>1. Cardinality(needed') \in Nat /\ Cardinality(needed') <= PoolSlots
  BY NeededCount
<1> QED
  BY <1>1 DEF SnapshotFits, PoolSlots, ResidentBlocksPerSeq, Ceil

\* A snapshot is taken by a step only.
LEMMA SnapshotStep ==
    ASSUME PrecisionTail >= Budget + 2 * Lookahead, Async \/ 2 * Lookahead <= Group
    PROVE  PackedInv /\ FitsInv /\ SnapshotFits /\ [Next]_vars => FitsInv' /\ SnapshotFits'
<1> SUFFICES ASSUME PackedInv, FitsInv, SnapshotFits, [Next]_vars
             PROVE  FitsInv' /\ SnapshotFits'
  OBVIOUS
<1>1. PrecisionInv /\ OwnInv /\ PrecisionTail > 0
  BY TailPositive DEF PackedInv
<1>2. ASSUME needed' = needed PROVE SnapshotFits'
  BY <1>2 DEF SnapshotFits, PoolSlots, ResidentBlocksPerSeq, Ceil
<1>3. ASSUME Schedule PROVE FitsInv' /\ SnapshotFits'
  <2>0. PICK R \in SUBSET Req : \E step \in [R -> Shares] :
           /\ Cardinality(TokensOf(step)) <= Budget
           /\ \A r \in R : computed[r] + step[r].tokens < MaxLen
           /\ Step(step)
    BY <1>3 DEF Schedule
  <2>1. PICK step \in [R -> Shares] :
           /\ Cardinality(TokensOf(step)) <= Budget
           /\ \A r \in R : computed[r] + step[r].tokens < MaxLen
           /\ Step(step)
    BY <2>0
  <2>2. FitsInv'
    BY <1>1, <2>1, StepFits
  <2>3. SnapshotFits'
    BY <1>1, <2>1, StepSnapshot
  <2> QED
    BY <2>2, <2>3
<1>4. ASSUME Settle PROVE FitsInv' /\ SnapshotFits'
  <2>1. FitsInv'
    BY <1>1, <1>4, SettleFits
  <2>2. needed' = needed
    BY <1>4 DEF Settle
  <2> QED
    BY <1>2, <2>1, <2>2
<1>5. ASSUME Report PROVE FitsInv' /\ SnapshotFits'
  <2>1. UNCHANGED tracker /\ UNCHANGED unsettled /\ needed' = needed
    BY <1>5 DEF Report
  <2>2. FitsInv'
    BY <2>1, SameFits
  <2> QED
    BY <1>2, <2>1, <2>2
<1>6. ASSUME UNCHANGED vars PROVE FitsInv' /\ SnapshotFits'
  <2>1. UNCHANGED tracker /\ UNCHANGED unsettled /\ needed' = needed
    BY <1>6 DEF vars
  <2>2. FitsInv'
    BY <2>1, SameFits
  <2> QED
    BY <1>2, <2>1, <2>2
<1> QED
  BY <1>3, <1>4, <1>5, <1>6 DEF Next

LEMMA SnapshotInit ==
    ASSUME PrecisionTail >= Budget + 2 * Lookahead
    PROVE  Init => SnapshotFits
<1> SUFFICES ASSUME Init PROVE SnapshotFits
  OBVIOUS
<1>1. needed = {}
  BY DEF Init
<1>2. Cardinality(needed) = 0
  BY <1>1, FS_EmptySet
<1>3. Cardinality(Req) * (Sink + TailBlocks + 1) <= PoolSlots /\ PoolSlots \in Nat
  BY TailPositive, SyncPool, PoolType
<1> QED
  BY <1>2, <1>3 DEF SnapshotFits

\* SnapshotFits: no snapshot names more blocks than the pool has slots, whatever
\* the batches, the rejections, the ranks and the number of requests, with a
\* precision tail as long as a batch and twice the lookahead.  The pool has
\* blocks to roll back to with asynchronous scheduling; without it twice the
\* lookahead may not be longer than a block.
THEOREM SnapshotTheorem ==
    ASSUME PrecisionTail >= Budget + 2 * Lookahead, Async \/ 2 * Lookahead <= Group
    PROVE  Spec => []SnapshotFits
<1> DEFINE Inv == PackedInv /\ FitsInv /\ SnapshotFits
<1>1. PrecisionTail >= Lookahead
  BY SequencesAssumption, GeometryAssumption
<1>2. Init => Inv
  BY PackedInit, InitFits, SnapshotInit
<1>3. Inv /\ [Next]_vars => Inv'
  BY <1>1, PackedStep, SnapshotStep
<1>4. Inv => SnapshotFits
  OBVIOUS
<1> HIDE DEF Inv
<1> QED
  BY <1>2, <1>3, <1>4, PTL DEF Spec
=============================================================================
