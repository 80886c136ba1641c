------------------------- MODULE KVarNBlocks_proofs -------------------------
(***************************************************************************)
(* Proofs about the blocks of KVarNServing, from request to request: they  *)
(* share only what is cached and filled; what is open in the tracker is    *)
(* about the batch sent last; nobody is left out behind an empty batch;    *)
(* and a block leaves the snapshot only when it is known to be full, so    *)
(* that prepare_step packs it.                                             *)
(***************************************************************************)
EXTENDS KVarNServing_proofs

-----------------------------------------------------------------------------
(* Who holds a cached block.  Running requests share a block only at the     *)
(* position it is cached for, and only with rows that are there: a cached    *)
(* block is Stable, every holder has all its rows, unless it is Arriving, in *)
(* the batch that is being put together and computes its last rows.          *)

Rows(r) == IF r \in DOMAIN worker THEN worker[r].rows ELSE batch[r].start
Filled(r, i) == Span(i) <= Rows(r)

LayoutInv ==
    /\ \A r \in Req : \A i, j \in DOMAIN request[r].table :
          request[r].table[i] = request[r].table[j] => i = j
    /\ \A r \in Req : \A i \in DOMAIN request[r].table :
          cachedAt[request[r].table[i]] \in {0, i}
    /\ \A r \in Req \ Running : request[r].table = << >>
    /\ \A r \in DOMAIN worker :
        /\ worker[r].rows <= Span(Len(worker[r].ids))
        /\ \A i, j \in DOMAIN worker[r].ids : worker[r].ids[i] = worker[r].ids[j] => i = j
    /\ \A r \in Running \cap DOMAIN worker :
        /\ Len(worker[r].ids) <= Len(request[r].table)
        /\ \A i \in DOMAIN worker[r].ids : request[r].table[i] = worker[r].ids[i]
        /\ r \notin DOMAIN batch => worker[r].ids = request[r].table
    /\ \A r \in DOMAIN batch \ DOMAIN worker : \E h \in Nat :
        /\ batch[r].start = Span(h) /\ h <= Len(request[r].table)
        /\ h <= Hittable(MaxLen - 1)
        /\ \A i \in 1 .. h : cachedAt[request[r].table[i]] = i

SharedInv ==
    /\ \A r, x \in Running : r # x =>
          \A i \in DOMAIN request[r].table, j \in DOMAIN request[x].table :
             request[r].table[i] = request[x].table[j] =>
                /\ i = j /\ cachedAt[request[r].table[i]] = i
                /\ Filled(r, i) \/ (Filled(x, i) /\ x \notin DOMAIN worker)
    /\ \A r, x \in DOMAIN worker : r # x =>
          \A i \in DOMAIN worker[r].ids, j \in DOMAIN worker[x].ids :
             worker[r].ids[i] = worker[x].ids[j] => i = j /\ Span(i) <= worker[r].rows

Arriving(b) ==
    \E r \in DOMAIN batch : \E i \in DOMAIN request[r].table :
        /\ request[r].table[i] = b
        /\ Span(i) <= batch[r].start + batch[r].sched /\ Span(i) <= request[r].total
        /\ r \in DOMAIN worker \/ batch[r].start < Span(i)

Stable(b) ==
    /\ \A r \in Running : \A i \in DOMAIN request[r].table :
          request[r].table[i] = b => i = cachedAt[b] /\ Filled(r, i)
    /\ \A r \in DOMAIN worker : \A i \in DOMAIN worker[r].ids :
          worker[r].ids[i] = b => i = cachedAt[b] /\ Span(i) <= worker[r].rows

StableInv == \A b \in Block : cachedAt[b] > 0 => Arriving(b) \/ Stable(b)

\* What Cached does with a block.
LEMMA CachedBlock ==
    ASSUME NEW table \in Seq(Block), NEW new, NEW tokens \in Nat, NEW b \in Block,
           NEW v, v = Cached(table, new, tokens)[b]
    PROVE  /\ (\E i \in DOMAIN table : Span(i) <= tokens /\ table[i] = b)
                 => v \in DOMAIN table /\ table[v] = b
           /\ ~(\E i \in DOMAIN table : Span(i) <= tokens /\ table[i] = b)
                 => v = IF b \in Range(new) THEN 0 ELSE cachedAt[b]
<1> DEFINE n == tokens \div BlockTokens
           P == \E i \in 1 .. Lesser(n, Len(table)) : table[i] = b
           H == \E i \in DOMAIN table : Span(i) <= tokens /\ table[i] = b
<1>1. /\ DOMAIN table = 1 .. Len(table) /\ Len(table) \in Nat /\ n \in Nat
      /\ \A i \in Nat : i <= n <=> Span(i) <= tokens
  BY SpanDiv
<1>2. v = IF P THEN CHOOSE i \in DOMAIN table : table[i] = b
          ELSE IF b \in Range(new) THEN 0 ELSE cachedAt[b]
  BY DEF Cached
<1> HIDE DEF n
<1>3. \A i : i \in 1 .. Lesser(n, Len(table)) <=> i \in 1 .. Len(table) /\ i <= n
  BY <1>1 DEF Lesser
<1>4. \A i \in DOMAIN table : i \in Nat
  BY <1>1
<1>5. P <=> H
  BY <1>1, <1>3, <1>4
<1>6. H => (CHOOSE i \in DOMAIN table : table[i] = b) \in DOMAIN table
           /\ table[CHOOSE i \in DOMAIN table : table[i] = b] = b
  OBVIOUS
<1> HIDE DEF P
<1> QED
  BY <1>2, <1>5, <1>6

\* The items of a table that has been extended.
LEMMA Extended ==
    ASSUME NEW kept \in Seq(Block), NEW new \in Seq(Block), NEW t, t = kept \o new
    PROVE  /\ t \in Seq(Block) /\ Len(t) = Len(kept) + Len(new)
           /\ DOMAIN t = 1 .. Len(t) /\ Len(t) \in Nat /\ Len(kept) \in Nat
           /\ DOMAIN kept = 1 .. Len(kept)
           /\ \A i \in DOMAIN kept : i \in DOMAIN t /\ t[i] = kept[i]
           /\ \A i \in DOMAIN t \ DOMAIN kept :
                 i - Len(kept) \in DOMAIN new /\ t[i] = new[i - Len(kept)]
                    /\ t[i] \in Range(new)
           /\ \A i \in DOMAIN kept : kept[i] \in Block /\ kept[i] \in Range(kept)
           /\ \A i \in DOMAIN t : t[i] \in Block
<1>1. /\ t \in Seq(Block) /\ Len(t) = Len(kept) + Len(new)
      /\ DOMAIN t = 1 .. Len(t) /\ Len(t) \in Nat /\ Len(kept) \in Nat /\ Len(new) \in Nat
      /\ DOMAIN kept = 1 .. Len(kept) /\ DOMAIN new = 1 .. Len(new)
  OBVIOUS
<1>2. ASSUME NEW i \in DOMAIN kept
      PROVE  i \in DOMAIN t /\ t[i] = kept[i] /\ kept[i] \in Block /\ kept[i] \in Range(kept)
  BY <1>1 DEF Range
<1>3. ASSUME NEW i \in DOMAIN t \ DOMAIN kept
      PROVE  /\ i - Len(kept) \in DOMAIN new /\ t[i] = new[i - Len(kept)]
             /\ t[i] \in Range(new)
  <2>1. i - Len(kept) \in DOMAIN new /\ t[i] = new[i - Len(kept)]
    BY <1>1
  <2> QED
    BY <2>1 DEF Range
<1> QED
  BY <1>1, <1>2, <1>3

\* What a grant asks of the blocks the table keeps.
Keeps(r, kept, g) ==
    /\ Running' = Running \cup {r}
    /\ \A i, j \in DOMAIN kept : kept[i] = kept[j] => i = j
    /\ \A i \in DOMAIN kept : cachedAt[kept[i]] \in {0, i}
    /\ \A i \in DOMAIN kept : \A x \in Running \ {r} : \A j \in DOMAIN request[x].table :
          request[x].table[j] = kept[i] =>
             /\ i = j /\ cachedAt[kept[i]] = i
             /\ Filled(r, i)' \/ (Filled(x, i) /\ x \notin DOMAIN worker)
             /\ Filled(x, i) \/ (Filled(r, i)' /\ r \notin DOMAIN worker)
    /\ \A i \in DOMAIN kept : cachedAt[kept[i]] > 0 /\ Stable(kept[i]) => Filled(r, i)'
    /\ r \in DOMAIN worker => r \in Running /\ kept = request[r].table
    /\ r \notin DOMAIN worker =>
          /\ g.start = Span(Len(kept)) /\ Len(kept) <= Hittable(MaxLen - 1)
          /\ \A i \in DOMAIN kept : cachedAt[kept[i]] = i

\* Types after a step.
LEMMA NewRequestTypes ==
    ASSUME IInv', NEW r \in Req
    PROVE  /\ request'[r].computed \in Nat /\ request'[r].total \in Nat
           /\ request'[r].placeholders \in Nat
           /\ request'[r].table \in Seq(Block) /\ Len(request'[r].table) \in Nat
           /\ DOMAIN request'[r].table = 1 .. Len(request'[r].table)
<1>1. request' \in [Req -> Counters]
  BY DEF IInv, TypesInv
<1> QED
  BY <1>1 DEF Counters

\* How the cache looks after a grant.
LEMMA GrantedBlocks ==
    ASSUME IInv, IInv', LayoutInv,
           NEW r, NEW kept, NEW new, NEW g, Grants(r, kept, new, g), Keeps(r, kept, g),
           NEW t, t = request'[r].table
    PROVE  /\ \A i, j \in DOMAIN t : t[i] = t[j] => i = j
           /\ \A i \in DOMAIN t : t[i] \in Block /\ cachedAt'[t[i]] \in {0, i}
           /\ \A i \in DOMAIN kept : i \in DOMAIN t /\ t[i] = kept[i]
           /\ \A i \in DOMAIN kept : cachedAt[kept[i]] = i => cachedAt'[t[i]] = i
           /\ \A x \in Running \ {r} : \A j \in DOMAIN request[x].table :
                /\ cachedAt'[request[x].table[j]] = cachedAt[request[x].table[j]]
                /\ \A i \in DOMAIN t : t[i] = request[x].table[j] => i \in DOMAIN kept
           /\ \A b \in Block : cachedAt'[b] > 0 =>
                \/ \E i \in DOMAIN t : /\ t[i] = b /\ cachedAt'[b] = i
                                       /\ Span(i) <= g.start + g.sched
                                       /\ Span(i) <= request'[r].total
                \/ b \notin Range(new) /\ cachedAt'[b] = cachedAt[b]
<1> DEFINE tokens == Lesser(g.start + g.sched, request'[r].total)
<1>1. /\ kept \in Seq(Block) /\ new \in Seq(Block) /\ IsInjective(new)
      /\ Range(new) \cap (Owned \cup Range(kept)) = {}
      /\ t = kept \o new /\ r \in Req
      /\ cachedAt' = Cached(t, new, tokens)
      /\ g \in Grant
  BY DEF Grants
<1>2. /\ t \in Seq(Block) /\ Len(t) = Len(kept) + Len(new)
      /\ DOMAIN t = 1 .. Len(t) /\ Len(t) \in Nat /\ Len(kept) \in Nat
      /\ DOMAIN kept = 1 .. Len(kept)
      /\ \A i \in DOMAIN kept : i \in DOMAIN t /\ t[i] = kept[i]
      /\ \A i \in DOMAIN t \ DOMAIN kept :
                 i - Len(kept) \in DOMAIN new /\ t[i] = new[i - Len(kept)]
                    /\ t[i] \in Range(new)
      /\ \A i \in DOMAIN kept : kept[i] \in Block /\ kept[i] \in Range(kept)
      /\ \A i \in DOMAIN t : t[i] \in Block
  BY <1>1, Extended
<1>3. /\ tokens \in Nat
      /\ \A n \in Nat : n <= tokens => n <= g.start + g.sched /\ n <= request'[r].total
  BY <1>1, NewRequestTypes DEF Grant, Lesser
<1> HIDE DEF tokens
<1>4. \A i, j \in DOMAIN t : t[i] = t[j] => i = j
  <2> SUFFICES ASSUME NEW i \in DOMAIN t, NEW j \in DOMAIN t, t[i] = t[j]
               PROVE  i = j
    OBVIOUS
  <2>1. CASE i \in DOMAIN kept /\ j \in DOMAIN kept
    BY <1>2, <2>1 DEF Keeps
  <2>2. CASE i \notin DOMAIN kept /\ j \notin DOMAIN kept
    <3>1. i - Len(kept) = j - Len(kept)
      <4>1. \A m, n \in DOMAIN new : new[m] = new[n] => m = n
        BY <1>1 DEF IsInjective
      <4>2. /\ i - Len(kept) \in DOMAIN new /\ j - Len(kept) \in DOMAIN new
            /\ new[i - Len(kept)] = new[j - Len(kept)]
        BY <1>2, <2>2
      <4> QED
        BY <4>1, <4>2
    <3>2. i \in Nat /\ j \in Nat
      BY <1>2
    <3> QED
      BY <1>2, <3>1, <3>2
  <2>3. CASE i \in DOMAIN kept <=> j \notin DOMAIN kept
    <3>1. t[i] \in Range(new) /\ t[i] \in Range(kept)
      BY <1>2, <2>3
    <3> QED
      BY <1>1, <3>1
  <2> QED
    BY <2>1, <2>2, <2>3
<1>5. ASSUME NEW b \in Block
      PROVE  /\ (\E i \in DOMAIN t : Span(i) <= tokens /\ t[i] = b)
                   => \E i \in DOMAIN t : Span(i) <= tokens /\ t[i] = b /\ cachedAt'[b] = i
             /\ ~(\E i \in DOMAIN t : Span(i) <= tokens /\ t[i] = b)
                   => cachedAt'[b] = IF b \in Range(new) THEN 0 ELSE cachedAt[b]
  <2> DEFINE v == cachedAt'[b]
  <2>1. v = Cached(t, new, tokens)[b]
    BY <1>1
  <2> HIDE DEF v
  <2>2. /\ (\E i \in DOMAIN t : Span(i) <= tokens /\ t[i] = b)
                 => v \in DOMAIN t /\ t[v] = b
        /\ ~(\E i \in DOMAIN t : Span(i) <= tokens /\ t[i] = b)
                 => v = IF b \in Range(new) THEN 0 ELSE cachedAt[b]
    <3>1. t \in Seq(Block) /\ tokens \in Nat
      BY <1>2, <1>3
    <3> QED
      BY <2>1, <3>1, CachedBlock
  <2>3. ASSUME NEW i \in DOMAIN t, Span(i) <= tokens, t[i] = b
        PROVE  v = i
    BY <1>4, <2>2, <2>3
  <2>4. (\E i \in DOMAIN t : Span(i) <= tokens /\ t[i] = b)
           => \E i \in DOMAIN t : Span(i) <= tokens /\ t[i] = b /\ v = i
    BY <2>3
  <2> QED
    BY <2>2, <2>4 DEF v
<1>6. ASSUME NEW i \in DOMAIN t
      PROVE  /\ cachedAt'[t[i]] \in {0, i}
             /\ i \in DOMAIN kept /\ cachedAt[kept[i]] = i => cachedAt'[t[i]] = i
  <2>1. t[i] \in Block
    BY <1>2
  <2>2. CASE Span(i) <= tokens
    <3>1. PICK j \in DOMAIN t : t[j] = t[i] /\ cachedAt'[t[i]] = j
      BY <1>5, <2>1, <2>2
    <3> QED
      BY <1>4, <3>1
  <2>3. CASE ~(Span(i) <= tokens)
    <3>1. cachedAt'[t[i]] = IF t[i] \in Range(new) THEN 0 ELSE cachedAt[t[i]]
      <4>1. ~ \E j \in DOMAIN t : Span(j) <= tokens /\ t[j] = t[i]
        BY <1>4, <2>3
      <4> QED
        BY <1>5, <2>1, <4>1
    <3>2. CASE i \in DOMAIN kept
      <4>1. t[i] = kept[i] /\ t[i] \notin Range(new)
        BY <1>1, <1>2, <3>2
      <4>2. cachedAt[kept[i]] \in {0, i}
        BY <3>2 DEF Keeps
      <4> QED
        BY <3>1, <4>1, <4>2
    <3>3. CASE i \notin DOMAIN kept
      BY <1>2, <3>1, <3>3
    <3> QED
      BY <3>2, <3>3
  <2> QED
    BY <2>2, <2>3
<1>7. ASSUME NEW x \in Running \ {r}, NEW j \in DOMAIN request[x].table
      PROVE  /\ cachedAt'[request[x].table[j]] = cachedAt[request[x].table[j]]
             /\ \A i \in DOMAIN t : t[i] = request[x].table[j] => i \in DOMAIN kept
  <2> DEFINE b == request[x].table[j]
  <2>1. x \in Req /\ request[x].table \in Seq(Block)
    BY RunningTypes, RequestTypes DEF IInv
  <2>2. b \in Block /\ b \in Owned
    BY <2>1 DEF Owned, Range
  <2>3. b \notin Range(new)
    BY <1>1, <2>2
  <2>4. \A i \in DOMAIN t : t[i] = b => i \in DOMAIN kept /\ kept[i] = b
    BY <1>2, <2>3
  <2>5. cachedAt'[b] = cachedAt[b]
    <3>1. CASE \E i \in DOMAIN t : Span(i) <= tokens /\ t[i] = b
      <4>1. PICK i \in DOMAIN t : t[i] = b /\ cachedAt'[b] = i
        BY <1>5, <2>2, <3>1
      <4>2. i \in DOMAIN kept /\ kept[i] = b
        BY <2>4, <4>1
      <4>3. cachedAt[kept[i]] = i
        BY <4>2 DEF Keeps
      <4> QED
        BY <4>1, <4>2, <4>3
    <3>2. CASE ~ \E i \in DOMAIN t : Span(i) <= tokens /\ t[i] = b
      BY <1>5, <2>2, <2>3, <3>2
    <3> QED
      BY <3>1, <3>2
  <2> QED
    BY <2>4, <2>5
<1>8. ASSUME NEW b \in Block, cachedAt'[b] > 0
      PROVE  \/ \E i \in DOMAIN t : /\ t[i] = b /\ cachedAt'[b] = i
                                    /\ Span(i) <= g.start + g.sched
                                    /\ Span(i) <= request'[r].total
             \/ b \notin Range(new) /\ cachedAt'[b] = cachedAt[b]
  <2>1. CASE \E i \in DOMAIN t : Span(i) <= tokens /\ t[i] = b
    <3>1. PICK i \in DOMAIN t : Span(i) <= tokens /\ t[i] = b /\ cachedAt'[b] = i
      BY <1>5, <2>1
    <3>2. Span(i) \in Nat
      BY <1>2, SpanType
    <3> QED
      BY <1>3, <3>1, <3>2
  <2>2. CASE ~ \E i \in DOMAIN t : Span(i) <= tokens /\ t[i] = b
    BY <1>5, <1>8, <2>2
  <2> QED
    BY <2>1, <2>2
<1> QED
  BY <1>2, <1>4, <1>6, <1>7, <1>8

\* Tables and request states, without types.
LEMMA TableTypes ==
    ASSUME TypesInv, NEW r \in Req
    PROVE  /\ request[r].table \in Seq(Block) /\ Len(request[r].table) \in Nat
           /\ DOMAIN request[r].table = 1 .. Len(request[r].table)
           /\ \A i \in DOMAIN request[r].table :
                /\ i \in Nat \ {0} /\ request[r].table[i] \in Block
                /\ cachedAt[request[r].table[i]] \in Nat
<1>1. request[r].table \in Seq(Block)
  BY RequestTypes
<1>2. cachedAt \in [Block -> 0 .. Cardinality(Block)] /\ Cardinality(Block) \in Nat
  BY FS_CardinalityType, ServingAssumption DEF TypesInv
<1> QED
  BY <1>1, <1>2

\* Layout survives a grant.
LEMMA GrantsLayout ==
    ASSUME IInv, IInv', LayoutInv,
           NEW r, NEW kept, NEW new, NEW g, Grants(r, kept, new, g), Keeps(r, kept, g)
    PROVE  LayoutInv'
<1> DEFINE t == request'[r].table
<1>1. /\ r \in Req /\ r \notin DOMAIN batch /\ DOMAIN (batch') = DOMAIN batch \cup {r}
      /\ batch'[r] = g /\ \A x \in DOMAIN batch : batch'[x] = batch[x]
      /\ worker' = worker
      /\ \A x \in Req : x # r => request'[x] = request[x]
      /\ kept \in Seq(Block) /\ new \in Seq(Block) /\ t = kept \o new
  BY DEF Grants
<1>2. /\ \A i, j \in DOMAIN t : t[i] = t[j] => i = j
      /\ \A i \in DOMAIN t : t[i] \in Block /\ cachedAt'[t[i]] \in {0, i}
      /\ \A i \in DOMAIN kept : i \in DOMAIN t /\ t[i] = kept[i]
      /\ \A i \in DOMAIN kept : cachedAt[kept[i]] = i => cachedAt'[t[i]] = i
      /\ \A x \in Running \ {r} : \A j \in DOMAIN request[x].table :
            cachedAt'[request[x].table[j]] = cachedAt[request[x].table[j]]
  BY GrantedBlocks
<1>3. /\ Running' = Running \cup {r} /\ Running \subseteq Req
      /\ DOMAIN batch \subseteq Running
  BY RunningTypes DEF Keeps, IInv, QueuesInv
<1>4. Len(t) = Len(kept) + Len(new) /\ Len(kept) \in Nat /\ Len(new) \in Nat
      /\ DOMAIN kept = 1 .. Len(kept)
  BY <1>1
<1> HIDE DEF t
<1>5. ASSUME NEW x \in Req
      PROVE  /\ \A i, j \in DOMAIN request'[x].table :
                   request'[x].table[i] = request'[x].table[j] => i = j
             /\ \A i \in DOMAIN request'[x].table : cachedAt'[request'[x].table[i]] \in {0, i}
  <2>1. CASE x = r
    BY <1>2, <2>1 DEF t
  <2>2. CASE x # r /\ x \in Running
    <3>1. request'[x] = request[x]
      BY <1>1, <2>2
    <3> QED
      BY <1>2, <2>2, <3>1 DEF LayoutInv
  <2>3. CASE x # r /\ x \notin Running
    <3>1. request'[x] = request[x] /\ request[x].table = << >>
      BY <1>1, <2>3 DEF LayoutInv
    <3>2. DOMAIN request'[x].table = {}
      BY <3>1
    <3> QED
      BY <3>2
  <2> QED
    BY <2>1, <2>2, <2>3
<1>6. \A x \in Req \ Running' : request'[x].table = << >>
  BY <1>1, <1>3 DEF LayoutInv
<1>7. \A x \in DOMAIN (worker') :
        /\ worker'[x].rows <= Span(Len(worker'[x].ids))
        /\ \A i, j \in DOMAIN worker'[x].ids : worker'[x].ids[i] = worker'[x].ids[j] => i = j
  BY <1>1 DEF LayoutInv
<1>8. ASSUME NEW x \in Running' \cap DOMAIN (worker')
      PROVE  /\ Len(worker'[x].ids) <= Len(request'[x].table)
             /\ \A i \in DOMAIN worker'[x].ids : request'[x].table[i] = worker'[x].ids[i]
             /\ x \notin DOMAIN (batch') => worker'[x].ids = request'[x].table
  <2>1. CASE x = r
    <3>1. r \in DOMAIN worker /\ r \in Running /\ kept = request[r].table
      BY <1>1, <1>8, <2>1 DEF Keeps
    <3>2. /\ Len(worker[r].ids) <= Len(kept)
          /\ \A i \in DOMAIN worker[r].ids : kept[i] = worker[r].ids[i]
      BY <3>1 DEF LayoutInv
    <3>3. DOMAIN worker[r].ids = 1 .. Len(worker[r].ids) /\ Len(worker[r].ids) \in Nat
      BY <3>1, StateTypes DEF IInv
    <3>4. Len(worker[r].ids) <= Len(t)
      BY <1>4, <3>2, <3>3
    <3>5. \A i \in DOMAIN worker[r].ids : t[i] = worker[r].ids[i]
      BY <1>2, <1>4, <3>2, <3>3
    <3> QED
      BY <1>1, <2>1, <3>4, <3>5 DEF t
  <2>2. CASE x # r
    <3>1. x \in Running /\ x \in DOMAIN worker /\ request'[x] = request[x]
          /\ (x \notin DOMAIN (batch') => x \notin DOMAIN batch)
      BY <1>1, <1>3, <1>8, <2>2
    <3> QED
      BY <1>1, <3>1 DEF LayoutInv
  <2> QED
    BY <2>1, <2>2
<1>9. ASSUME NEW x \in DOMAIN (batch') \ DOMAIN (worker')
      PROVE  \E h \in Nat :
        /\ batch'[x].start = Span(h) /\ h <= Len(request'[x].table)
        /\ h <= Hittable(MaxLen - 1)
        /\ \A i \in 1 .. h : cachedAt'[request'[x].table[i]] = i
  <2>1. CASE x = r
    <3>1. /\ g.start = Span(Len(kept)) /\ Len(kept) <= Hittable(MaxLen - 1)
          /\ \A i \in DOMAIN kept : cachedAt[kept[i]] = i
      BY <1>1, <1>9, <2>1 DEF Keeps
    <3>2. \A i \in 1 .. Len(kept) : cachedAt'[t[i]] = i
      BY <1>2, <1>4, <3>1
    <3>3. Len(kept) <= Len(t)
      BY <1>4
    <3> QED
      BY <1>1, <1>4, <2>1, <3>1, <3>2, <3>3 DEF t
  <2>2. CASE x # r
    <3>1. x \in DOMAIN batch /\ x \notin DOMAIN worker /\ x \in Running /\ x \in Req
          /\ request'[x] = request[x] /\ batch'[x] = batch[x]
      BY <1>1, <1>3, <1>9, <2>2
    <3>2. PICK h \in Nat :
            /\ batch[x].start = Span(h) /\ h <= Len(request[x].table)
            /\ h <= Hittable(MaxLen - 1)
            /\ \A i \in 1 .. h : cachedAt[request[x].table[i]] = i
      BY <3>1 DEF LayoutInv
    <3>3. /\ DOMAIN request[x].table = 1 .. Len(request[x].table)
          /\ Len(request[x].table) \in Nat
      BY <3>1, TableTypes DEF IInv
    <3>4. \A i \in 1 .. h : i \in DOMAIN request[x].table
      BY <3>2, <3>3
    <3>5. \A i \in 1 .. h : cachedAt'[request[x].table[i]] = i
      BY <1>2, <2>2, <3>1, <3>2, <3>4
    <3> QED
      BY <3>1, <3>2, <3>5
  <2> QED
    BY <2>1, <2>2
<1>10. Span(0)' = Span(0) /\ \A n : Span(n)' = Span(n)
  BY DEF Span
<1> QED
  BY <1>5, <1>6, <1>7, <1>8, <1>9 DEF LayoutInv, Span, Hittable

\* So does what requests share.
LEMMA GrantsShared ==
    ASSUME IInv, IInv', LayoutInv, SharedInv,
           NEW r, NEW kept, NEW new, NEW g, Grants(r, kept, new, g), Keeps(r, kept, g)
    PROVE  SharedInv'
<1> DEFINE t == request'[r].table
<1>1. /\ r \in Req /\ r \notin DOMAIN batch /\ DOMAIN (batch') = DOMAIN batch \cup {r}
      /\ batch'[r] = g /\ \A x \in DOMAIN batch : batch'[x] = batch[x]
      /\ worker' = worker
      /\ \A x \in Req : x # r => request'[x] = request[x]
  BY DEF Grants
<1>2. /\ \A i, j \in DOMAIN t : t[i] = t[j] => i = j
      /\ \A i \in DOMAIN t : t[i] \in Block /\ cachedAt'[t[i]] \in {0, i}
      /\ \A i \in DOMAIN kept : i \in DOMAIN t /\ t[i] = kept[i]
      /\ \A i \in DOMAIN kept : cachedAt[kept[i]] = i => cachedAt'[t[i]] = i
      /\ \A x \in Running \ {r} : \A j \in DOMAIN request[x].table :
           /\ cachedAt'[request[x].table[j]] = cachedAt[request[x].table[j]]
           /\ \A i \in DOMAIN t : t[i] = request[x].table[j] => i \in DOMAIN kept
  BY GrantedBlocks
<1>3. /\ Running' = Running \cup {r} /\ Running \subseteq Req
      /\ \A x \in Running : x \in DOMAIN worker \/ x \in DOMAIN batch
  BY RunningTypes DEF Keeps, IInv, FlightInv
<1> HIDE DEF t
<1>4. ASSUME NEW x \in Running \ {r}, NEW i
      PROVE  Filled(x, i)' <=> Filled(x, i)
  <2>1. x \in DOMAIN worker \/ (x \in DOMAIN batch /\ batch'[x] = batch[x])
    BY <1>1, <1>3
  <2> QED
    BY <1>1, <2>1 DEF Filled, Rows, Span
<1>5. ASSUME NEW x \in Running \ {r}, NEW i \in DOMAIN t, NEW j \in DOMAIN request[x].table,
             t[i] = request[x].table[j]
      PROVE  /\ i = j /\ cachedAt'[t[i]] = i
             /\ Filled(r, i)' \/ (Filled(x, i)' /\ x \notin DOMAIN (worker'))
             /\ Filled(x, i)' \/ (Filled(r, i)' /\ r \notin DOMAIN (worker'))
  <2>1. i \in DOMAIN kept /\ kept[i] = request[x].table[j]
    BY <1>2, <1>5
  <2>2. /\ i = j /\ cachedAt[kept[i]] = i
        /\ Filled(r, i)' \/ (Filled(x, i) /\ x \notin DOMAIN worker)
        /\ Filled(x, i) \/ (Filled(r, i)' /\ r \notin DOMAIN worker)
    BY <1>5, <2>1 DEF Keeps
  <2> QED
    BY <1>1, <1>2, <1>4, <2>1, <2>2
<1>6. ASSUME NEW y \in Running', NEW x \in Running', y # x,
             NEW i \in DOMAIN request'[y].table, NEW j \in DOMAIN request'[x].table,
             request'[y].table[i] = request'[x].table[j]
      PROVE  /\ i = j /\ cachedAt'[request'[y].table[i]] = i
             /\ Filled(y, i)' \/ (Filled(x, i)' /\ x \notin DOMAIN (worker'))
  <2>1. CASE y = r
    <3>1. x \in Running \ {r} /\ request'[x] = request[x]
      BY <1>1, <1>3, <1>6, <2>1
    <3> QED
      BY <1>5, <1>6, <2>1, <3>1 DEF t
  <2>2. CASE x = r
    <3>1. y \in Running \ {r} /\ request'[y] = request[y]
      BY <1>1, <1>3, <1>6, <2>2
    <3> QED
      BY <1>5, <1>6, <2>2, <3>1 DEF t
  <2>3. CASE y # r /\ x # r
    <3>1. /\ y \in Running \ {r} /\ request'[y] = request[y]
          /\ x \in Running \ {r} /\ request'[x] = request[x]
      BY <1>1, <1>3, <1>6, <2>3
    <3>2. /\ i = j /\ cachedAt[request[y].table[i]] = i
          /\ Filled(y, i) \/ (Filled(x, i) /\ x \notin DOMAIN worker)
      BY <1>6, <3>1 DEF SharedInv
    <3>3. Filled(y, i)' <=> Filled(y, i)
      BY <1>4, <3>1
    <3>4. Filled(x, i)' <=> Filled(x, i)
      BY <1>4, <3>1
    <3>5. cachedAt'[request[y].table[i]] = cachedAt[request[y].table[i]]
      BY <1>2, <1>6, <3>1
    <3> QED
      BY <1>1, <3>1, <3>2, <3>3, <3>4, <3>5
  <2> QED
    BY <2>1, <2>2, <2>3
<1>7. \A y, x \in DOMAIN (worker') : y # x =>
          \A i \in DOMAIN worker'[y].ids, j \in DOMAIN worker'[x].ids :
             worker'[y].ids[i] = worker'[x].ids[j] => i = j /\ Span(i) <= worker'[y].rows
  BY <1>1 DEF SharedInv
<1> QED
  BY <1>6, <1>7 DEF SharedInv, Span

\* And a block that is cached before or by the grant.
LEMMA GrantsStable ==
    ASSUME IInv, IInv', LayoutInv, SharedInv, StableInv,
           NEW r, NEW kept, NEW new, NEW g, Grants(r, kept, new, g), Keeps(r, kept, g)
    PROVE  StableInv'
<1> SUFFICES ASSUME NEW b \in Block, cachedAt'[b] > 0
             PROVE  Arriving(b)' \/ Stable(b)'
  BY DEF StableInv
<1> DEFINE t == request'[r].table
<1>1. /\ r \in Req /\ r \notin DOMAIN batch /\ DOMAIN (batch') = DOMAIN batch \cup {r}
      /\ batch'[r] = g /\ \A x \in DOMAIN batch : batch'[x] = batch[x]
      /\ worker' = worker
      /\ \A x \in Req : x # r => request'[x] = request[x]
      /\ kept \in Seq(Block) /\ new \in Seq(Block) /\ t = kept \o new /\ g \in Grant
      /\ Range(new) \cap (Owned \cup Range(kept)) = {}
  BY DEF Grants
<1>2. /\ \A i, j \in DOMAIN t : t[i] = t[j] => i = j
      /\ \A i \in DOMAIN t : t[i] \in Block /\ cachedAt'[t[i]] \in {0, i}
      /\ \A i \in DOMAIN kept : i \in DOMAIN t /\ t[i] = kept[i]
      /\ \/ \E i \in DOMAIN t : /\ t[i] = b /\ cachedAt'[b] = i
                                /\ Span(i) <= g.start + g.sched
                                /\ Span(i) <= request'[r].total
         \/ b \notin Range(new) /\ cachedAt'[b] = cachedAt[b]
  BY GrantedBlocks
<1>3. /\ Running' = Running \cup {r} /\ Running \subseteq Req
      /\ DOMAIN batch \subseteq Running
      /\ \A x \in Running : x \in DOMAIN worker \/ x \in DOMAIN batch
  BY RunningTypes DEF Keeps, IInv, FlightInv, QueuesInv
<1> HIDE DEF t
<1>4. /\ DOMAIN t = 1 .. Len(t) /\ Len(t) \in Nat /\ Len(kept) \in Nat
      /\ DOMAIN kept = 1 .. Len(kept)
      /\ \A i \in DOMAIN t \ DOMAIN kept : t[i] \in Range(new)
      /\ \A i \in DOMAIN kept : kept[i] \in Range(kept)
  <2>1. kept \in Seq(Block) /\ new \in Seq(Block) /\ t = kept \o new
    BY <1>1
  <2> QED
    BY <2>1, Extended
<1>5. CASE \E i \in DOMAIN t : /\ t[i] = b /\ Span(i) <= g.start + g.sched
                               /\ Span(i) <= request'[r].total
                               /\ r \in DOMAIN worker \/ g.start < Span(i)
  <2>1. PICK i \in DOMAIN t : /\ t[i] = b /\ Span(i) <= g.start + g.sched
                              /\ Span(i) <= request'[r].total
                              /\ r \in DOMAIN worker \/ g.start < Span(i)
    BY <1>5
  <2>2. Arriving(b)'
    BY <1>1, <2>1 DEF Arriving, t, Span
  <2> QED
    BY <2>2
<1>6. CASE ~ \E i \in DOMAIN t : /\ t[i] = b /\ Span(i) <= g.start + g.sched
                                 /\ Span(i) <= request'[r].total
                                 /\ r \in DOMAIN worker \/ g.start < Span(i)
  <2>1. b \notin Range(new) /\ cachedAt'[b] = cachedAt[b]
    <3>1. CASE \E i \in DOMAIN t : /\ t[i] = b /\ cachedAt'[b] = i
                                   /\ Span(i) <= g.start + g.sched
                                   /\ Span(i) <= request'[r].total
      <4>1. PICK i \in DOMAIN t : /\ t[i] = b /\ cachedAt'[b] = i
                                  /\ Span(i) <= g.start + g.sched
                                  /\ Span(i) <= request'[r].total
        BY <3>1
      <4>2. r \notin DOMAIN worker /\ ~(g.start < Span(i))
        BY <1>6, <4>1
      <4>3. /\ g.start = Span(Len(kept))
            /\ \A j \in DOMAIN kept : cachedAt[kept[j]] = j
        BY <4>2 DEF Keeps
      <4>4. i \in Nat \ {0}
        BY <1>4
      <4>5. i <= Len(kept)
        <5>1. Span(i) \in Nat /\ Span(Len(kept)) \in Nat
          BY <1>4, <4>4, SpanType
        <5>2. Len(kept) < i => Span(Len(kept)) < Span(i)
          BY <1>4, <4>4, SpanMonotone
        <5> QED
          BY <1>4, <4>2, <4>3, <4>4, <5>1, <5>2
      <4>6. i \in DOMAIN kept /\ kept[i] = b
        BY <1>2, <1>4, <4>1, <4>4, <4>5
      <4> QED
        BY <1>1, <1>4, <4>1, <4>3, <4>6
    <3> QED
      BY <1>2, <3>1
  <2>2. Arriving(b) \/ Stable(b)
    BY <2>1 DEF StableInv
  <2>3. CASE Arriving(b)
    <3>1. PICK x \in DOMAIN batch : \E i \in DOMAIN request[x].table :
            /\ request[x].table[i] = b
            /\ Span(i) <= batch[x].start + batch[x].sched /\ Span(i) <= request[x].total
            /\ x \in DOMAIN worker \/ batch[x].start < Span(i)
      BY <2>3 DEF Arriving
    <3>2. x # r /\ x \in Req /\ x \in DOMAIN (batch')
      BY <1>1, <1>3
    <3>3. request'[x] = request[x] /\ batch'[x] = batch[x]
      BY <1>1, <3>2
    <3>4. Arriving(b)'
      BY <1>1, <3>1, <3>2, <3>3 DEF Arriving, Span
    <3> QED
      BY <3>4
  <2>4. CASE Stable(b)
    <3>1. ASSUME NEW x \in Running', NEW i \in DOMAIN request'[x].table,
                 request'[x].table[i] = b
          PROVE  i = cachedAt'[b] /\ Filled(x, i)'
      <4>1. CASE x = r
        <5>1. i \in DOMAIN t /\ t[i] = b
          BY <3>1, <4>1 DEF t
        <5>2. i \in DOMAIN kept /\ kept[i] = b
          BY <1>2, <1>4, <2>1, <5>1
        <5>3. cachedAt[kept[i]] > 0 /\ Stable(kept[i])
          BY <2>1, <2>4, <5>2
        <5>4. Filled(r, i)'
          BY <5>2, <5>3 DEF Keeps
        <5>5. cachedAt'[b] = i
          <6>1. cachedAt'[b] \in {0, i} /\ cachedAt'[b] # 0
            BY <1>2, <5>1
          <6> QED
            BY <6>1
        <5> QED
          BY <4>1, <5>4, <5>5
      <4>2. CASE x # r
        <5>1. x \in Running /\ request'[x] = request[x]
          BY <1>1, <1>3, <3>1, <4>2
        <5>2. i = cachedAt[b] /\ Filled(x, i)
          BY <2>4, <3>1, <5>1 DEF Stable
        <5>3. x \in DOMAIN worker \/ (x \in DOMAIN batch /\ batch'[x] = batch[x])
          BY <1>1, <1>3, <5>1
        <5>4. Filled(x, i)'
          BY <1>1, <5>2, <5>3 DEF Filled, Rows, Span
        <5> QED
          BY <2>1, <5>2, <5>4
      <4> QED
        BY <4>1, <4>2
    <3>2. \A x \in DOMAIN (worker') : \A i \in DOMAIN worker'[x].ids :
             worker'[x].ids[i] = b => i = cachedAt'[b] /\ Span(i) <= worker'[x].rows
      BY <1>1, <2>1, <2>4 DEF Stable
    <3>3. Stable(b)'
      BY <3>1, <3>2 DEF Stable, Span
    <3> QED
      BY <3>3
  <2> QED
    BY <2>2, <2>3, <2>4
<1> QED
  BY <1>5, <1>6

\* How many blocks can be hit, in tokens.
LEMMA HittableSpan ==
    ASSUME NEW n \in Nat
    PROVE  /\ Hittable(n + 1) \in Nat
           /\ \A i \in Nat : i <= Hittable(n + 1) /\ i > 0
                 => Span(IF UseEagle THEN i + 1 ELSE i) <= n
           /\ \A m \in Nat : n <= m => Hittable(n + 1) <= Hittable(m + 1)
<1> DEFINE q == n \div BlockTokens
           e == IF UseEagle THEN 1 ELSE 0
<1>1. /\ q \in Nat /\ \A i \in Nat : i <= q <=> Span(i) <= n
  BY SpanDiv
<1>2. e \in {0, 1} /\ (n + 1) - 1 = n
  OBVIOUS
<1>3. Hittable(n + 1) = Monus(q, e)
  BY <1>2 DEF Hittable
<1>4. ASSUME NEW i \in Nat, i <= Hittable(n + 1), i > 0
      PROVE  Span(IF UseEagle THEN i + 1 ELSE i) <= n
  <2>1. i + e <= q
    <3> HIDE DEF q, e
    <3> QED
      BY <1>1, <1>2, <1>3, <1>4 DEF Monus
  <2>2. (IF UseEagle THEN i + 1 ELSE i) = i + e
    OBVIOUS
  <2>3. i + e \in Nat
    BY <1>2
  <2> HIDE DEF q, e
  <2>4. Span(i + e) <= n
    BY <1>1, <2>1, <2>3
  <2> QED
    BY <2>2, <2>4
<1>5. ASSUME NEW m \in Nat, n <= m
      PROVE  Hittable(n + 1) <= Hittable(m + 1)
  <2> DEFINE p == m \div BlockTokens
  <2>1. /\ p \in Nat /\ \A i \in Nat : i <= p <=> Span(i) <= m
    BY SpanDiv
  <2>2. (m + 1) - 1 = m
    OBVIOUS
  <2>3. Hittable(m + 1) = Monus(p, e)
    BY <2>2 DEF Hittable
  <2>4. Span(q) <= n /\ Span(q) \in Nat
    BY <1>1, SpanType
  <2> HIDE DEF p, q, e
  <2>5. q <= p
    BY <1>1, <1>5, <2>1, <2>4
  <2> QED
    BY <1>1, <1>2, <1>3, <2>1, <2>3, <2>5 DEF Monus
<1>6. Hittable(n + 1) \in Nat
  <2> HIDE DEF q, e
  <2> QED
    BY <1>1, <1>2, <1>3 DEF Monus
<1> QED
  BY <1>4, <1>5, <1>6

LEMMA HitBlocks ==
    ASSUME NEW total, NEW hit \in Hits(total), Hittable(total) \in Nat
    PROVE  /\ Len(hit) \in Nat /\ Len(hit) <= Hittable(total) /\ DOMAIN hit = 1 .. Len(hit)
           /\ \A i \in DOMAIN hit : hit[i] \in Block /\ cachedAt[hit[i]] = i
<1>1. PICK m \in 0 .. Hittable(total) :
        /\ hit \in [1 .. m -> {b \in Block : cachedAt[b] > 0}]
        /\ \A i \in 1 .. m : cachedAt[hit[i]] = i
  BY DEF Hits
<1>2. m \in Nat /\ hit \in Seq(Block) /\ Len(hit) = m /\ DOMAIN hit = 1 .. m
  BY <1>1
<1> QED
  BY <1>1, <1>2

\* What a running request keeps, its table.
LEMMA ScheduleRunningKeeps ==
    ASSUME IInv, LayoutInv, SharedInv, NEW r \in Running, r \in DOMAIN worker,
           running' = running, NEW new, NEW g, Grants(r, request[r].table, new, g)
    PROVE  Keeps(r, request[r].table, g)
<1> DEFINE kept == request[r].table
<1>1. Running' = Running \cup {r} /\ r \in Req /\ worker' = worker
  BY RunningTypes DEF Running, IInv, Grants
<1>2. /\ \A i, j \in DOMAIN kept : kept[i] = kept[j] => i = j
      /\ \A i \in DOMAIN kept : cachedAt[kept[i]] \in {0, i}
  BY <1>1 DEF LayoutInv
<1>3. ASSUME NEW i
      PROVE  Filled(r, i)' <=> Filled(r, i)
  BY <1>1 DEF Filled, Rows, Span
<1>4. ASSUME NEW i \in DOMAIN kept, NEW x \in Running \ {r}, NEW j \in DOMAIN request[x].table,
             request[x].table[j] = kept[i]
      PROVE  /\ i = j /\ cachedAt[kept[i]] = i
             /\ Filled(r, i)' \/ (Filled(x, i) /\ x \notin DOMAIN worker)
             /\ Filled(x, i) \/ (Filled(r, i)' /\ r \notin DOMAIN worker)
  <2>1. /\ i = j /\ cachedAt[kept[i]] = i
        /\ Filled(r, i) \/ (Filled(x, i) /\ x \notin DOMAIN worker)
    BY <1>4 DEF SharedInv
  <2>2. Filled(x, j) \/ (Filled(r, j) /\ r \notin DOMAIN worker)
    BY <1>4 DEF SharedInv
  <2> QED
    BY <1>3, <2>1, <2>2
<1>5. \A i \in DOMAIN kept : cachedAt[kept[i]] > 0 /\ Stable(kept[i]) => Filled(r, i)'
  BY <1>3 DEF Stable
<1> QED
  BY <1>1, <1>2, <1>4, <1>5 DEF Keeps

\* What an admitted request keeps, its hit.
LEMMA AdmitsKeeps ==
    ASSUME IInv, ExactInv, LayoutInv,
           NEW r, NEW total, NEW hit, NEW new, NEW g, Admits(r, total, hit, new, g)
    PROVE  Keeps(r, hit, g)
<1>1. /\ Grants(r, hit, new, g) /\ r \notin DOMAIN worker /\ r \notin Running
      /\ Running' = Running \cup {r} /\ hit \in Hits(total) /\ total \in Nat
      /\ Span(Len(hit)) < total
      /\ request'[r].computed = Span(Len(hit))
  BY DEF Admits
<1>2. /\ hit \in Seq(Block) /\ g.start = Span(Len(hit)) /\ worker' = worker
      /\ batch'[r] = g
  BY <1>1 DEF Grants
<1>3. total < Limit
  BY DEF Admits, ExactInv
<1>4. Len(hit) <= Hittable(MaxLen - 1) /\ \A i \in DOMAIN hit : cachedAt[hit[i]] = i
  <2>1. Span(Len(hit)) \in Nat /\ Len(hit) \in Nat
    BY <1>2, SpanType
  <2>2. total - 1 \in Nat /\ MaxLen - 2 \in Nat /\ total - 1 <= MaxLen - 2
        /\ (total - 1) + 1 = total /\ (MaxLen - 2) + 1 = MaxLen - 1
    BY <1>1, <1>3, <2>1, LimitType
  <2>3. Hittable(total) \in Nat /\ Hittable(total) <= Hittable(MaxLen - 1)
        /\ Hittable(MaxLen - 1) \in Nat
    BY <2>2, HittableSpan
  <2>4. Len(hit) <= Hittable(total) /\ \A i \in DOMAIN hit : cachedAt[hit[i]] = i
    BY <1>1, <2>3, HitBlocks
  <2> QED
    BY <2>1, <2>3, <2>4
<1>5. DOMAIN hit = 1 .. Len(hit) /\ Len(hit) \in Nat
  BY <1>2
<1>6. ASSUME NEW i \in DOMAIN hit
      PROVE  Filled(r, i)'
  <2>1. Span(i) <= Span(Len(hit))
    BY <1>5, SpanMonotone
  <2> QED
    BY <1>1, <1>2, <2>1 DEF Filled, Rows, Span
<1>7. ASSUME NEW i \in DOMAIN hit, NEW x \in Running \ {r}, NEW j \in DOMAIN request[x].table,
             request[x].table[j] = hit[i]
      PROVE  i = j
  <2>1. x \in Req
    BY RunningTypes DEF IInv
  <2>2. cachedAt[request[x].table[j]] \in {0, j}
    BY <2>1 DEF LayoutInv
  <2>3. cachedAt[hit[i]] = i /\ i # 0
    BY <1>4, <1>5
  <2> QED
    BY <1>7, <2>2, <2>3
<1>8. \A i, j \in DOMAIN hit : hit[i] = hit[j] => i = j
  BY <1>4
<1> QED
  BY <1>1, <1>2, <1>4, <1>6, <1>7, <1>8 DEF Keeps

Sharing == LayoutInv /\ SharedInv /\ StableInv

LEMMA ScheduleRunningSharing ==
    ASSUME IInv, IInv', Sharing, ScheduleRunning
    PROVE  Sharing'
<1>1. PICK r, new, g :
        r \in Running /\ Grants(r, request[r].table, new, g) /\ r \in DOMAIN worker /\ running' = running
  BY ScheduleRunningGrants
<1>2. LayoutInv /\ SharedInv /\ StableInv
  BY DEF Sharing
<1>3. Keeps(r, request[r].table, g)
  BY <1>1, <1>2, ScheduleRunningKeeps
<1> QED
  BY <1>1, <1>2, <1>3, GrantsLayout, GrantsShared, GrantsStable DEF Sharing

LEMMA AdmitsSharing ==
    ASSUME IInv, IInv', ExactInv, Sharing,
           NEW r, NEW total, NEW hit, NEW new, NEW g, Admits(r, total, hit, new, g)
    PROVE  Sharing'
<1>1. Grants(r, hit, new, g)
  BY DEF Admits
<1>2. LayoutInv /\ SharedInv /\ StableInv
  BY DEF Sharing
<1>3. Keeps(r, hit, g)
  BY <1>2, AdmitsKeeps
<1> QED
  BY <1>1, <1>2, <1>3, GrantsLayout, GrantsShared, GrantsStable DEF Sharing

\* b is cached at i for r, of which the worker has the rows.
CachesFor(r, i, b) ==
    /\ r \in Running /\ r \in DOMAIN worker /\ i \in DOMAIN request[r].table
    /\ request[r].table[i] = b /\ cachedAt'[b] = i /\ Span(i) <= worker[r].rows

\* The steps that take tables away, and at most cache blocks between two steps.
Shrinks ==
    /\ Running' \subseteq Running /\ DOMAIN batch \subseteq Running'
    /\ batch' = batch /\ worker' = worker
    /\ \A x \in Running' : request'[x].table = request[x].table
    /\ \A x \in Req \ Running' : request'[x].table = << >>
    /\ \A x \in DOMAIN batch : request'[x].total = request[x].total
    /\ \A b \in Block :
        \/ cachedAt'[b] = cachedAt[b]
        \/ DOMAIN batch = {} /\ \E r, i : CachesFor(r, i, b)

LEMMA ShrinksSharing ==
    ASSUME IInv, IInv', Sharing, Shrinks
    PROVE  Sharing'
<1>1. LayoutInv /\ SharedInv /\ StableInv /\ TypesInv
  BY DEF Sharing, IInv
<1>2. /\ Running' \subseteq Running /\ DOMAIN batch \subseteq Running'
      /\ batch' = batch /\ worker' = worker /\ Running \subseteq Req
      /\ \A x \in Running' : request'[x].table = request[x].table
  BY <1>1, RunningTypes DEF Shrinks
<1>3. \A x, i : (Filled(x, i)' <=> Filled(x, i)) /\ Span(i)' = Span(i)
  BY <1>2 DEF Filled, Rows, Span
\* A block with a position stays there.
<1>4. ASSUME NEW x \in Running', NEW j \in DOMAIN request[x].table
      PROVE  /\ cachedAt'[request[x].table[j]] \in {0, j}
             /\ cachedAt[request[x].table[j]] = j => cachedAt'[request[x].table[j]] = j
  <2> DEFINE b == request[x].table[j]
  <2>1. /\ x \in Running /\ x \in Req /\ b \in Block /\ j \in Nat \ {0}
        /\ cachedAt[b] \in {0, j}
    BY <1>1, <1>2, TableTypes DEF LayoutInv
  <2>2. CASE cachedAt'[b] = cachedAt[b]
    BY <2>1, <2>2
  <2>3. CASE cachedAt'[b] # cachedAt[b]
    <3>1. PICK r, i : CachesFor(r, i, b)
      BY <2>1, <2>3 DEF Shrinks
    <3>2. i = j
      <4>1. CASE r = x
        BY <1>1, <2>1, <3>1, <4>1 DEF CachesFor, LayoutInv
      <4>2. CASE r # x
        BY <1>1, <2>1, <3>1, <4>2 DEF CachesFor, SharedInv
      <4> QED
        BY <4>1, <4>2
    <3> QED
      BY <3>1, <3>2 DEF CachesFor
  <2> QED
    BY <2>2, <2>3
<1>5. LayoutInv'
  <2>1. \A r \in Req : \A i, j \in DOMAIN request'[r].table :
          request'[r].table[i] = request'[r].table[j] => i = j
    BY <1>1, <1>2 DEF LayoutInv, Shrinks
  <2>2. \A r \in Req : \A i \in DOMAIN request'[r].table :
          cachedAt'[request'[r].table[i]] \in {0, i}
    BY <1>2, <1>4 DEF Shrinks
  <2>3. \A r \in Req \ Running' : request'[r].table = << >>
    BY DEF Shrinks
  <2>4. \A r \in DOMAIN (worker') :
        /\ worker'[r].rows <= Span(Len(worker'[r].ids))
        /\ \A i, j \in DOMAIN worker'[r].ids : worker'[r].ids[i] = worker'[r].ids[j] => i = j
    BY <1>1, <1>2 DEF LayoutInv
  <2>5. \A r \in Running' \cap DOMAIN (worker') :
        /\ Len(worker'[r].ids) <= Len(request'[r].table)
        /\ \A i \in DOMAIN worker'[r].ids : request'[r].table[i] = worker'[r].ids[i]
        /\ r \notin DOMAIN (batch') => worker'[r].ids = request'[r].table
    BY <1>1, <1>2 DEF LayoutInv
  <2>6. ASSUME NEW r \in DOMAIN (batch') \ DOMAIN (worker')
        PROVE  \E h \in Nat :
                /\ batch'[r].start = Span(h) /\ h <= Len(request'[r].table)
                /\ h <= Hittable(MaxLen - 1)
                /\ \A i \in 1 .. h : cachedAt'[request'[r].table[i]] = i
    <3>1. r \in DOMAIN batch /\ r \notin DOMAIN worker /\ r \in Running' /\ r \in Req
      BY <1>2
    <3>2. PICK h \in Nat :
            /\ batch[r].start = Span(h) /\ h <= Len(request[r].table)
            /\ h <= Hittable(MaxLen - 1)
            /\ \A i \in 1 .. h : cachedAt[request[r].table[i]] = i
      BY <1>1, <3>1 DEF LayoutInv
    <3>3. \A i \in 1 .. h : i \in DOMAIN request[r].table
      BY <1>1, <3>1, <3>2, TableTypes
    <3>4. \A i \in 1 .. h : cachedAt'[request[r].table[i]] = i
      BY <1>4, <3>1, <3>2, <3>3
    <3> QED
      BY <1>2, <3>1, <3>2, <3>4
  <2> QED
    BY <2>1, <2>2, <2>3, <2>4, <2>5, <2>6 DEF LayoutInv, Span, Hittable
<1>6. SharedInv'
  <2>1. ASSUME NEW r \in Running', NEW x \in Running', r # x,
               NEW i \in DOMAIN request'[r].table, NEW j \in DOMAIN request'[x].table,
               request'[r].table[i] = request'[x].table[j]
        PROVE  /\ i = j /\ cachedAt'[request'[r].table[i]] = i
               /\ Filled(r, i)' \/ (Filled(x, i)' /\ x \notin DOMAIN (worker'))
    <3>1. /\ r \in Running /\ x \in Running
          /\ request'[r].table = request[r].table /\ request'[x].table = request[x].table
      BY <1>2
    <3>2. /\ i = j /\ cachedAt[request[r].table[i]] = i
          /\ Filled(r, i) \/ (Filled(x, i) /\ x \notin DOMAIN worker)
      BY <1>1, <2>1, <3>1 DEF SharedInv
    <3>3. cachedAt'[request[r].table[i]] = i
      BY <1>4, <3>1, <3>2
    <3> QED
      BY <1>2, <1>3, <3>1, <3>2, <3>3
  <2>2. \A r, x \in DOMAIN (worker') : r # x =>
          \A i \in DOMAIN worker'[r].ids, j \in DOMAIN worker'[x].ids :
             worker'[r].ids[i] = worker'[x].ids[j] => i = j /\ Span(i) <= worker'[r].rows
    BY <1>1, <1>2 DEF SharedInv
  <2> QED
    BY <2>1, <2>2 DEF SharedInv, Span
<1>7. ASSUME NEW b \in Block, cachedAt'[b] > 0
      PROVE  Arriving(b)' \/ Stable(b)'
  <2>1. CASE cachedAt'[b] = cachedAt[b]
    <3>1. Arriving(b) \/ Stable(b)
      BY <1>1, <1>7, <2>1 DEF StableInv
    <3>2. CASE Arriving(b)
      <4>1. PICK r \in DOMAIN batch : \E i \in DOMAIN request[r].table :
              /\ request[r].table[i] = b
              /\ Span(i) <= batch[r].start + batch[r].sched /\ Span(i) <= request[r].total
              /\ r \in DOMAIN worker \/ batch[r].start < Span(i)
        BY <3>2 DEF Arriving
      <4>2. request'[r].table = request[r].table /\ request'[r].total = request[r].total
        BY <1>2 DEF Shrinks
      <4>3. Arriving(b)'
        BY <1>2, <4>1, <4>2 DEF Arriving, Span
      <4> QED
        BY <4>3
    <3>3. CASE Stable(b)
      <4>1. \A r \in Running' : \A i \in DOMAIN request'[r].table :
              request'[r].table[i] = b => i = cachedAt'[b] /\ Filled(r, i)'
        BY <1>2, <1>3, <2>1, <3>3 DEF Stable
      <4>2. \A r \in DOMAIN (worker') : \A i \in DOMAIN worker'[r].ids :
              worker'[r].ids[i] = b => i = cachedAt'[b] /\ Span(i) <= worker'[r].rows
        BY <1>2, <2>1, <3>3 DEF Stable
      <4>3. Stable(b)'
        BY <4>1, <4>2 DEF Stable, Span
      <4> QED
        BY <4>3
    <3> QED
      BY <3>1, <3>2, <3>3
  <2>2. CASE cachedAt'[b] # cachedAt[b]
    <3>1. PICK r, i : CachesFor(r, i, b)
      BY <2>2 DEF Shrinks
    <3>2. DOMAIN batch = {}
      BY <2>2 DEF Shrinks
    <3>3. /\ r \in Running /\ r \in DOMAIN worker /\ i \in DOMAIN request[r].table
          /\ request[r].table[i] = b /\ cachedAt'[b] = i /\ Span(i) <= worker[r].rows
          /\ worker[r].ids = request[r].table /\ r \in Req
      BY <1>1, <1>2, <3>1, <3>2 DEF CachesFor, LayoutInv
    <3>4. ASSUME NEW x \in Running, NEW j \in DOMAIN request[x].table, request[x].table[j] = b
          PROVE  j = i /\ Filled(x, j)
      <4>1. CASE x = r
        BY <1>1, <3>3, <3>4, <4>1 DEF LayoutInv, Filled, Rows
      <4>2. CASE x # r
        BY <1>1, <3>3, <3>4, <4>2 DEF SharedInv
      <4> QED
        BY <4>1, <4>2
    <3>5. ASSUME NEW x \in DOMAIN worker, NEW j \in DOMAIN worker[x].ids, worker[x].ids[j] = b
          PROVE  j = i /\ Span(j) <= worker[x].rows
      <4>1. CASE x = r
        BY <1>1, <3>3, <3>5, <4>1 DEF LayoutInv
      <4>2. CASE x # r
        <5>1. i \in DOMAIN worker[r].ids /\ worker[r].ids[i] = b
          BY <3>3
        <5> QED
          BY <1>1, <3>3, <3>5, <4>2, <5>1 DEF SharedInv
      <4> QED
        BY <4>1, <4>2
    <3>6. Stable(b)'
      <4>1. \A x \in Running' : \A j \in DOMAIN request'[x].table :
              request'[x].table[j] = b => j = cachedAt'[b] /\ Filled(x, j)'
        BY <1>2, <1>3, <3>3, <3>4
      <4>2. \A x \in DOMAIN (worker') : \A j \in DOMAIN worker'[x].ids :
              worker'[x].ids[j] = b => j = cachedAt'[b] /\ Span(j) <= worker'[x].rows
        BY <1>2, <3>3, <3>5
      <4> QED
        BY <4>1, <4>2 DEF Stable, Span
    <3> QED
      BY <3>6
  <2> QED
    BY <2>1, <2>2
<1> QED
  BY <1>5, <1>6, <1>7 DEF Sharing, StableInv

LEMMA PreemptSharing ==
    ASSUME IInv, IInv', Sharing, Preempt
    PROVE  Sharing'
<1>1. PICK v : Gives(v)
  BY PreemptGives
<1>2. /\ v \in Req /\ v \notin DOMAIN batch /\ Running' = Running \ {v}
      /\ \A x \in Req : x # v => request'[x] = request[x]
      /\ request'[v].table = << >>
      /\ batch' = batch /\ worker' = worker /\ cachedAt' = cachedAt
  BY <1>1 DEF Gives
<1>3. DOMAIN batch \subseteq Running /\ Running \subseteq Req
  BY RunningTypes DEF IInv, QueuesInv
<1>4. \A x \in Req \ Running' : request'[x].table = << >>
  BY <1>2 DEF Sharing, LayoutInv
<1>5. Shrinks
  BY <1>2, <1>3, <1>4 DEF Shrinks
<1> QED
  BY <1>5, ShrinksSharing

LEMMA AbortSharing ==
    ASSUME IInv, IInv', Sharing, NEW r \in Req, Abort(r)
    PROVE  Sharing'
<1>1. /\ Running' = Running \ {r} /\ DOMAIN batch = {}
      /\ request'[r] = Idle /\ \A x \in Req : x # r => request'[x] = request[x]
      /\ batch' = batch /\ worker' = worker /\ cachedAt' = cachedAt
  BY AbortLeaves
<1>2. Running \subseteq Req
  BY RunningTypes DEF IInv
<1>3. \A x \in Req \ Running' : request'[x].table = << >>
  BY <1>1 DEF Sharing, LayoutInv, Idle
<1>4. Shrinks
  BY <1>1, <1>2, <1>3 DEF Shrinks
<1> QED
  BY <1>4, ShrinksSharing

\* A step that touches neither tables nor what is cached.
LEMMA SameSharing ==
    ASSUME IInv, IInv', Sharing,
           UNCHANGED <<request, running, batch, worker, cachedAt>>
    PROVE  Sharing'
<1>1. Running' = Running /\ DOMAIN batch \subseteq Running
  BY DEF Running, IInv, QueuesInv
<1>2. \A x \in Req \ Running : request[x].table = << >>
  BY DEF Sharing, LayoutInv
<1>3. Shrinks
  BY <1>1, <1>2 DEF Shrinks
<1> QED
  BY <1>3, ShrinksSharing

\* A block that Complete caches holds tokens that were sampled and kept, and
\* all its rows are there.
LEMMA CompleteCaches ==
    ASSUME IInv, ExactInv, Complete, NEW b \in Block, cachedAt'[b] # cachedAt[b]
    PROVE  \E r, i, kept :
              /\ CachesFor(r, i, b)
              /\ async /\ 1 \in DOMAIN inflight /\ r \in DOMAIN inflight[1]
              /\ inflight[1][r].sampled
              /\ kept \in Nat \ {0} /\ kept + Rejected(1, r) <= Sampled(1, r)
              /\ request[r].total + kept <= Limit
              /\ Span(i) <= request[r].total + kept - 1
<1> DEFINE e     == Head(inflight)
           known == DOMAIN e \cap Unfinished
<1>1. phase = "idle" /\ inflight # << >>
  BY DEF Complete, MayComplete
<1>2. TypesInv /\ QueuesInv /\ FlightInv /\ RequestInv
  BY DEF IInv
<1>3. PICK o \in [known -> [kept : 0 .. Lookahead + 1, stops : BOOLEAN]] :
        LET hashed == UNION {NewlyCached(request[r], e[r], o[r]) : r \in known \cap Running}
        IN  /\ \A r \in known : o[r] \in Outcomes(request[r], e[r])
            /\ cachedAt' = [x \in Block |->
                  IF \E i \in 1 .. Cardinality(Block) : <<x, i>> \in hashed
                  THEN CHOOSE i \in 1 .. Cardinality(Block) : <<x, i>> \in hashed
                  ELSE cachedAt[x]]
  BY DEF Complete
<1>4. e = inflight[1] /\ 1 \in DOMAIN inflight
  BY <1>1, <1>2 DEF TypesInv
<1> HIDE DEF e
<1> DEFINE hashed == UNION {NewlyCached(request[r], e[r], o[r]) : r \in known \cap Running}
<1>5. /\ \A r \in known : o[r] \in Outcomes(request[r], e[r])
      /\ cachedAt'[b] = IF \E i \in 1 .. Cardinality(Block) : <<b, i>> \in hashed
                        THEN CHOOSE i \in 1 .. Cardinality(Block) : <<b, i>> \in hashed
                        ELSE cachedAt[b]
  BY <1>3
<1>6. <<b, cachedAt'[b]>> \in hashed
  <2> HIDE DEF hashed
  <2> QED
    BY <1>5
<1>7. PICK r \in known \cap Running : <<b, cachedAt'[b]>> \in NewlyCached(request[r], e[r], o[r])
  BY <1>6
<1> DEFINE i == cachedAt'[b]  q == request[r]  kept == o[r].kept
           tokens == q.computed - e[r].rej - Awaited(q, e[r], o[r])
<1>8. /\ async /\ e[r].sampled
      /\ \E k \in 1 .. Lesser(tokens \div BlockTokens, Len(q.table)) : <<b, i>> = <<q.table[k], k>>
  BY <1>7 DEF NewlyCached
<1>9. PICK k \in 1 .. Lesser(tokens \div BlockTokens, Len(q.table)) : <<b, i>> = <<q.table[k], k>>
  BY <1>8
<1>10. k = i /\ q.table[i] = b
  BY <1>9
<1>11. /\ r \in Running /\ r \in DOMAIN worker /\ r \in Req /\ r \in Unfinished
       /\ r \in DOMAIN e
  <2>1. DOMAIN batch = {}
    BY <1>1, <1>2, NoPartial DEF QueuesInv
  <2> QED
    BY <1>2, <2>1, IdleRunning, RunningTypes
<1>12. /\ kept \in Nat \ {0} /\ kept <= 1 + e[r].drafts - e[r].rej
       /\ q.total + kept <= Limit
  <2>1. o[r] \in Outcomes(q, e[r]) /\ kept \in 0 .. Lookahead + 1
    BY <1>5, <1>7
  <2>2. kept \in 1 .. 1 + e[r].drafts - e[r].rej /\ q.total + kept <= Limit
    BY <1>8, <2>1 DEF Outcomes
  <2> QED
    BY <2>1, <2>2
<1>13. /\ e[r].drafts \in Nat /\ e[r].rej \in Nat /\ e[r].rej <= e[r].drafts
       /\ Sampled(1, r) = 1 + e[r].drafts /\ Rejected(1, r) = e[r].rej
  BY <1>2, <1>4, <1>8, <1>11, FlightTypes, ServingAssumption
     DEF FlightInv, Sampled, Rejected
<1>14. kept + Rejected(1, r) <= Sampled(1, r)
  <2> HIDE DEF kept
  <2> QED
    BY <1>12, <1>13
<1> DEFINE s1 == Sampled(1, r)  s2 == Sampled(2, r)
           j1 == Rejected(1, r)  j2 == Rejected(2, r)  rows == worker[r].rows
           c == q.computed  t == q.total
<1>15. /\ c \in Nat /\ t \in Nat /\ rows \in Nat /\ s1 \in Nat /\ s2 \in Nat
       /\ j1 \in Nat /\ j2 \in Nat /\ j2 <= s2 /\ c = rows + (j1 + j2)
       /\ Awaiting(r) = s1 + s2
  BY <1>11, RunningCounts
<1>16. c + 1 = t + (s1 + s2) /\ s1 + s2 > 0
  <2>1. s1 > 0
    <3> HIDE DEF s2, kept
    <3> QED
      BY <1>13
  <2>2. Awaiting(r) > 0
    <3> HIDE DEF s1, s2
    <3> QED
      BY <1>15, <2>1
  <2>3. c + 1 = t + Awaiting(r)
    BY <1>11, <2>2 DEF ExactInv
  <2> QED
    BY <1>15, <2>2, <2>3
<1>17. tokens = c - j1 - ((s1 + s2) - j1 - kept)
  <2>1. q.placeholders = s1 + s2
    BY <1>2, <1>8, <1>11, <1>15 DEF RequestInv
  <2>2. Awaited(q, e[r], o[r]) = (s1 + s2) - e[r].rej - kept
    <3>1. q.placeholders > 0
      BY <1>16, <2>1
    <3> HIDE DEF s1, s2, q
    <3> QED
      BY <1>8, <2>1, <3>1 DEF Awaited
  <2>3. j1 = e[r].rej
    BY <1>13
  <2> QED
    BY <2>2, <2>3
<1>18. tokens = t + kept - 1 /\ tokens <= rows
  <2> HIDE DEF tokens, s1, s2, j1, j2, c, t, rows, kept
  <2>1. kept + j1 <= s1 /\ kept \in Nat
    BY <1>12, <1>14 DEF s1, j1
  <2>2. /\ c \in Nat /\ t \in Nat /\ rows \in Nat /\ s1 \in Nat /\ s2 \in Nat
        /\ j1 \in Nat /\ j2 \in Nat /\ j2 <= s2 /\ c = rows + (j1 + j2)
    BY <1>15
  <2>3. c + 1 = t + (s1 + s2)
    BY <1>16
  <2> DEFINE s == s1 + s2
  <2>4. s \in Nat /\ s1 + j2 <= s /\ c + 1 = t + s /\ tokens = c - j1 - (s - j1 - kept)
    BY <1>17, <2>2, <2>3
  <2> HIDE DEF s
  <2>5. tokens = c + kept - s
    BY <2>1, <2>2, <2>4
  <2>6. tokens = t + kept - 1
    BY <2>1, <2>2, <2>4, <2>5
  <2>7. tokens <= rows
    BY <2>1, <2>2, <2>4, <2>5
  <2> QED
    BY <2>6, <2>7
<1>19. tokens \in Nat /\ Len(q.table) \in Nat /\ DOMAIN q.table = 1 .. Len(q.table)
  <2>1. tokens \in Nat
    <3> HIDE DEF tokens, kept, t
    <3> QED
      BY <1>12, <1>15, <1>18
  <2> QED
    BY <1>2, <1>11, <2>1, TableTypes
<1>20. i \in DOMAIN q.table /\ Span(i) <= tokens
  <2> HIDE DEF tokens, i, q
  <2>1. tokens \div BlockTokens \in Nat
    BY <1>19, SpanDiv
  <2>2. i \in Nat /\ i <= tokens \div BlockTokens /\ i >= 1 /\ i <= Len(q.table)
    <3> DEFINE z == tokens \div BlockTokens
    <3>1. z \in Nat /\ k \in 1 .. Lesser(z, Len(q.table))
      BY <1>9, <2>1
    <3> HIDE DEF z
    <3>2. k \in Nat /\ k <= z /\ k >= 1 /\ k <= Len(q.table)
      BY <1>19, <3>1 DEF Lesser
    <3> QED
      BY <1>10, <3>2 DEF z
  <2>3. Span(i) <= tokens
    BY <1>19, <2>2, SpanDiv
  <2> QED
    BY <1>19, <2>2, <2>3
<1>21. Span(i) \in Nat
  BY <1>19, <1>20, SpanType
<1>22. Span(i) <= rows
  <2> HIDE DEF tokens, rows, i
  <2> QED
    BY <1>15, <1>18, <1>19, <1>20, <1>21
<1>23. CachesFor(r, i, b)
  BY <1>10, <1>11, <1>20, <1>22 DEF CachesFor
<1>24. Span(i) <= t + kept - 1
  BY <1>18, <1>20
<1> QED
  BY <1>4, <1>8, <1>11, <1>12, <1>14, <1>23, <1>24

LEMMA CompleteSharing ==
    ASSUME IInv, IInv', ExactInv, Sharing, Complete
    PROVE  Sharing'
<1>1. PICK known, stopped : Completes(known, stopped)
  BY CompleteLeaves
<1>2. /\ Running' = Running \ stopped /\ DOMAIN batch = {} /\ batch' = batch
      /\ worker' = worker
      /\ \A x \in stopped : request'[x] = Idle
      /\ \A x \in Req \ known : request'[x] = request[x]
      /\ \A x \in known \ stopped : request'[x].table = request[x].table
  BY <1>1 DEF Completes
<1>3. Running \subseteq Req
  BY RunningTypes DEF IInv
<1>4. \A x \in Req : request'[x].table = IF x \in stopped THEN << >> ELSE request[x].table
  BY <1>2 DEF Idle
<1>5. \A x \in Req \ Running' : request'[x].table = << >>
  BY <1>2, <1>4 DEF Sharing, LayoutInv
<1>6. \A b \in Block : cachedAt'[b] = cachedAt[b] \/ \E r, i : CachesFor(r, i, b)
  BY CompleteCaches
<1>7. Shrinks
  BY <1>2, <1>3, <1>4, <1>5, <1>6 DEF Shrinks
<1> QED
  BY <1>7, ShrinksSharing

\* After a batch has been sent the worker has the tables of all that run, and
\* of each no fewer rows than before.
LEMMA DispatchIds ==
    ASSUME IInv, GrantInv, LayoutInv, NEW b, Dispatches(b), NEW r \in Running
    PROVE  /\ r \in Req /\ r \in DOMAIN (worker') /\ Running' = Running
           /\ worker'[r].ids = request[r].table /\ request'[r].table = request[r].table
           /\ Rows(r) \in Nat /\ worker'[r].rows \in Nat /\ Rows(r) <= worker'[r].rows
           /\ worker'[r].rows <= Span(Len(request[r].table))
<1>1. TypesInv /\ CountInv /\ FlightInv
  BY DEF IInv
<1>2. r \in Req /\ r \in DOMAIN (worker') /\ Running' = Running
  BY <1>1, RunningTypes DEF Dispatches
<1>3. CASE r \in DOMAIN batch
  <2> DEFINE u == Updated[r].rows  n == batch[r].sched  j == b[r].rej  c == request[r].computed
             d == batch[r].drafts  m == Span(Len(request[r].table))
  <2>1. /\ u \in Nat /\ u = Rows(r) /\ n \in Nat /\ d \in Nat /\ j \in Nat /\ j <= d
        /\ worker'[r].rows = u + n - j
        /\ worker'[r].ids = request[r].table /\ request'[r].table = request[r].table
        /\ batch[r].start = c /\ c = u + Behind(r) /\ Behind(r) \in Nat
    BY <1>1, <1>3, FlightSlack DEF Dispatches, Rows
  <2>2. d < n /\ c + n <= m
    BY <1>3, <2>1 DEF GrantInv
  <2>3. m \in Nat
    BY <1>1, <1>2, TableTypes, SpanType
  <2> DEFINE h == Behind(r)  rows == worker'[r].rows
  <2>4. rows \in Nat /\ u <= rows /\ rows <= m
    <3>1. /\ u \in Nat /\ n \in Nat /\ d \in Nat /\ j \in Nat /\ j <= d /\ d < n
          /\ h \in Nat /\ c = u + h /\ rows = u + n - j /\ c + n <= m /\ m \in Nat
      BY <2>1, <2>2, <2>3
    <3> HIDE DEF u, n, j, c, d, m, h, rows
    <3> QED
      BY <3>1
  <2> QED
    BY <1>2, <2>1, <2>4
<1>4. CASE r \notin DOMAIN batch
  <2>1. /\ r \in DOMAIN worker /\ worker'[r] = worker[r] /\ request'[r] = request[r]
    BY <1>2, <1>4 DEF Dispatches
  <2>2. worker[r].ids = request[r].table /\ worker[r].rows <= Span(Len(worker[r].ids))
    BY <1>4, <2>1 DEF LayoutInv
  <2>3. worker[r].rows \in Nat /\ Rows(r) = worker[r].rows
    BY <1>1, <2>1, StateTypes DEF Rows
  <2> QED
    BY <1>2, <2>1, <2>2, <2>3
<1> QED
  BY <1>3, <1>4

\* Whatever a granted step reaches of a request's tokens has its rows once the
\* batch has run: what is rejected lies behind those tokens.
LEMMA DispatchRows ==
    ASSUME IInv, ExactInv, GrantInv, NEW b, Dispatches(b), NEW r \in DOMAIN batch,
           NEW n \in Nat, n <= batch[r].start + batch[r].sched, n <= request[r].total
    PROVE  n <= worker'[r].rows
<1>1. TypesInv /\ FlightInv
  BY DEF IInv
<1> DEFINE u == Updated[r].rows  s == batch[r].sched  j == b[r].rej  c == request[r].computed
           d == batch[r].drafts  t == request[r].total  p == request[r].placeholders
           a == Awaiting(r)  h == Behind(r)
<1>2. r \in Running /\ r \in Req
  BY <1>1, RunningTypes DEF Dispatches
<1>3. /\ u \in Nat /\ s \in Nat /\ j \in Nat /\ j <= d /\ d \in Nat
      /\ batch[r].start = c /\ c = u + h /\ worker'[r].rows = u + s - j
  BY DEF Dispatches
<1>4. c \in Nat /\ t \in Nat /\ p \in Nat
  BY <1>1, <1>2, RequestTypes
<1>5. a \in Nat /\ h \in Nat /\ (a > 0 => h < a) /\ (a = 0 => h = 0)
  BY <1>1, FlightSlack
<1>6. (a > 0 => c + 1 = t + a) /\ d < s /\ (d > 0 => c + s = t + p + d)
  BY <1>2, <1>3 DEF ExactInv, GrantInv
<1>7. n <= c + s /\ n <= t
  BY <1>3
<1> HIDE DEF u, s, j, c, d, t, p, a, h
<1>8. CASE a > 0
  BY <1>3, <1>4, <1>5, <1>6, <1>7, <1>8
<1>9. CASE a = 0 /\ d = 0
  BY <1>3, <1>4, <1>5, <1>6, <1>7, <1>9
<1>10. CASE a = 0 /\ d > 0
  BY <1>3, <1>4, <1>5, <1>6, <1>7, <1>10
<1> QED
  BY <1>3, <1>5, <1>8, <1>9, <1>10

\* A shared block has all its rows once the batch has run.
LEMMA DispatchFills ==
    ASSUME IInv, ExactInv, GrantInv, Sharing, NEW b, Dispatches(b),
           NEW r \in Running, NEW x \in Running, r # x,
           NEW i \in DOMAIN request[r].table, NEW j \in DOMAIN request[x].table,
           request[r].table[i] = request[x].table[j]
    PROVE  i = j /\ cachedAt[request[r].table[i]] = i /\ Span(i) <= worker'[r].rows
<1> DEFINE block == request[r].table[i]
<1>1. LayoutInv /\ SharedInv /\ StableInv /\ TypesInv
  BY DEF Sharing, IInv
<1>2. /\ i = j /\ cachedAt[block] = i
      /\ Filled(r, i) \/ (Filled(x, i) /\ x \notin DOMAIN worker)
  BY <1>1 DEF SharedInv
<1>3. /\ r \in Req /\ Rows(r) \in Nat /\ worker'[r].rows \in Nat /\ Rows(r) <= worker'[r].rows
      /\ x \in Req
  BY <1>1, DispatchIds
<1>4. i \in Nat \ {0} /\ block \in Block /\ Span(i) \in Nat
  BY <1>1, <1>3, TableTypes, SpanType
<1>5. CASE Filled(r, i)
  <2>1. Span(i) <= Rows(r)
    BY <1>5 DEF Filled
  <2> QED
    BY <1>2, <1>3, <1>4, <2>1
<1>6. CASE ~Filled(r, i)
  <2>1. ~Stable(block)
    BY <1>6 DEF Stable
  <2>2. Arriving(block)
    BY <1>1, <1>2, <1>4, <2>1 DEF StableInv
  <2>3. PICK y \in DOMAIN batch : \E k \in DOMAIN request[y].table :
            /\ request[y].table[k] = block
            /\ Span(k) <= batch[y].start + batch[y].sched /\ Span(k) <= request[y].total
            /\ y \in DOMAIN worker \/ batch[y].start < Span(k)
    BY <2>2 DEF Arriving
  <2>4. y \in Running /\ y \in Req
    BY <1>1, RunningTypes DEF Dispatches
  <2>5. /\ i \in DOMAIN request[y].table /\ request[y].table[i] = block
        /\ Span(i) <= batch[y].start + batch[y].sched /\ Span(i) <= request[y].total
        /\ y \in DOMAIN worker \/ batch[y].start < Span(i)
    <3>1. PICK k \in DOMAIN request[y].table :
            /\ request[y].table[k] = block
            /\ Span(k) <= batch[y].start + batch[y].sched /\ Span(k) <= request[y].total
            /\ y \in DOMAIN worker \/ batch[y].start < Span(k)
      BY <2>3
    <3>2. k = i
      BY <1>1, <1>2, <1>4, <2>4, <3>1 DEF LayoutInv
    <3> QED
      BY <3>1, <3>2
  <2>6. y \notin DOMAIN worker => ~Filled(y, i)
    <3>1. batch[y].start \in Nat
      BY <1>1, BatchTypes
    <3> QED
      BY <1>4, <2>5, <3>1 DEF Filled, Rows
  <2>7. y = r
    <3>1. ASSUME y # r PROVE FALSE
      <4>1. Filled(r, i) \/ (Filled(y, i) /\ y \notin DOMAIN worker)
        BY <1>1, <2>4, <2>5, <3>1 DEF SharedInv
      <4> QED
        BY <1>6, <2>6, <4>1
    <3> QED
      BY <3>1
  <2>8. Span(i) <= worker'[r].rows
    BY <1>4, <2>3, <2>5, <2>7, DispatchRows
  <2> QED
    BY <1>2, <2>8
<1> QED
  BY <1>5, <1>6

\* So every cached block is stable then.
LEMMA DispatchSettlesCache ==
    ASSUME IInv, ExactInv, GrantInv, Sharing, NEW b, Dispatches(b),
           NEW block \in Block, cachedAt[block] > 0
    PROVE  Stable(block)'
<1>1. LayoutInv /\ SharedInv /\ StableInv /\ TypesInv
  BY DEF Sharing, IInv
<1>2. /\ DOMAIN (worker') = Running /\ Running' = Running /\ cachedAt' = cachedAt
  BY DEF Dispatches
<1>3. ASSUME NEW r \in Running, NEW i \in DOMAIN request[r].table, request[r].table[i] = block
      PROVE  i = cachedAt[block] /\ Span(i) <= worker'[r].rows
  <2>1. /\ r \in Req /\ Rows(r) \in Nat /\ worker'[r].rows \in Nat
        /\ Rows(r) <= worker'[r].rows
    BY <1>1, DispatchIds
  <2>2. i \in Nat \ {0} /\ Span(i) \in Nat
    BY <1>1, <2>1, TableTypes, SpanType
  <2>3. i = cachedAt[block]
    BY <1>1, <1>3, <2>1 DEF LayoutInv
  <2>4. CASE Stable(block)
    <3>1. Span(i) <= Rows(r)
      BY <1>3, <2>4 DEF Stable, Filled
    <3> QED
      BY <2>1, <2>2, <2>3, <3>1
  <2>5. CASE Arriving(block)
    <3>1. PICK y \in DOMAIN batch : \E k \in DOMAIN request[y].table :
            /\ request[y].table[k] = block
            /\ Span(k) <= batch[y].start + batch[y].sched /\ Span(k) <= request[y].total
      BY <2>5 DEF Arriving
    <3>2. PICK k \in DOMAIN request[y].table :
            /\ request[y].table[k] = block
            /\ Span(k) <= batch[y].start + batch[y].sched /\ Span(k) <= request[y].total
      BY <3>1
    <3>3. y \in Running
      BY DEF Dispatches
    <3>4. CASE y = r
      <4>1. k = i
        BY <1>1, <1>3, <2>1, <3>2, <3>4 DEF LayoutInv
      <4> QED
        BY <2>2, <2>3, <3>1, <3>2, <3>4, <4>1, DispatchRows
    <3>5. CASE y # r
      BY <1>3, <2>3, <3>2, <3>3, <3>5, DispatchFills
    <3> QED
      BY <3>4, <3>5
  <2> QED
    BY <1>1, <2>4, <2>5 DEF StableInv
<1>4. \A r \in Running : worker'[r].ids = request[r].table /\ request'[r].table = request[r].table
  BY <1>1, DispatchIds
<1> QED
  BY <1>2, <1>3, <1>4 DEF Stable, Filled, Rows, Span

LEMMA DispatchesSharing ==
    ASSUME IInv, IInv', ExactInv, GrantInv, Sharing, NEW b, Dispatches(b)
    PROVE  Sharing'
<1>1. LayoutInv /\ SharedInv /\ StableInv /\ TypesInv
  BY DEF Sharing, IInv
<1>2. /\ DOMAIN (worker') = Running /\ Running' = Running /\ cachedAt' = cachedAt
      /\ DOMAIN (batch') = {} /\ Running \subseteq Req
  BY DEF Dispatches
<1>3. \A r \in Running : /\ worker'[r].ids = request[r].table
                         /\ request'[r].table = request[r].table
                         /\ worker'[r].rows <= Span(Len(request[r].table))
  BY <1>1, DispatchIds
<1>4. \A r \in Req : request'[r].table = request[r].table
  BY DEF Dispatches
<1>5. LayoutInv'
  <2>1. /\ \A r \in Req : \A i, j \in DOMAIN request'[r].table :
             request'[r].table[i] = request'[r].table[j] => i = j
        /\ \A r \in Req : \A i \in DOMAIN request'[r].table :
             cachedAt'[request'[r].table[i]] \in {0, i}
        /\ \A r \in Req \ Running' : request'[r].table = << >>
    BY <1>1, <1>2, <1>4 DEF LayoutInv
  <2>2. \A r \in DOMAIN (worker') :
        /\ worker'[r].rows <= Span(Len(worker'[r].ids))
        /\ \A i, j \in DOMAIN worker'[r].ids : worker'[r].ids[i] = worker'[r].ids[j] => i = j
    BY <1>1, <1>2, <1>3 DEF LayoutInv
  <2>3. \A r \in Running' \cap DOMAIN (worker') :
        /\ Len(worker'[r].ids) <= Len(request'[r].table)
        /\ \A i \in DOMAIN worker'[r].ids : request'[r].table[i] = worker'[r].ids[i]
        /\ r \notin DOMAIN (batch') => worker'[r].ids = request'[r].table
    <3>1. \A r \in Running : Len(request[r].table) \in Nat
      BY <1>1, <1>2, TableTypes
    <3> QED
      BY <1>2, <1>3, <3>1
  <2> QED
    BY <1>2, <2>1, <2>2, <2>3 DEF LayoutInv, Span
<1>6. ASSUME NEW r \in Running, NEW x \in Running, r # x,
             NEW i \in DOMAIN request[r].table, NEW j \in DOMAIN request[x].table,
             request[r].table[i] = request[x].table[j]
      PROVE  i = j /\ cachedAt[request[r].table[i]] = i /\ Span(i) <= worker'[r].rows
  BY <1>6, DispatchFills
<1>7. SharedInv'
  BY <1>2, <1>3, <1>6 DEF SharedInv, Filled, Rows, Span
<1>8. StableInv'
  BY <1>2, DispatchSettlesCache DEF StableInv
<1> QED
  BY <1>5, <1>7, <1>8 DEF Sharing

LEMMA InitSharing == Init => Sharing
<1> SUFFICES ASSUME Init PROVE Sharing
  OBVIOUS
<1>1. /\ Running = {} /\ DOMAIN batch = {} /\ DOMAIN worker = {}
      /\ \A r \in Req : request[r].table = << >>
      /\ \A b \in Block : cachedAt[b] = 0
  BY NoPartial DEF Init, Running, Range, Idle
<1>2. \A r \in Req : DOMAIN request[r].table = {}
  BY <1>1
<1> QED
  BY <1>1, <1>2 DEF Sharing, LayoutInv, SharedInv, StableInv

LEMMA NextSharing ==
    ASSUME IInv, IInv', ExactInv, GrantInv, Sharing, [Next]_vars
    PROVE  Sharing'
<1>1. CASE StartStep
  <2>1. UNCHANGED <<request, running, batch, worker, cachedAt>>
    BY <1>1 DEF StartStep, queues, runner
  <2> QED
    BY <2>1, SameSharing
<1>2. CASE ScheduleRunning
  BY <1>2, ScheduleRunningSharing
<1>3. CASE Preempt
  BY <1>3, PreemptSharing
<1>4. CASE Resume
  BY <1>4, ResumeAdmits, AdmitsSharing
<1>5. CASE Dispatch
  BY <1>5, DispatchSends, DispatchesSharing
<1>6. CASE Settle
  <2>1. UNCHANGED <<request, running, batch, worker, cachedAt>>
    BY <1>6 DEF Settle, scheduler, queues
  <2> QED
    BY <2>1, SameSharing
<1>7. CASE Complete
  BY <1>7, CompleteSharing
<1>8. ASSUME NEW r \in Req, AdmitNew(r)
      PROVE  Sharing'
  BY <1>8, AdmitNewAdmits, AdmitsSharing
<1>9. ASSUME NEW r \in Req, Abort(r)
      PROVE  Sharing'
  BY <1>9, AbortSharing
<1>10. CASE UNCHANGED vars
  <2>1. UNCHANGED <<request, running, batch, worker, cachedAt>>
    BY <1>10 DEF vars, scheduler, queues, runner
  <2> QED
    BY <2>1, SameSharing
<1> QED
  BY <1>1, <1>2, <1>3, <1>4, <1>5, <1>6, <1>7, <1>8, <1>9, <1>10 DEF Next

\* Two requests share a block only at the position it is cached for, and once
\* no step is being put together each of them has all its rows: a block that
\* is still being written has one owner.
THEOREM SharingTheorem == Spec => []Sharing
<1>1. IInv /\ [Next]_vars => IInv'
  BY NextInv
<1>2. IInv /\ IInv' /\ (ExactInv /\ GrantInv) /\ Sharing /\ [Next]_vars => Sharing'
  BY NextSharing
<1> QED
  BY <1>1, <1>2, AlwaysIInv, AheadTheorem, InitSharing, PTL DEF Spec

-----------------------------------------------------------------------------
(* What is open.  The counts that are unsettled are those of the last batch  *)
(* in flight; the blocks pending for them are where the tracker believes     *)
(* them to be; a correction that has not been published is of a request of   *)
(* that batch.                                                               *)

PendingInv ==
    /\ \A r \in Req : \A b \in DOMAIN pendingBlocks[r] :
        /\ pendingBlocks[r][b] + 1 \in DOMAIN worker[r].ids
        /\ worker[r].ids[pendingBlocks[r][b] + 1] = b
    /\ \A r \in Req : DOMAIN pendingBlocks[r] = {} => DOMAIN epochBlocks[r] = {}
    /\ \A r \in Req : DOMAIN resolvedBlocks[r] # {} =>
        r \notin DOMAIN unsettled /\ (Len(inflight) = 2 => r \in DOMAIN inflight[2])
    /\ unsettled # NoBatch =>
        inflight # << >> /\ DOMAIN unsettled = DOMAIN inflight[Len(inflight)]

\* The blocks an update opens an epoch for, each with its place.
LEMMA UpdatedPending ==
    ASSUME NEW removed, NEW scheduled, Update(removed, scheduled),
           NEW r \in Req, r \in DOMAIN scheduled, r \notin removed,
           NEW e, e = scheduled[r], Sound(e)
    PROVE  \/ /\ DOMAIN pendingBlocks'[r] # {}
              /\ \A b \in DOMAIN pendingBlocks'[r] :
                    /\ pendingBlocks'[r][b] \in Touched(e) /\ pendingBlocks'[r][b] \in Nat
                    /\ pendingBlocks'[r][b] + 1 \in DOMAIN e.table
                    /\ e.table[pendingBlocks'[r][b] + 1] = b
              /\ \A k \in Touched(e) : e.table[k + 1] \in DOMAIN pendingBlocks'[r]
           \/ /\ pendingBlocks'[r] = pendingBlocks[r] /\ epochBlocks'[r] = epochBlocks[r]
              /\ e.rollback > 0 => Touched(e) = {}
<1> DEFINE touched == [q \in DOMAIN scheduled |-> TouchedFills(scheduled[q])]
           opened  == {q \in DOMAIN scheduled :
                          scheduled[q].rollback > 0 /\ Touched(scheduled[q]) # {}}
<1>1. /\ pendingBlocks' = [q \in Req |->
                IF q \in opened
                THEN [b \in DOMAIN touched[q] |->
                        CHOOSE k \in Touched(scheduled[q]) : scheduled[q].table[k + 1] = b]
                ELSE IF q \in removed THEN NoBlocks ELSE pendingBlocks[q]]
      /\ r \notin opened => epochBlocks'[r] = epochBlocks[r]
  BY DEF Update
<1>2. r \in opened <=> e.rollback > 0 /\ Touched(e) # {}
  OBVIOUS
<1>3. touched[r] = TouchedFills(e)
  OBVIOUS
<1> HIDE DEF opened, touched
<1>4. CASE r \notin opened
  BY <1>1, <1>2, <1>4
<1>5. CASE r \in opened
  <2>1. DOMAIN TouchedFills(e) = {e.table[k + 1] : k \in Touched(e)}
    BY DEF TouchedFills, FillsOf
  <2>2. /\ DOMAIN pendingBlocks'[r] = DOMAIN TouchedFills(e)
        /\ \A b \in DOMAIN TouchedFills(e) :
              pendingBlocks'[r][b] = CHOOSE k \in Touched(e) : e.table[k + 1] = b
    BY <1>1, <1>3, <1>5
  <2>3. Touched(e) \in SUBSET Nat /\ \A k \in Touched(e) : k + 1 \in 1 .. Len(e.table)
    BY TouchedBound
  <2>4. DOMAIN e.table = 1 .. Len(e.table)
    BY DEF Sound
  <2>5. \A b \in DOMAIN TouchedFills(e) :
          /\ pendingBlocks'[r][b] \in Touched(e)
          /\ e.table[pendingBlocks'[r][b] + 1] = b
    BY <2>1, <2>2
  <2>6. DOMAIN TouchedFills(e) # {}
    BY <1>2, <1>5, <2>1
  <2> QED
    BY <2>1, <2>2, <2>3, <2>4, <2>5, <2>6
<1> QED
  BY <1>4, <1>5

\* What becomes of the rest of the worker's state.
LEMMA DispatchOpens ==
    ASSUME IInv, Dispatch, NEW b, Dispatches(b)
    PROVE  /\ Len(inflight') = Len(inflight) + 1 /\ inflight'[Len(inflight')] = b
           /\ inflight' # << >> /\ Len(inflight) \in Nat /\ Len(inflight) < Depth
           /\ DOMAIN inflight = 1 .. Len(inflight) /\ DOMAIN (inflight') = 1 .. Len(inflight')
           /\ \A i \in DOMAIN inflight : inflight'[i] = inflight[i]
           /\ Update(Removed, [r \in DOMAIN batch |-> Entry(r, request[r].table)])
           /\ batch = NoBatch =>
                /\ b = NoBatch /\ DOMAIN (unsettled') = {} /\ unsettled' = NoBatch
                /\ needed' = needed /\ full' = full /\ lost' = lost
           /\ batch # NoBatch =>
                /\ DOMAIN (unsettled') = DOMAIN batch
                /\ \A r \in DOMAIN batch :
                      unsettled'[r] = batch[r].start + batch[r].sched - b[r].rej
                /\ needed' = DOMAIN BlockFills'
                /\ full' = Published(BlockFills') \ (needed \ DOMAIN BlockFills')
                /\ lost' = lost \cup (((needed \ DOMAIN BlockFills') \ Published(BlockFills'))
                                        \cap Readable(Updated))
<1>1. inflight \in Seq(Partial(Req, Outcome)) /\ Len(inflight) < Depth
  BY DEF IInv, TypesInv, FlightInv, Dispatches
<1>2. b \in Partial(Req, Outcome) /\ inflight' = Append(inflight, b) /\ unsettled = NoBatch
      /\ DOMAIN b = DOMAIN batch
  BY DEF Dispatches
<1>3. /\ Len(inflight') = Len(inflight) + 1 /\ inflight'[Len(inflight')] = b
      /\ inflight' # << >> /\ Len(inflight) \in Nat
      /\ DOMAIN inflight = 1 .. Len(inflight) /\ DOMAIN (inflight') = 1 .. Len(inflight')
      /\ \A i \in DOMAIN inflight : inflight'[i] = inflight[i]
  BY <1>1, <1>2
<1>4. Update(Removed, [r \in DOMAIN batch |-> Entry(r, request[r].table)])
  BY DEF Dispatch
<1>5. CASE batch = NoBatch
  <2>1. /\ inflight' = Append(inflight, NoBatch) /\ unsettled' = unsettled
        /\ needed' = needed /\ full' = full /\ lost' = lost
    BY <1>5 DEF Dispatch, ReturnEmpty
  <2>2. NoBatch \in Partial(Req, Outcome) /\ DOMAIN NoBatch = {}
    BY NoPartial
  <2> HIDE DEF NoBatch
  <2>3. inflight'[Len(inflight')] = NoBatch
    BY <1>1, <1>3, <2>1, <2>2
  <2> QED
    BY <1>1, <1>2, <1>3, <1>4, <1>5, <2>1, <2>2, <2>3
<1>6. CASE batch # NoBatch
  <2>1. PrepareAndForward(Updated, BlockFills')
    BY <1>6 DEF Dispatch
  <2>2. PICK rej \in [DOMAIN batch -> 0 .. Lookahead] :
            /\ unsettled' = [r \in DOMAIN batch |->
                  batch[r].start + batch[r].sched - rej[r]]
            /\ inflight' = Append(inflight, [r \in DOMAIN batch |->
                  [drafts |-> batch[r].drafts, rej |-> rej[r],
                   sampled |-> Advanced(r).decoding]])
    BY <2>1 DEF PrepareAndForward
  <2> DEFINE f == [r \in DOMAIN batch |->
                    [drafts |-> batch[r].drafts, rej |-> rej[r],
                     sampled |-> Advanced(r).decoding]]
  <2>3. /\ inflight' = Append(inflight, f)
        /\ \A r \in DOMAIN batch : f[r].rej = rej[r]
    BY <2>2
  <2> HIDE DEF f
  <2>4. f = b
    <3>1. Append(inflight, f)[Len(inflight) + 1] = f /\ Append(inflight, b)[Len(inflight) + 1] = b
      BY <1>1
    <3> QED
      BY <1>2, <2>3, <3>1
  <2>5. /\ DOMAIN (unsettled') = DOMAIN batch
        /\ \A r \in DOMAIN batch :
              unsettled'[r] = batch[r].start + batch[r].sched - b[r].rej
    BY <2>2, <2>3, <2>4
  <2>6. /\ needed' = DOMAIN BlockFills'
        /\ full' = Published(BlockFills') \ (needed \ DOMAIN BlockFills')
        /\ lost' = lost \cup (((needed \ DOMAIN BlockFills') \ Published(BlockFills'))
                                        \cap Readable(Updated))
    BY <2>1 DEF PrepareAndForward
  <2> QED
    BY <1>1, <1>3, <1>4, <1>6, <2>5, <2>6
<1> QED
  BY <1>5, <1>6

\* Nothing is pending when a batch is sent.
LEMMA DispatchSettled ==
    ASSUME EpochsSettle, Dispatch, NEW r \in Req
    PROVE  DOMAIN pendingBlocks[r] = {}
<1>1. unsettled = NoBatch /\ DOMAIN NoBatch = {}
  BY NoPartial DEF Dispatch, MayDispatch
<1> QED
  BY <1>1 DEF EpochsSettle

LEMMA DispatchPending ==
    ASSUME IInv, EpochsSettle, PendingInv, Dispatch, NEW b, Dispatches(b)
    PROVE  PendingInv'
<1> DEFINE scheduled == [r \in DOMAIN batch |-> Entry(r, request[r].table)]
<1>1. /\ Update(Removed, scheduled) /\ inflight'[Len(inflight')] = b
      /\ inflight' # << >>
      /\ batch = NoBatch => unsettled' = NoBatch
      /\ batch # NoBatch => DOMAIN (unsettled') = DOMAIN batch
  BY DispatchOpens
<1>2. TypesInv /\ QueuesInv /\ RequestInv /\ BatchInv /\ phase = "scheduling"
  BY DEF IInv, Dispatches
<1>3. \A r \in Req : DOMAIN pendingBlocks[r] = {} /\ DOMAIN epochBlocks[r] = {}
  BY DispatchSettled DEF PendingInv
<1>4. ASSUME NEW r \in Req
      PROVE  /\ \A x \in DOMAIN pendingBlocks'[r] :
                  /\ pendingBlocks'[r][x] + 1 \in DOMAIN worker'[r].ids
                  /\ worker'[r].ids[pendingBlocks'[r][x] + 1] = x
             /\ DOMAIN pendingBlocks'[r] = {} => DOMAIN epochBlocks'[r] = {}
             /\ resolvedBlocks'[r] = NoBlocks
  <2>1. CASE r \in DOMAIN batch
    <3> DEFINE e == scheduled[r]
    <3>1. r \in DOMAIN scheduled /\ e = Entry(r, request[r].table)
      BY <2>1
    <3> HIDE DEF scheduled
    <3>2. /\ Sound(e) /\ e.table = request[r].table /\ r \notin Removed
      BY <1>2, <2>1, <3>1, BatchEntry, AdvancedCounts
    <3>3. worker'[r].ids = request[r].table
      BY <2>1 DEF Dispatches
    <3>4. \/ /\ DOMAIN pendingBlocks'[r] # {}
             /\ \A x \in DOMAIN pendingBlocks'[r] :
                  /\ pendingBlocks'[r][x] + 1 \in DOMAIN e.table
                  /\ e.table[pendingBlocks'[r][x] + 1] = x
          \/ pendingBlocks'[r] = pendingBlocks[r] /\ epochBlocks'[r] = epochBlocks[r]
      BY <1>1, <3>1, <3>2, UpdatedPending
    <3>5. resolvedBlocks'[r] = NoBlocks
      BY <1>1 DEF Update, Nothing
    <3> QED
      BY <1>3, <3>2, <3>3, <3>4, <3>5
  <2>2. CASE r \notin DOMAIN batch
    <3>1. r \notin DOMAIN scheduled
      BY <2>2
    <3> HIDE DEF scheduled
    <3>2. /\ epochBlocks'[r] = IF r \in Removed THEN NoBlocks ELSE epochBlocks[r]
          /\ pendingBlocks'[r] = IF r \in Removed THEN NoBlocks ELSE pendingBlocks[r]
          /\ resolvedBlocks'[r] = NoBlocks
      BY <1>1, <3>1, UpdatedOthers
    <3>3. DOMAIN NoBlocks = {}
      BY NoPlacings
    <3> QED
      BY <1>3, <3>2, <3>3
  <2> QED
    BY <2>1, <2>2
<1>5. DOMAIN NoBlocks = {}
  BY NoPlacings
<1>6. unsettled' # NoBatch => DOMAIN (unsettled') = DOMAIN b
  BY <1>1 DEF Dispatches
<1> QED
  BY <1>1, <1>4, <1>5, <1>6 DEF PendingInv

LEMMA SettlePending ==
    ASSUME IInv, EpochsSettle, PendingInv, Settle
    PROVE  PendingInv'
<1> DEFINE tables == [r \in DOMAIN worker |-> worker[r].ids]
<1>1. /\ ResolveAsync(unsettled, tables) /\ unsettled' = NoBatch /\ unsettled # NoBatch
      /\ inflight' = inflight /\ worker' = worker
  BY DEF Settle
<1> HIDE DEF tables
<1>2. DOMAIN NoBatch = {} /\ DOMAIN NoBlocks = {}
  BY NoPartial, NoPlacings
<1>3. ASSUME NEW r \in Req
      PROVE  /\ DOMAIN pendingBlocks'[r] = {} /\ DOMAIN epochBlocks'[r] = {}
             /\ DOMAIN resolvedBlocks'[r] # {} =>
                    r \in DOMAIN unsettled \/ resolvedBlocks'[r] = resolvedBlocks[r]
  <2>1. /\ pendingBlocks'[r] = IF r \in DOMAIN unsettled THEN NoBlocks ELSE pendingBlocks[r]
        /\ epochBlocks'[r] = IF r \in DOMAIN unsettled THEN NoBlocks ELSE epochBlocks[r]
        /\ resolvedBlocks'[r] = IF r \in DOMAIN unsettled /\ DOMAIN pendingBlocks[r] # {}
              THEN Corrected(r, unsettled[r]) ELSE resolvedBlocks[r]
    BY <1>1 DEF ResolveAsync
  <2>2. r \notin DOMAIN unsettled => DOMAIN pendingBlocks[r] = {} /\ DOMAIN epochBlocks[r] = {}
    BY DEF EpochsSettle, PendingInv
  <2> QED
    BY <1>2, <2>1, <2>2
<1>4. ASSUME NEW r \in Req, DOMAIN resolvedBlocks'[r] # {}, Len(inflight) = 2
      PROVE  r \in DOMAIN inflight[2]
  BY <1>1, <1>3, <1>4 DEF PendingInv
<1> QED
  BY <1>1, <1>2, <1>3, <1>4 DEF PendingInv

\* The oldest batch leaves the queue; it is not the one that is unsettled.
LEMMA CompletePending ==
    ASSUME IInv, PendingInv, NEW known, NEW stopped, Completes(known, stopped)
    PROVE  PendingInv'
<1>1. /\ inflight' = Tail(inflight) /\ inflight # << >> /\ Len(inflight) \in Nat
      /\ Len(inflight) = 1 => unsettled = NoBatch
      /\ UNCHANGED <<worker, unsettled, pendingBlocks, epochBlocks, resolvedBlocks>>
  BY DEF Completes
<1>2. inflight \in Seq(Partial(Req, Outcome)) /\ Len(inflight) <= Depth
  BY DEF IInv, TypesInv, FlightInv
<1> DEFINE n == Len(inflight)
<1>3. Depth \in {1, 2} /\ n \in {1, 2}
  <2>1. Depth \in {1, 2}
    <3>1. async \in BOOLEAN
      BY DEF IInv, TypesInv
    <3> QED
      BY <3>1 DEF Depth
  <2>2. n # 0
    BY <1>1, <1>2
  <2> DEFINE d == Depth
  <2>3. n \in Nat /\ n <= d /\ d \in {1, 2}
    BY <1>1, <1>2, <2>1
  <2> HIDE DEF n, d
  <2>4. n \in {1, 2}
    BY <2>2, <2>3
  <2> QED
    BY <2>1, <2>4
<1>4. /\ DOMAIN inflight = 1 .. n /\ DOMAIN (inflight') = 1 .. n - 1
      /\ \A i \in 1 .. n - 1 : inflight'[i] = inflight[i + 1]
      /\ Len(inflight') = n - 1
  BY <1>1, <1>2, HeadAndTail
<1>5. CASE n = 1
  BY <1>1, <1>4, <1>5 DEF PendingInv
<1>6. CASE n = 2
  <2>1. Len(inflight') = 1 /\ inflight'[1] = inflight[2] /\ inflight' # << >>
    BY <1>4, <1>6
  <2> QED
    BY <1>1, <1>6, <2>1 DEF PendingInv
<1> QED
  BY <1>3, <1>5, <1>6

LEMMA SamePending ==
    ASSUME PendingInv, inflight' = inflight, worker' = worker, unsettled' = unsettled,
           pendingBlocks' = pendingBlocks, epochBlocks' = epochBlocks,
           resolvedBlocks' = resolvedBlocks
    PROVE  PendingInv'
  BY DEF PendingInv

LEMMA NextPending ==
    ASSUME IInv, EpochsSettle, PendingInv, [Next]_vars
    PROVE  PendingInv'
<1>1. CASE StartStep
  BY <1>1, SamePending DEF StartStep, runner, tracker
<1>2. CASE ScheduleRunning
  BY <1>2, SamePending DEF ScheduleRunning, runner, tracker
<1>3. CASE Preempt
  BY <1>3, SamePending DEF Preempt, runner, tracker
<1>4. ASSUME NEW r, NEW total, NEW hit, Admit(r, total, hit)
      PROVE  PendingInv'
  BY <1>4, SamePending DEF Admit, runner, tracker
<1>5. CASE Resume
  BY <1>4, <1>5 DEF Resume
<1>6. CASE Dispatch
  BY <1>6, DispatchSends, DispatchPending
<1>7. CASE Settle
  BY <1>7, SettlePending
<1>8. CASE Complete
  BY <1>8, CompleteLeaves, CompletePending
<1>9. ASSUME NEW r \in Req, AdmitNew(r)
      PROVE  PendingInv'
  BY <1>4, <1>9 DEF AdmitNew
<1>10. ASSUME NEW r \in Req, Abort(r)
      PROVE  PendingInv'
  BY <1>10, SamePending DEF Abort, runner, tracker
<1>11. CASE UNCHANGED vars
  BY <1>11, SamePending DEF vars, scheduler, runner, tracker
<1> QED
  BY <1>1, <1>2, <1>3, <1>5, <1>6, <1>7, <1>8, <1>9, <1>10, <1>11 DEF Next

LEMMA InitPending == Init => PendingInv
<1> SUFFICES ASSUME Init PROVE PendingInv
  OBVIOUS
<1>1. /\ \A r \in Req : /\ pendingBlocks[r] = NoBlocks /\ epochBlocks[r] = NoBlocks
                        /\ resolvedBlocks[r] = NoBlocks
      /\ unsettled = NoBatch
  BY DEF Init, TrackerInit, Nothing
<1>2. DOMAIN NoBlocks = {}
  BY NoPlacings
<1> QED
  BY <1>1, <1>2 DEF PendingInv

LEMMA AlwaysPending == Spec => []PendingInv
<1>1. IInv /\ EpochsSettle /\ PendingInv /\ [Next]_vars => PendingInv'
  BY NextPending
<1> QED
  BY <1>1, AlwaysIInv, EpochTheorem, InitPending, PTL DEF Spec

-----------------------------------------------------------------------------
(* The token budget, counted: the tokens granted so far are what the budget  *)
(* has lost, and no batch in flight can sample more tokens than the budget.  *)

Pairs == Req \X (1 .. MaxLen)

GrantedPairs  == {p \in Pairs : p[1] \in DOMAIN batch /\ p[2] <= batch[p[1]].sched}
SpentPairs(e) == {p \in Pairs : p[1] \in DOMAIN e /\ p[2] <= e[p[1]].drafts + 1}

BudgetInv ==
    /\ phase = "scheduling" => Cardinality(GrantedPairs) = Budget - tokenBudget
    /\ \A i \in DOMAIN inflight : Cardinality(SpentPairs(inflight[i])) <= Budget

LEMMA PairsFinite ==
    /\ IsFiniteSet(Pairs)
    /\ \A S \in SUBSET Pairs : IsFiniteSet(S) /\ Cardinality(S) \in Nat
    /\ \A S, T \in SUBSET Pairs : S \subseteq T => Cardinality(S) <= Cardinality(T)
    /\ \A S, T \in SUBSET Pairs : S \subseteq T /\ Cardinality(S) = Cardinality(T) => S = T
<1>1. IsFiniteSet(Pairs)
  <2>1. IsFiniteSet(Req) /\ MaxLen \in Nat
    BY ServingAssumption
  <2>2. IsFiniteSet(1 .. MaxLen)
    BY <2>1, FS_Interval
  <2> QED
    BY <2>1, <2>2, FS_Product DEF Pairs
<1>2. \A S \in SUBSET Pairs : IsFiniteSet(S)
  BY <1>1, FS_Subset
<1>3. \A S \in SUBSET Pairs : Cardinality(S) \in Nat
  BY <1>2, FS_CardinalityType
<1>4. ASSUME NEW S \in SUBSET Pairs, NEW T \in SUBSET Pairs, S \subseteq T
      PROVE  Cardinality(S) <= Cardinality(T) /\ (Cardinality(S) = Cardinality(T) => S = T)
  <2>1. IsFiniteSet(T) /\ S \in SUBSET T
    BY <1>2, <1>4
  <2> QED
    BY <2>1, FS_Subset
<1> QED
  BY <1>1, <1>2, <1>3, <1>4

\* A request's share of the pairs.
LEMMA PairsOfOne ==
    ASSUME NEW r \in Req, NEW n \in Nat, n <= MaxLen, NEW S,
           S = {p \in Pairs : p[1] = r /\ p[2] <= n}
    PROVE  Cardinality(S) = n
<1>1. MaxLen \in Nat
  BY ServingAssumption
<1>2. S = {r} \X (1 .. n)
  <2>1. S \subseteq {r} \X (1 .. n)
    <3> SUFFICES ASSUME NEW p \in S PROVE p \in {r} \X (1 .. n)
      OBVIOUS
    <3>1. p \in Req \X (1 .. MaxLen) /\ p[1] = r /\ p[2] <= n
      BY DEF Pairs
    <3>2. p = << p[1], p[2] >> /\ p[2] \in 1 .. MaxLen
      BY <3>1
    <3>3. p[2] \in 1 .. n
      BY <1>1, <3>1, <3>2
    <3> QED
      BY <3>1, <3>2, <3>3
  <2>2. {r} \X (1 .. n) \subseteq S
    <3> SUFFICES ASSUME NEW p \in {r} \X (1 .. n) PROVE p \in S
      OBVIOUS
    <3>1. p = << p[1], p[2] >> /\ p[1] = r /\ p[2] \in 1 .. n
      OBVIOUS
    <3>2. p[2] \in 1 .. MaxLen /\ p[2] <= n
      BY <1>1, <3>1
    <3>3. p \in Pairs
      BY <3>1, <3>2 DEF Pairs
    <3> QED
      BY <3>1, <3>2, <3>3
  <2> QED
    BY <2>1, <2>2
<1>3. IsFiniteSet({r}) /\ Cardinality({r}) = 1
  BY FS_Singleton
<1>4. IsFiniteSet(1 .. n) /\ Cardinality(1 .. n) = n
  BY FS_Interval
<1>5. Cardinality({r} \X (1 .. n)) = 1 * n
  BY <1>3, <1>4, FS_Product
<1> QED
  BY <1>2, <1>5

\* A grant is taken from the budget.
LEMMA GrantsBudget ==
    ASSUME IInv, IInv', BudgetInv, NEW r, NEW kept, NEW new, NEW g, Grants(r, kept, new, g)
    PROVE  BudgetInv'
<1>1. /\ phase = "scheduling" /\ r \in Req /\ r \notin DOMAIN batch
      /\ g.sched \in Nat /\ DOMAIN (batch') = DOMAIN batch \cup {r}
      /\ batch'[r] = g /\ \A x \in DOMAIN batch : batch'[x] = batch[x]
      /\ tokenBudget' = tokenBudget - g.sched /\ inflight' = inflight
      /\ g.start \in Nat
  BY DEF Grants, Grant
<1>2. tokenBudget \in Nat /\ Budget \in Nat /\ MaxLen \in Nat
  BY ServingAssumption DEF IInv, TypesInv
<1>3. g.sched <= MaxLen
  <2>1. batch'[r].start + batch'[r].sched <= MaxLen
    BY <1>1 DEF IInv, BatchInv
  <2> QED
    BY <1>1, <1>2, <2>1
<1> DEFINE S == {p \in Pairs : p[1] = r /\ p[2] <= g.sched}
<1>4. Cardinality(S) = g.sched
  BY <1>1, <1>3, PairsOfOne
<1>5. GrantedPairs' = GrantedPairs \cup S /\ GrantedPairs \cap S = {}
  <2>1. Pairs' = Pairs
    BY DEF Pairs
  <2>2. GrantedPairs' = {p \in Pairs : p[1] \in DOMAIN (batch') /\ p[2] <= batch'[p[1]].sched}
    BY <2>1 DEF GrantedPairs
  <2>3. ASSUME NEW p \in Pairs
        PROVE  p[1] \in DOMAIN (batch') /\ p[2] <= batch'[p[1]].sched
                 <=> \/ p[1] \in DOMAIN batch /\ p[2] <= batch[p[1]].sched
                     \/ p[1] = r /\ p[2] <= g.sched
    BY <1>1
  <2>4. GrantedPairs' = GrantedPairs \cup S
    BY <2>2, <2>3 DEF GrantedPairs
  <2>5. GrantedPairs \cap S = {}
    BY <1>1 DEF GrantedPairs
  <2> QED
    BY <2>4, <2>5
<1>6. GrantedPairs \in SUBSET Pairs /\ S \in SUBSET Pairs
  BY DEF GrantedPairs
<1> HIDE DEF S
<1>7. Cardinality(GrantedPairs') = Cardinality(GrantedPairs) + g.sched
  <2>1. IsFiniteSet(GrantedPairs) /\ IsFiniteSet(S) /\ Cardinality(GrantedPairs) \in Nat
    BY <1>6, PairsFinite
  <2>2. Cardinality(GrantedPairs \cup S)
          = Cardinality(GrantedPairs) + Cardinality(S) - Cardinality(GrantedPairs \cap S)
    BY <2>1, FS_Union
  <2>3. Cardinality(GrantedPairs \cap S) = 0
    BY <1>5, FS_EmptySet
  <2> QED
    BY <1>1, <1>4, <1>5, <2>1, <2>2, <2>3
<1>8. Cardinality(GrantedPairs) = Budget - tokenBudget
  BY <1>1 DEF BudgetInv
<1>9. Cardinality(GrantedPairs') = Budget - tokenBudget'
  BY <1>1, <1>2, <1>7, <1>8
<1>10. \A i \in DOMAIN (inflight') : Cardinality(SpentPairs(inflight'[i])) <= Budget
  BY <1>1 DEF BudgetInv
<1> QED
  BY <1>9, <1>10 DEF BudgetInv, SpentPairs, Pairs

\* The tokens a batch can sample were granted.
LEMMA DispatchBudget ==
    ASSUME IInv, GrantInv, BudgetInv, NEW b, Dispatches(b), Dispatch
    PROVE  BudgetInv'
<1>1. /\ phase' = "idle" /\ phase = "scheduling" /\ DOMAIN b = DOMAIN batch
      /\ DOMAIN inflight = 1 .. Len(inflight) /\ DOMAIN (inflight') = 1 .. Len(inflight) + 1
      /\ Len(inflight) \in Nat
      /\ inflight'[Len(inflight) + 1] = b
      /\ \A i \in DOMAIN inflight : inflight'[i] = inflight[i]
  BY DispatchOpens DEF Dispatches
<1>2. tokenBudget \in Nat /\ Budget \in Nat
  BY ServingAssumption DEF IInv, TypesInv
<1>3. SpentPairs(b) \subseteq GrantedPairs
  <2> SUFFICES ASSUME NEW p \in Pairs, p[1] \in DOMAIN b, p[2] <= b[p[1]].drafts + 1
               PROVE  p \in GrantedPairs
    BY DEF SpentPairs
  <2>1. p[1] \in DOMAIN batch /\ p[2] \in 1 .. MaxLen
    BY <1>1 DEF Pairs
  <2>2. /\ b[p[1]].drafts = batch[p[1]].drafts
        /\ batch[p[1]].drafts \in Nat /\ batch[p[1]].sched \in Nat
        /\ batch[p[1]].drafts < batch[p[1]].sched
    BY <2>1 DEF Dispatches, GrantInv
  <2>3. MaxLen \in Nat
    BY ServingAssumption
  <2>4. p[2] <= batch[p[1]].sched
    BY <2>1, <2>2, <2>3
  <2> QED
    BY <2>1, <2>4 DEF GrantedPairs
<1>4. Cardinality(SpentPairs(b)) <= Budget
  <2>1. /\ SpentPairs(b) \in SUBSET Pairs /\ GrantedPairs \in SUBSET Pairs
    BY DEF SpentPairs, GrantedPairs
  <2>2. /\ Cardinality(SpentPairs(b)) \in Nat /\ Cardinality(GrantedPairs) \in Nat
        /\ Cardinality(SpentPairs(b)) <= Cardinality(GrantedPairs)
    BY <1>3, <2>1, PairsFinite
  <2>3. Cardinality(GrantedPairs) = Budget - tokenBudget
    BY <1>1 DEF BudgetInv
  <2> QED
    BY <1>2, <2>2, <2>3
<1>5. ASSUME NEW i \in DOMAIN (inflight')
      PROVE  Cardinality(SpentPairs(inflight'[i])) <= Budget
  <2>1. CASE i \in DOMAIN inflight
    BY <1>1, <2>1 DEF BudgetInv
  <2>2. CASE i \notin DOMAIN inflight
    <3>1. i = Len(inflight) + 1
      BY <1>1, <2>2
    <3> QED
      BY <1>1, <1>4, <3>1
  <2> QED
    BY <2>1, <2>2
<1> QED
  BY <1>1, <1>5 DEF BudgetInv, SpentPairs, Pairs

LEMMA SameBudget ==
    ASSUME BudgetInv, batch' = batch, inflight' = inflight,
           (phase' = phase /\ tokenBudget' = tokenBudget) \/ phase' = "idle"
    PROVE  BudgetInv'
  BY DEF BudgetInv, GrantedPairs, SpentPairs, Pairs

LEMMA StartStepBudget ==
    ASSUME IInv, BudgetInv, StartStep
    PROVE  BudgetInv'
<1>1. phase = "idle" /\ batch' = batch /\ inflight' = inflight /\ tokenBudget' = Budget
  BY DEF StartStep, MayStartStep
<1>2. DOMAIN batch = {}
  BY <1>1, NoPartial DEF IInv, QueuesInv
<1>3. GrantedPairs' = {}
  BY <1>1, <1>2 DEF GrantedPairs
<1>4. Cardinality(GrantedPairs') = 0 /\ Budget - tokenBudget' = 0
  BY <1>1, <1>3, FS_EmptySet, ServingAssumption
<1> QED
  BY <1>1, <1>4 DEF BudgetInv, SpentPairs, Pairs

LEMMA CompleteBudget ==
    ASSUME IInv, BudgetInv, NEW known, NEW stopped, Completes(known, stopped)
    PROVE  BudgetInv'
<1>1. /\ phase' = "idle" /\ inflight' = Tail(inflight) /\ inflight # << >>
  BY DEF Completes
<1>2. inflight \in Seq(Partial(Req, Outcome))
  BY DEF IInv, TypesInv
<1>3. /\ DOMAIN inflight = 1 .. Len(inflight) /\ DOMAIN (inflight') = 1 .. Len(inflight) - 1
      /\ \A i \in 1 .. Len(inflight) - 1 : inflight'[i] = inflight[i + 1]
      /\ Len(inflight) \in Nat
  BY <1>1, <1>2, HeadAndTail
<1>4. ASSUME NEW i \in DOMAIN (inflight')
      PROVE  Cardinality(SpentPairs(inflight'[i])) <= Budget
  <2>1. i + 1 \in DOMAIN inflight /\ inflight'[i] = inflight[i + 1]
    BY <1>3
  <2> QED
    BY <2>1 DEF BudgetInv
<1> QED
  BY <1>1, <1>4 DEF BudgetInv, SpentPairs, Pairs

LEMMA NextBudget ==
    ASSUME IInv, IInv', GrantInv, BudgetInv, [Next]_vars
    PROVE  BudgetInv'
<1>1. CASE StartStep
  BY <1>1, StartStepBudget
<1>2. CASE ScheduleRunning
  BY <1>2, ScheduleRunningGrants, GrantsBudget
<1>3. CASE Preempt
  BY <1>3, SameBudget DEF Preempt
<1>4. CASE Resume
  BY <1>4, ResumeAdmits, GrantsBudget DEF Admits
<1>5. CASE Dispatch
  BY <1>5, DispatchSends, DispatchBudget
<1>6. CASE Settle
  BY <1>6, SameBudget DEF Settle, scheduler
<1>7. CASE Complete
  BY <1>7, CompleteLeaves, CompleteBudget
<1>8. ASSUME NEW r \in Req, AdmitNew(r)
      PROVE  BudgetInv'
  BY <1>8, AdmitNewAdmits, GrantsBudget DEF Admits
<1>9. ASSUME NEW r \in Req, Abort(r)
      PROVE  BudgetInv'
  BY <1>9, SameBudget DEF Abort
<1>10. CASE UNCHANGED vars
  BY <1>10, SameBudget DEF vars, scheduler
<1> QED
  BY <1>1, <1>2, <1>3, <1>4, <1>5, <1>6, <1>7, <1>8, <1>9, <1>10 DEF Next

LEMMA AlwaysBudget == Spec => []BudgetInv
<1>1. Init => BudgetInv
  <2>1. Init => phase # "scheduling" /\ DOMAIN inflight = {}
    BY DEF Init
  <2> QED
    BY <2>1 DEF BudgetInv
<1>2. IInv /\ [Next]_vars => IInv'
  BY NextInv
<1>3. IInv /\ IInv' /\ (ExactInv /\ GrantInv) /\ BudgetInv /\ [Next]_vars => BudgetInv'
  BY NextBudget
<1> QED
  BY <1>1, <1>2, <1>3, AlwaysIInv, AheadTheorem, PTL DEF Spec

-----------------------------------------------------------------------------
(* Behind an empty batch nobody is left out.  schedule() ends with nothing   *)
(* only when nobody who runs may still be computed.  With a full queue those *)
(* are about to end or at the length of the model; once the batch in flight  *)
(* has told its outcome, what room they have left fits the budget, so that   *)
(* the next step schedules every one of them.                                *)

LastEmpty == inflight # << >> /\ DOMAIN inflight[Len(inflight)] = {}

\* The tokens for which those that run have room.
Room == {p \in Pairs : /\ p[1] \in Running /\ p[1] \in DOMAIN worker
                       /\ p[2] <= MaxLen - request[p[1]].computed}

RoomInv ==
    LastEmpty =>
        /\ Len(inflight) = 2 => \A r \in Running \cap DOMAIN worker :
            /\ r \in DOMAIN inflight[1] /\ inflight[1][r].sampled
            /\ \/ request[r].computed + 2 - request[r].placeholders >= MaxTokens
               \/ request[r].computed >= MaxLen - 1
        /\ Len(inflight) = 1 =>
            /\ \A r \in Running \cap DOMAIN worker : r \notin InFlight
            /\ Cardinality(Room) <= Budget
            /\ Running \cap DOMAIN worker \subseteq DOMAIN batch
                 \/ DOMAIN batch \subseteq DOMAIN worker
        /\ ~async => DOMAIN worker = {}

\* Whoever awaits nothing and has not been granted anything is schedulable.
LEMMA Wants ==
    ASSUME IInv, ExactInv, NEW r \in Running, r \notin DOMAIN batch, Awaiting(r) = 0
    PROVE  Schedulable(r)
<1> DEFINE q == request[r]
           c == request[r].computed  t == request[r].total
           spec == IF q.decoding THEN Lookahead ELSE 0
<1>1. r \in Req /\ r \in Unfinished /\ c \in Nat /\ t \in Nat
  BY RunningTypes, RequestTypes DEF IInv, Unfinished
<1>2. q.placeholders = 0
  BY <1>1 DEF IInv, RequestInv
<1>3. c + 1 <= t + Awaiting(r) /\ t < Limit
  BY <1>1 DEF ExactInv
<1>4. /\ MaxLen \in Nat /\ Limit \in Nat /\ Limit <= MaxLen /\ spec \in Nat
  BY LimitType, ServingAssumption DEF Limit, Lesser
<1>5. ~Finishing(q)
  BY <1>2 DEF Finishing
<1>6. Wanted(q) > 0
  <2>1. Wanted(q) = Lesser(t + spec + 0 - c, MaxLen - c - 1)
    BY <1>2 DEF Wanted
  <2> HIDE DEF c, t, spec, q
  <2> QED
    BY <1>1, <1>3, <1>4, <2>1 DEF Lesser
<1> QED
  BY <1>5, <1>6 DEF Schedulable

\* With one batch in flight, what a request awaits it awaits of that batch.
LEMMA AwaitsFirst ==
    ASSUME IInv, Len(inflight) = 1 \/ (Len(inflight) = 2 /\ DOMAIN inflight[2] = {}), NEW r
    PROVE  /\ Awaiting(r) = Sampled(1, r) /\ Awaiting(r) \in Nat
           /\ Awaiting(r) > 0 => /\ 1 \in DOMAIN inflight /\ r \in DOMAIN inflight[1]
                                 /\ inflight[1][r].sampled
                                 /\ Awaiting(r) = 1 + inflight[1][r].drafts
           /\ Behind(r) = Rejected(1, r)
<1>1. inflight \in Seq(Partial(Req, Outcome)) /\ TypesInv /\ FlightInv
  BY DEF IInv, TypesInv
<1>2. Sampled(2, r) = 0 /\ Rejected(2, r) = 0
  BY <1>1 DEF Sampled, Rejected
<1>3. /\ Sampled(1, r) \in Nat /\ Rejected(1, r) \in Nat
      /\ Awaiting(r) = Sampled(1, r) + Sampled(2, r) /\ Behind(r) = Rejected(1, r) + Rejected(2, r)
  BY <1>1, FlightSlack
<1>4. Awaiting(r) = Sampled(1, r) /\ Behind(r) = Rejected(1, r)
  BY <1>2, <1>3
<1>5. Sampled(1, r) > 0 =>
         /\ 1 \in DOMAIN inflight /\ r \in DOMAIN inflight[1] /\ inflight[1][r].sampled
         /\ Sampled(1, r) = 1 + inflight[1][r].drafts
  BY DEF Sampled
<1> QED
  BY <1>3, <1>4, <1>5

LEMMA RoomFinite ==
    /\ Room \in SUBSET Pairs /\ GrantedPairs \in SUBSET Pairs
    /\ Cardinality(Room) \in Nat /\ Cardinality(GrantedPairs) \in Nat
<1>1. Room \in SUBSET Pairs /\ GrantedPairs \in SUBSET Pairs
  BY DEF Room, GrantedPairs
<1> QED
  BY <1>1, PairsFinite

\* A step that follows an empty batch schedules all that run.
LEMMA NobodyLeftOut ==
    ASSUME IInv, ExactInv, GrantInv, BudgetInv, RoomInv, phase = "scheduling", Assembled,
           LastEmpty, DOMAIN batch # {}, NEW r \in Running, r \in DOMAIN worker
    PROVE  r \in DOMAIN batch
<1>1. /\ inflight \in Seq(Partial(Req, Outcome)) /\ async \in BOOLEAN /\ TypesInv
      /\ Len(inflight) < Depth /\ tokenBudget \in Nat /\ FlightInv
  BY DEF IInv, TypesInv, FlightInv
<1>2. Len(inflight) = 1
  <2>1. Depth \in {1, 2} /\ inflight # << >>
    BY <1>1 DEF Depth, LastEmpty
  <2> DEFINE n == Len(inflight)  d == Depth
  <2>2. n \in Nat /\ n # 0 /\ n < d /\ d \in {1, 2}
    BY <1>1, <2>1
  <2> HIDE DEF n, d
  <2>3. n = 1
    BY <2>2
  <2> QED
    BY <2>3 DEF n
<1>3. /\ \A x \in Running \cap DOMAIN worker : x \notin InFlight
      /\ Cardinality(Room) <= Budget
      /\ Running \cap DOMAIN worker \subseteq DOMAIN batch \/ DOMAIN batch \subseteq DOMAIN worker
  BY <1>2 DEF RoomInv
<1>4. CASE AllHadTheirTurn
  <2>1. Awaiting(r) = 0
    BY <1>1, <1>3, FlightSums
  <2> QED
    BY <1>4, <2>1, Wants DEF AllHadTheirTurn
<1>5. CASE tokenBudget = 0 /\ DOMAIN batch \subseteq DOMAIN worker
  <2>1. Cardinality(GrantedPairs) = Budget
    BY <1>5, ServingAssumption DEF BudgetInv
  <2>2. ASSUME NEW x \in DOMAIN batch
        PROVE  /\ x \in Running /\ x \in DOMAIN worker /\ x \in Req
               /\ batch[x].sched \in Nat /\ request[x].computed \in Nat
               /\ request[x].computed + batch[x].sched < MaxLen
    <3>1. x \in Running /\ x \in Req /\ x \in DOMAIN worker /\ x \in Unfinished
      BY <1>1, <1>5, RunningTypes DEF IInv, QueuesInv, Unfinished
    <3>2. batch[x].sched \in Nat /\ batch[x].start = request[x].computed
      BY <1>1, BatchTypes DEF IInv, BatchInv
    <3> QED
      BY <1>1, <3>1, <3>2, RequestTypes DEF GrantInv
  <2>3. MaxLen \in Nat
    BY ServingAssumption
  <2>4. GrantedPairs \subseteq Room
    <3> SUFFICES ASSUME NEW p \in GrantedPairs PROVE p \in Room
      OBVIOUS
    <3>1. /\ p \in Pairs /\ p[1] \in DOMAIN batch /\ p[2] <= batch[p[1]].sched
          /\ p[2] \in 1 .. MaxLen
      BY DEF GrantedPairs, Pairs
    <3> DEFINE c == request[p[1]].computed  s == batch[p[1]].sched  k == p[2]
    <3>2. c \in Nat /\ s \in Nat /\ c + s < MaxLen /\ k \in Nat /\ k <= s
      BY <2>2, <2>3, <3>1
    <3> HIDE DEF c, s, k
    <3>3. k <= MaxLen - c
      BY <2>3, <3>2
    <3> QED
      BY <2>2, <3>1, <3>3 DEF Room, k, c
  <2>5. GrantedPairs = Room
    <3>1. Cardinality(GrantedPairs) <= Cardinality(Room)
      BY <2>4, RoomFinite, PairsFinite
    <3>2. Cardinality(GrantedPairs) = Cardinality(Room)
      BY <1>3, <2>1, <3>1, RoomFinite, ServingAssumption
    <3> QED
      BY <2>4, <3>2, RoomFinite, PairsFinite
  <2>6. PICK x \in DOMAIN batch : TRUE
    OBVIOUS
  <2> DEFINE k == MaxLen - request[x].computed
             p == << x, k >>
  <2>7. /\ x \in Running /\ x \in DOMAIN worker /\ x \in Req
        /\ batch[x].sched \in Nat /\ request[x].computed \in Nat
        /\ request[x].computed + batch[x].sched < MaxLen
    BY <2>2
  <2>8. k \in 1 .. MaxLen /\ k <= MaxLen - request[x].computed /\ ~(k <= batch[x].sched)
    BY <2>3, <2>7
  <2> HIDE DEF k
  <2>9. p \in Pairs /\ p[1] = x /\ p[2] = k
    BY <2>7, <2>8 DEF Pairs
  <2> HIDE DEF p
  <2>10. p \in Room /\ p \notin GrantedPairs
    BY <2>7, <2>8, <2>9 DEF Room, GrantedPairs
  <2> QED
    BY <2>5, <2>10
<1> QED
  BY <1>3, <1>4, <1>5 DEF Assembled

\* Steps that leave the worker and the queue alone and let nobody run whom the
\* worker knew and who did not run before.
LEMMA KeepsRoom ==
    ASSUME RoomInv, async' = async, inflight' = inflight, worker' = worker,
           \A x \in Running' \cap DOMAIN worker :
              /\ x \in Running /\ request'[x].computed = request[x].computed
              /\ request'[x].placeholders = request[x].placeholders,
           LastEmpty /\ Len(inflight) = 1 =>
              \/ Running' \cap DOMAIN worker \subseteq DOMAIN (batch')
              \/ DOMAIN (batch') \subseteq DOMAIN worker
    PROVE  RoomInv'
<1>1. LastEmpty' <=> LastEmpty
  BY DEF LastEmpty
<1>2. InFlight' = InFlight
  BY DEF InFlight
<1>3. Room' \subseteq Room
  BY DEF Room, Pairs
<1>4. Cardinality(Room') <= Cardinality(Room) /\ Cardinality(Room') \in Nat
  <2>1. Room \in SUBSET Pairs /\ Room' \in SUBSET Pairs
    BY <1>3 DEF Room
  <2> QED
    BY <1>3, <2>1, PairsFinite
<1>5. Cardinality(Room) <= Budget => Cardinality(Room') <= Budget
  BY <1>4, RoomFinite, ServingAssumption
<1> QED
  BY <1>1, <1>2, <1>5 DEF RoomInv

LEMMA SameRoom ==
    ASSUME RoomInv, UNCHANGED <<async, request, running, inflight, worker, batch>>
    PROVE  RoomInv'
<1>1. Running' = Running
  BY DEF Running
<1> QED
  BY <1>1, KeepsRoom DEF RoomInv

LEMMA ScheduleRunningRoom ==
    ASSUME IInv, RoomInv, ScheduleRunning
    PROVE  RoomInv'
<1>1. PICK r, new, g :
        /\ r \in Running /\ Grants(r, request[r].table, new, g)
        /\ r \in DOMAIN worker
        /\ running' = running
        /\ request'[r].computed = request[r].computed
        /\ request'[r].placeholders = request[r].placeholders
  BY ScheduleRunningGrants
<1>2. /\ async' = async /\ inflight' = inflight /\ worker' = worker
      /\ DOMAIN (batch') = DOMAIN batch \cup {r}
      /\ \A x \in Req : x # r => request'[x] = request[x]
  BY <1>1 DEF Grants
<1>3. Running' = Running /\ Running \subseteq Req
  BY <1>1, RunningTypes DEF Running, IInv
<1>4. LastEmpty /\ Len(inflight) = 1 =>
              \/ Running' \cap DOMAIN worker \subseteq DOMAIN (batch')
              \/ DOMAIN (batch') \subseteq DOMAIN worker
  BY <1>1, <1>2, <1>3 DEF RoomInv
<1>5. \A x \in Running' \cap DOMAIN worker :
              /\ x \in Running /\ request'[x].computed = request[x].computed
              /\ request'[x].placeholders = request[x].placeholders
  BY <1>1, <1>2, <1>3
<1> QED
  BY <1>2, <1>4, <1>5, KeepsRoom

LEMMA AdmitsRoom ==
    ASSUME IInv, ExactInv, RoomInv, NEW r, NEW total, NEW hit, NEW new, NEW g,
           Admits(r, total, hit, new, g)
    PROVE  RoomInv'
<1>1. /\ Grants(r, hit, new, g) /\ r \notin Running /\ r \notin DOMAIN worker
      /\ Running' = Running \cup {r} /\ \A x \in Running : ~Schedulable(x)
  BY DEF Admits
<1>2. /\ async' = async /\ inflight' = inflight /\ worker' = worker
      /\ DOMAIN (batch') = DOMAIN batch \cup {r}
      /\ \A x \in Req : x # r => request'[x] = request[x]
  BY <1>1 DEF Grants
<1>3. Running \subseteq Req
  BY RunningTypes DEF IInv
<1>4. ASSUME LastEmpty, Len(inflight) = 1
      PROVE  Running' \cap DOMAIN worker \subseteq DOMAIN (batch')
  <2> SUFFICES ASSUME NEW x \in Running, x \in DOMAIN worker PROVE x \in DOMAIN batch
    BY <1>1, <1>2
  <2>1. x \notin InFlight
    BY <1>4 DEF RoomInv
  <2>2. Awaiting(x) = 0
    BY <2>1, FlightSums DEF IInv
  <2> QED
    BY <1>1, <2>2, Wants
<1>5. \A x \in Running' \cap DOMAIN worker :
              /\ x \in Running /\ request'[x].computed = request[x].computed
              /\ request'[x].placeholders = request[x].placeholders
  BY <1>1, <1>2, <1>3
<1> QED
  BY <1>2, <1>4, <1>5, KeepsRoom

LEMMA PreemptRoom ==
    ASSUME IInv, RoomInv, Preempt
    PROVE  RoomInv'
<1>1. PICK v : Gives(v)
  BY PreemptGives
<1>2. /\ async' = async /\ inflight' = inflight /\ worker' = worker /\ batch' = batch
      /\ Running' = Running \ {v} /\ \A x \in Req : x # v => request'[x] = request[x]
      /\ Running \subseteq Req
  BY <1>1, RunningTypes DEF Gives, IInv
<1>3. LastEmpty /\ Len(inflight) = 1 =>
              \/ Running' \cap DOMAIN worker \subseteq DOMAIN (batch')
              \/ DOMAIN (batch') \subseteq DOMAIN worker
  BY <1>2 DEF RoomInv
<1>4. \A x \in Running' \cap DOMAIN worker :
              /\ x \in Running /\ request'[x].computed = request[x].computed
              /\ request'[x].placeholders = request[x].placeholders
  BY <1>2
<1> QED
  BY <1>2, <1>3, <1>4, KeepsRoom

LEMMA AbortRoom ==
    ASSUME IInv, RoomInv, NEW r \in Req, Abort(r)
    PROVE  RoomInv'
<1>1. /\ async' = async /\ inflight' = inflight /\ worker' = worker /\ batch' = batch
      /\ DOMAIN batch = {}
      /\ Running' = Running \ {r} /\ \A x \in Req : x # r => request'[x] = request[x]
      /\ Running \subseteq Req
  BY AbortLeaves, RunningTypes DEF IInv
<1>2. \A x \in Running' \cap DOMAIN worker :
              /\ x \in Running /\ request'[x].computed = request[x].computed
              /\ request'[x].placeholders = request[x].placeholders
  BY <1>1
<1> QED
  BY <1>1, <1>2, KeepsRoom

\* An empty batch is sent.
LEMMA DispatchRoom ==
    ASSUME IInv, IInv', ExactInv, BudgetInv, RoomInv, Dispatch, NEW b, Dispatches(b)
    PROVE  RoomInv'
<1>1. /\ phase = "scheduling" /\ async' = async /\ Running' = Running
      /\ inflight'[Len(inflight')] = b /\ Len(inflight') = Len(inflight) + 1
      /\ \A i \in DOMAIN inflight : inflight'[i] = inflight[i]
      /\ DOMAIN (inflight') = 1 .. Len(inflight') /\ DOMAIN inflight = 1 .. Len(inflight)
      /\ Len(inflight) \in Nat /\ Len(inflight) < Depth
      /\ DOMAIN b = DOMAIN batch /\ DOMAIN (worker') = Running
      /\ \A r \in Req \ DOMAIN batch : request'[r] = request[r]
      /\ Running \subseteq Req /\ Assembled
  <2>1. /\ Len(inflight') = Len(inflight) + 1 /\ inflight'[Len(inflight')] = b
        /\ \A i \in DOMAIN inflight : inflight'[i] = inflight[i]
    BY DispatchOpens
  <2>2. phase = "scheduling" /\ Assembled
    BY DEF Dispatch, MayDispatch
  <2>3. inflight \in Seq(Partial(Req, Outcome)) /\ Running \subseteq Req
    BY RunningTypes DEF IInv, TypesInv
  <2>4. inflight' \in Seq(Partial(Req, Outcome))
    BY DEF IInv, TypesInv
  <2>5. /\ DOMAIN (inflight') = 1 .. Len(inflight') /\ DOMAIN inflight = 1 .. Len(inflight)
        /\ Len(inflight) \in Nat
    BY <2>3, <2>4
  <2>6. Len(inflight) < Depth
    BY <2>2 DEF IInv, FlightInv
  <2>7. /\ async' = async /\ Running' = Running
        /\ DOMAIN b = DOMAIN batch /\ DOMAIN (worker') = Running
        /\ \A r \in Req \ DOMAIN batch : request'[r] = request[r]
    BY DEF Dispatches
  <2> QED
    BY <2>1, <2>2, <2>3, <2>5, <2>6, <2>7
<1>2. async \in BOOLEAN /\ TypesInv /\ FlightInv /\ Budget \in Nat \ {0} /\ tokenBudget \in Nat
  BY ServingAssumption DEF IInv, TypesInv
<1> SUFFICES ASSUME LastEmpty' PROVE RoomInv'
  BY DEF RoomInv
<1>3. DOMAIN batch = {}
  BY <1>1 DEF LastEmpty
<1>4. AllHadTheirTurn
  <2>1. GrantedPairs = {}
    BY <1>3 DEF GrantedPairs
  <2>2. 0 = Budget - tokenBudget
    BY <1>1, <2>1, FS_EmptySet DEF BudgetInv
  <2> QED
    BY <1>1, <1>2, <2>2 DEF Assembled
<1>5. ASSUME NEW r \in Running
      PROVE  /\ Awaiting(r) > 0 /\ Awaiting(r) \in Nat
             /\ request'[r] = request[r] /\ ~Schedulable(r)
  <2>1. Awaiting(r) \in Nat /\ ~Schedulable(r)
    BY <1>2, <1>4, FlightSlack DEF AllHadTheirTurn
  <2> QED
    BY <1>1, <1>3, <2>1, Wants
<1>6. CASE Len(inflight) = 0
  <2>1. Running = {}
    <3>1. ASSUME NEW r \in Running PROVE FALSE
      <4>1. r \notin InFlight
        BY <1>1, <1>6 DEF InFlight
      <4>2. Awaiting(r) = 0
        BY <1>2, <4>1, FlightSums
      <4> QED
        BY <1>5, <4>2
    <3> QED
      BY <3>1
  <2>2. Room' = {}
    BY <1>1, <2>1 DEF Room
  <2>3. Cardinality(Room') <= Budget
    BY <1>2, <2>2, FS_EmptySet
  <2>4. Len(inflight') = 1
    BY <1>1, <1>6
  <2> QED
    BY <1>1, <2>1, <2>3, <2>4 DEF RoomInv
<1>7. CASE Len(inflight) = 1
  <2>1. async /\ Len(inflight') = 2 /\ inflight'[1] = inflight[1]
    BY <1>1, <1>2, <1>7 DEF Depth
  <2>2. ASSUME NEW r \in Running
        PROVE  /\ r \in DOMAIN inflight[1] /\ inflight[1][r].sampled
               /\ \/ request[r].computed + 2 - request[r].placeholders >= MaxTokens
                  \/ request[r].computed >= MaxLen - 1
    <3> DEFINE q == request[r]
               c == request[r].computed  t == request[r].total  a == Awaiting(r)
               spec == IF q.decoding THEN Lookahead ELSE 0
    <3>1. r \in DOMAIN inflight[1] /\ inflight[1][r].sampled
      BY <1>5, <1>7, <2>2, AwaitsFirst
    <3>2. r \in Req /\ r \in Unfinished /\ c \in Nat /\ t \in Nat /\ a \in Nat /\ a > 0
      BY <1>2, <1>5, <2>2, RunningTypes, RequestTypes DEF Unfinished
    <3>3. q.placeholders = a
      BY <2>1, <3>2 DEF IInv, RequestInv
    <3>4. c + 1 = t + a
      BY <2>2, <3>2 DEF ExactInv
    <3>5. Finishing(q) \/ ~(Wanted(q) > 0)
      BY <1>3, <1>5, <2>2 DEF Schedulable
    <3>6. CASE Finishing(q)
      BY <3>1, <3>6 DEF Finishing
    <3>7. CASE ~(Wanted(q) > 0)
      <4>1. Wanted(q) = Lesser(t + spec + a - c, MaxLen - c - 1)
        BY <3>3 DEF Wanted
      <4>2. spec \in Nat /\ MaxLen \in Nat
        BY ServingAssumption
      <4>3. c >= MaxLen - 1
        <5> HIDE DEF c, t, a, spec, q
        <5> QED
          BY <3>2, <3>4, <3>7, <4>1, <4>2 DEF Lesser
      <4> QED
        BY <3>1, <4>3
    <3> QED
      BY <3>5, <3>6, <3>7
  <2> QED
    <3>1. Running' \cap DOMAIN (worker') \subseteq Running
      BY <1>1
    <3>2. ASSUME NEW r \in Running' \cap DOMAIN (worker')
          PROVE  /\ r \in DOMAIN inflight'[1] /\ inflight'[1][r].sampled
                 /\ \/ request'[r].computed + 2 - request'[r].placeholders >= MaxTokens
                    \/ request'[r].computed >= MaxLen - 1
      BY <1>5, <2>1, <2>2, <3>1, <3>2
    <3>3. Len(inflight') # 1 /\ async'
      BY <1>1, <2>1
    <3> QED
      BY <3>2, <3>3 DEF RoomInv
<1>8. Len(inflight) \in {0, 1}
  <2> DEFINE n == Len(inflight)
  <2>1. Depth \in {1, 2}
    BY <1>2 DEF Depth
  <2> DEFINE d == Depth
  <2>2. n \in Nat /\ n < d /\ d \in {1, 2}
    BY <1>1, <2>1
  <2> HIDE DEF n, d
  <2>3. n \in {0, 1}
    BY <2>2
  <2> QED
    BY <2>3 DEF n
<1> QED
  BY <1>6, <1>7, <1>8

LEMMA EmptyLen ==
    ASSUME NEW S, NEW s \in Seq(S), Len(s) = 0
    PROVE  s = << >>
OBVIOUS

\* What room is left once the batch before an empty one has told its outcome.
LEMMA CompleteRoom ==
    ASSUME IInv, IInv', ExactInv, BudgetInv, RoomInv,
           NEW known, NEW stopped, Completes(known, stopped)
    PROVE  RoomInv'
<1>1. /\ inflight' = Tail(inflight) /\ inflight # << >> /\ Len(inflight) \in Nat
      /\ async' = async /\ worker' = worker /\ batch' = batch /\ DOMAIN batch = {}
      /\ Running' = Running \ stopped
      /\ known = DOMAIN inflight[1] \cap Unfinished
  BY DEF Completes
<1>2. /\ inflight \in Seq(Partial(Req, Outcome)) /\ Len(inflight) <= Depth
      /\ async \in BOOLEAN /\ TypesInv /\ FlightInv
  BY DEF IInv, TypesInv, FlightInv
<1> DEFINE n == Len(inflight)
<1>3. /\ DOMAIN inflight = 1 .. n /\ DOMAIN (inflight') = 1 .. n - 1
      /\ \A i \in 1 .. n - 1 : inflight'[i] = inflight[i + 1]
      /\ Len(inflight') = n - 1
  BY <1>1, <1>2, HeadAndTail
<1> SUFFICES ASSUME LastEmpty' PROVE RoomInv'
  BY DEF RoomInv
<1>4. n = 2 /\ async
  <2> DEFINE d == Depth
  <2>1. d = IF async THEN 2 ELSE 1
    BY DEF Depth
  <2>2. inflight' # << >> /\ Len(inflight') = n - 1
    BY <1>3 DEF LastEmpty
  <2>3. inflight' \in Seq(Partial(Req, Outcome))
    BY <1>1, <1>2
  <2>4. n # 1 /\ n # 0
    <3>1. Len(inflight') # 0
      BY <2>2, <2>3, EmptyLen
    <3>2. Len(inflight) # 0
      BY <1>1, <1>2
    <3> QED
      BY <2>2, <3>1, <3>2
  <2>5. n \in Nat /\ n <= d
    BY <1>1, <1>2
  <2> HIDE DEF n, d
  <2> QED
    BY <1>2, <2>1, <2>4, <2>5
<1>5. Len(inflight') = 1 /\ inflight'[1] = inflight[2] /\ DOMAIN (inflight') = {1}
  BY <1>3, <1>4
<1>6. DOMAIN inflight[2] = {} /\ LastEmpty
  BY <1>4, <1>5, <1>1 DEF LastEmpty
<1>7. InFlight' = {}
  BY <1>5, <1>6 DEF InFlight
<1>8. Room' \subseteq SpentPairs(inflight[1])
  <2> SUFFICES ASSUME NEW p \in Room'
               PROVE  p \in SpentPairs(inflight[1])
    OBVIOUS
  <2>1. PICK r : r = p[1]
    OBVIOUS
  <2>2. /\ p \in Pairs /\ r \in Running' /\ r \in DOMAIN worker /\ r \in Req
        /\ p[2] <= MaxLen - request'[r].computed /\ p[2] \in 1 .. MaxLen
    BY <1>1, <2>1 DEF Room, Pairs
  <2>3. r \in Running /\ r \notin stopped /\ r \in Unfinished
    BY <1>1, <2>2 DEF Unfinished
  <2>4. /\ r \in DOMAIN inflight[1] /\ inflight[1][r].sampled
        /\ \/ request[r].computed + 2 - request[r].placeholders >= MaxTokens
           \/ request[r].computed >= MaxLen - 1
    BY <1>4, <1>6, <2>2, <2>3 DEF RoomInv
  <2>5. r \in known
    BY <1>1, <2>3, <2>4
  <2> DEFINE c == request[r].computed  t == request[r].total  d == inflight[1][r].drafts
             j == Rejected(1, r)  a == Awaiting(r)  pl == request[r].placeholders
             c1 == request'[r].computed  t1 == request'[r].total
             s == Sampled(1, r)
  <2>6. /\ c1 = Monus(c, j) /\ t1 = t + (s - j) /\ (s > 0 => t1 < Limit)
    BY <2>3, <2>5 DEF Completes
  <2>7. /\ d \in Nat /\ s = 1 + d /\ 1 \in DOMAIN inflight
    <3>1. 1 \in DOMAIN inflight
      BY <1>3, <1>4
    <3> QED
      BY <1>2, <2>4, <3>1, FlightTypes DEF Sampled
  <2>8. j \in Nat /\ j < s
    BY <1>2, <2>7, FlightSlack
  <2>9. a = s /\ pl = a
    BY <1>4, <1>6, <2>3, AwaitsFirst DEF IInv, RequestInv
  <2>10. c \in Nat /\ t \in Nat
    BY <1>2, <2>2, RequestTypes
  <2>11. c + 1 = t + a
    BY <2>3, <2>7, <2>9 DEF ExactInv
  <2>12. Limit \in Nat /\ Limit <= MaxTokens /\ MaxTokens \in Nat /\ MaxLen \in Nat
    BY LimitType
  <2>13. c >= MaxLen - 1
    <3>1. c + 2 - pl >= MaxTokens \/ c >= MaxLen - 1
      BY <2>4
    <3> HIDE DEF c, t, d, j, a, pl, c1, t1, s
    <3> QED
      BY <2>6, <2>7, <2>8, <2>9, <2>10, <2>11, <2>12, <3>1
  <2>14. j <= c
    <3>1. c = worker[r].rows + Behind(r) /\ Behind(r) = j /\ worker[r].rows \in Nat
      BY <1>4, <1>6, <2>2, <2>3, AwaitsFirst, RunningCounts
    <3> DEFINE rows == worker[r].rows
    <3>2. c = rows + j /\ rows \in Nat
      BY <3>1
    <3> HIDE DEF c, j, rows
    <3> QED
      BY <2>8, <3>2
  <2> DEFINE k == p[2]
  <2>15. k <= MaxLen - c1 /\ k \in Nat
    BY <2>2, <2>12
  <2> HIDE DEF c, t, d, j, a, pl, c1, t1, s, k
  <2>16. k <= d + 1
    BY <2>6, <2>7, <2>8, <2>10, <2>12, <2>13, <2>14, <2>15 DEF Monus
  <2> QED
    BY <2>1, <2>2, <2>4, <2>16 DEF SpentPairs, k, d
<1>9. Cardinality(Room') <= Budget
  <2>1. SpentPairs(inflight[1]) \in SUBSET Pairs /\ Room' \in SUBSET Pairs
    BY <1>8 DEF SpentPairs
  <2>2. /\ Cardinality(Room') \in Nat /\ Cardinality(SpentPairs(inflight[1])) \in Nat
        /\ Cardinality(Room') <= Cardinality(SpentPairs(inflight[1]))
    BY <1>8, <2>1, PairsFinite
  <2>3. Cardinality(SpentPairs(inflight[1])) <= Budget
    BY <1>3, <1>4 DEF BudgetInv
  <2> QED
    BY <2>2, <2>3, ServingAssumption
<1> QED
  <2>1. Len(inflight') # 2 /\ async'
    BY <1>1, <1>2, <1>4, <1>5
  <2>2. \A x \in Running' \cap DOMAIN (worker') : x \notin InFlight'
    BY <1>7
  <2>3. DOMAIN (batch') = {}
    BY <1>1
  <2>4. DOMAIN (batch') \subseteq DOMAIN (worker')
    BY <2>3
  <2> QED
    BY <1>9, <2>1, <2>2, <2>4 DEF RoomInv

LEMMA NextRoom ==
    ASSUME IInv, IInv', ExactInv, GrantInv, BudgetInv, RoomInv, [Next]_vars
    PROVE  RoomInv'
<1>1. CASE StartStep
  BY <1>1, SameRoom DEF StartStep, queues, runner
<1>2. CASE ScheduleRunning
  BY <1>2, ScheduleRunningRoom
<1>3. CASE Preempt
  BY <1>3, PreemptRoom
<1>4. CASE Resume
  BY <1>4, ResumeAdmits, AdmitsRoom
<1>5. CASE Dispatch
  BY <1>5, DispatchSends, DispatchRoom
<1>6. CASE Settle
  BY <1>6, SameRoom DEF Settle, scheduler, queues
<1>7. CASE Complete
  BY <1>7, CompleteLeaves, CompleteRoom
<1>8. ASSUME NEW r \in Req, AdmitNew(r)
      PROVE  RoomInv'
  BY <1>8, AdmitNewAdmits, AdmitsRoom
<1>9. ASSUME NEW r \in Req, Abort(r)
      PROVE  RoomInv'
  BY <1>9, AbortRoom
<1>10. CASE UNCHANGED vars
  BY <1>10, SameRoom DEF vars, scheduler, queues, runner
<1> QED
  BY <1>1, <1>2, <1>3, <1>4, <1>5, <1>6, <1>7, <1>8, <1>9, <1>10 DEF Next

LEMMA AlwaysRoom == Spec => []RoomInv
<1>1. Init => RoomInv
  BY DEF Init, RoomInv, LastEmpty
<1>2. IInv /\ [Next]_vars => IInv'
  BY NextInv
<1>3. IInv /\ IInv' /\ (ExactInv /\ GrantInv) /\ BudgetInv /\ RoomInv /\ [Next]_vars
        => RoomInv'
  BY NextRoom
<1> QED
  BY <1>1, <1>2, <1>3, AlwaysIInv, AheadTheorem, AlwaysBudget, PTL DEF Spec

-----------------------------------------------------------------------------
(* Blocks leave the snapshot only when they are known to be full.            *)

\* The first i blocks of a table hold exactly their rows of Span(i) tokens.
LEMMA SpanLocal ==
    ASSUME NEW i \in Nat
    PROVE  Span(i) \in Nat /\ LocalTokens(Span(i)) = i * Group
<1>1. PICK g \in Nat \ {0} : Group = DcpInterleave * g /\ BlockTokens = Cycle * g
  BY Sizes
<1>2. Cycle \in Nat \ {0} /\ Rank * DcpInterleave \in Nat /\ DcpInterleave \in Nat \ {0}
  BY Sizes, GeometryAssumption
<1>3. Span(i) \in Nat
  BY SpanType
<1> DEFINE q == i * g  c == Cycle  d == DcpInterleave  n == Span(i)
<1>4. q \in Nat
  BY <1>1
<1>5. n = c * q + 0
  <2>1. n = i * (c * g)
    BY <1>1 DEF Span
  <2>2. c \in Nat
    BY <1>2
  <2> HIDE DEF c, n
  <2>3. i * (c * g) = c * (i * g)
    BY <1>1, <2>2
  <2> QED
    BY <1>4, <2>1, <2>2, <2>3
<1>6. n \div c = q /\ n % c = 0
  <2>1. 0 \in 0 .. c - 1
    BY <1>2
  <2> HIDE DEF q, c, n
  <2> QED
    BY <1>2, <1>3, <1>4, <1>5, <2>1, DivUnique DEF c, n
<1>7. LocalTokens(n) = q * d + Part(0)
  BY <1>3, <1>6, CountParts
<1>8. Part(0) = 0
  <2> DEFINE s == Rank * DcpInterleave
  <2>1. s \in Nat /\ d \in Nat \ {0}
    BY <1>2
  <2>2. Part(0) = Lesser(Monus(0, s), d)
    BY DEF Part
  <2> HIDE DEF s, d
  <2> QED
    BY <2>1, <2>2 DEF Monus, Lesser
<1>9. q * d = i * Group
  <2>1. d \in Nat /\ Group = d * g
    BY <1>1, <1>2
  <2> HIDE DEF d
  <2> QED
    BY <1>1, <2>1
<1> QED
  BY <1>2, <1>3, <1>4, <1>7, <1>8, <1>9

LEMMA SpanWhole ==
    ASSUME NEW k \in Nat, NEW n \in Nat, Span(k + 1) <= n
    PROVE  Whole(k, n)
<1>1. Span(k + 1) \in Nat /\ LocalTokens(Span(k + 1)) = (k + 1) * Group
  BY SpanLocal
<1>2. LocalTokens(Span(k + 1)) <= LocalTokens(n)
  BY <1>1, CountMonotone
<1> QED
  BY <1>1, <1>2 DEF Whole

\* A block with rows of n tokens is one of the blocks those tokens fill.
LEMMA RowsInside ==
    ASSUME NEW k \in Nat, NEW n \in Nat, NEW h \in Nat, n <= Span(h), k * Group < LocalTokens(n)
    PROVE  k + 1 <= h
<1>1. Span(h) \in Nat /\ LocalTokens(Span(h)) = h * Group
  BY SpanLocal
<1>2. LocalTokens(n) <= h * Group /\ LocalTokens(n) \in Nat
  BY <1>1, CountMonotone, CountParts
<1>3. Group \in Nat \ {0} /\ k * Group \in Nat /\ h * Group \in Nat
  BY GeometryAssumption
<1>4. ~(h <= k)
  <2>1. h <= k => Group * h <= Group * k
    BY <1>3, TimesMonotone
  <2>2. Group * h = h * Group /\ Group * k = k * Group
    BY <1>3
  <2> DEFINE a == h * Group  c == k * Group  l == LocalTokens(n)
  <2>3. a \in Nat /\ c \in Nat /\ l \in Nat /\ l <= a /\ c < l /\ (h <= k => a <= c)
    BY <1>2, <1>3, <2>1, <2>2
  <2> HIDE DEF a, c, l
  <2> QED
    BY <2>3
<1> QED
  BY <1>4

LEMMA WholeInside ==
    ASSUME NEW k \in Nat, NEW n \in Nat, NEW h \in Nat, n <= Span(h), Whole(k, n)
    PROVE  k + 1 <= h
<1>1. k * Group < LocalTokens(n)
  BY WholeBelow
<1> QED
  BY <1>1, RowsInside

LEMMA ContextRow ==
    ASSUME NEW S, NEW table \in Seq(S), NEW n \in Nat, NEW b \in BlocksOf(table, 0, n)
    PROVE  \E k \in Nat : /\ k + 1 \in DOMAIN table /\ table[k + 1] = b
                          /\ k * Group < LocalTokens(n)
<1>1. PICK pos \in Nat :
              /\ 0 <= pos /\ pos < n /\ IsLocal(pos)
              /\ Place(pos) \in Nat /\ Place(pos) + 1 \in 1 .. Len(table)
              /\ b = table[Place(pos) + 1]
  BY BlockOfRow
<1> DEFINE k == Place(pos)  row == LocalTokens(pos)  end == LocalTokens(n)
<1>2. row \div Group = k
  BY <1>1, LocalBlock DEF Place
<1>3. row \in Nat /\ end \in Nat /\ row < end
  <2>1. LocalTokens(pos + 1) = row + 1 /\ row \in Nat
    BY <1>1, LocalRow, CountParts
  <2>2. LocalTokens(pos + 1) <= end /\ end \in Nat
    <3>1. pos + 1 \in Nat /\ pos + 1 <= n
      BY <1>1
    <3> QED
      BY <3>1, CountMonotone, CountParts
  <2> HIDE DEF row, end
  <2> QED
    BY <2>1, <2>2
<1>4. Group * (row \div Group) <= row
  BY <1>3, RowBlock
<1>5. k * Group < end
  <2>1. Group \in Nat /\ k \in Nat
    BY <1>1, GeometryAssumption
  <2> HIDE DEF k, row, end
  <2>2. Group * k <= row /\ Group * k = k * Group /\ k * Group \in Nat
    BY <1>2, <1>4, <2>1
  <2> QED
    BY <1>3, <2>2
<1> QED
  BY <1>1, <1>5

\* A block below the end of an entry that the entry does not touch.
LEMMA UntouchedBehind ==
    ASSUME NEW e, Ordered(e), NEW S, e.table \in Seq(S), NEW u \in Nat, u <= MaxEnd(e),
           NEW k \in Nat, k + 1 \in 1 .. Len(e.table), k \notin Touched(e), Whole(k, u)
    PROVE  Whole(k, MinStart(e))
<1> DEFINE first == LocalTokens(MinStart(e))  last == LocalTokens(MaxEnd(e))
           n == NumLogical(e.table, last)
<1>1. MinStart(e) \in Nat /\ MaxEnd(e) \in Nat /\ MinStart(e) <= MaxEnd(e)
  BY DEF Ordered
<1>2. first \in Nat /\ last \in Nat /\ Group \in Nat \ {0}
  BY <1>1, CountParts, GeometryAssumption
<1>3. k * Group < last /\ (k + 1) * Group <= last
  <2>1. k * Group < last
    BY <1>1, WholeBelow
  <2>2. Whole(k, MaxEnd(e))
    BY <1>1, WholeMonotone
  <2> QED
    BY <2>1, <2>2 DEF Whole
<1>4. k \in 0 .. n - 1 /\ n \in Nat
  BY <1>2, <1>3, LogicalBlock, NumLogicalBound
<1>5. CASE first < last
  <2>1. k <= (last - 1) \div Group
    <3>1. k * Group <= last - 1 /\ last - 1 \in Nat /\ k * Group \in Nat
      BY <1>2, <1>3, <1>5
    <3>2. (k * Group) \div Group <= (last - 1) \div Group
      BY <1>2, <3>1, DivMonotone
    <3>3. (k * Group) \div Group = k
      <4>1. 0 \in 0 .. Group - 1 /\ k * Group = Group * k + 0
        BY <1>2
      <4> QED
        BY <1>2, <3>1, <4>1, DivUnique
    <3> QED
      BY <3>2, <3>3
  <2>2. Touched(e) = first \div Group .. Lesser((last - 1) \div Group, n - 1)
    <3>1. n > 0
      BY <1>4
    <3> QED
      BY <1>5, <3>1 DEF Touched
  <2>3. (last - 1) \div Group \in Nat /\ first \div Group \in Nat
    <3>1. last - 1 \in Nat
      BY <1>2, <1>5
    <3> HIDE DEF first, last
    <3> QED
      BY <1>2, <3>1, DivMod
  <2>4. k < first \div Group
    <3> DEFINE f == first \div Group  l == (last - 1) \div Group
    <3>1. k \notin f .. Lesser(l, n - 1) /\ k <= l /\ k <= n - 1 /\ f \in Nat /\ l \in Nat
      BY <1>4, <2>1, <2>2, <2>3
    <3> DEFINE m == Lesser(l, n - 1)
    <3> HIDE DEF f, l, n
    <3>2. m \in Int /\ k <= m
      BY <1>4, <3>1 DEF Lesser
    <3>3. k \notin f .. m
      BY <3>1
    <3> HIDE DEF m
    <3>4. k < f
      BY <3>1, <3>2, <3>3
    <3> QED
      BY <3>4 DEF f
  <2> QED
    BY <1>1, <2>4, BeforeRow
<1>6. CASE ~(first < last)
  <2>1. (k + 1) * Group \in Nat
    BY <1>2
  <2>2. (k + 1) * Group <= first
    BY <1>2, <1>3, <1>6, <2>1
  <2> QED
    BY <2>2 DEF Whole
<1> QED
  BY <1>5, <1>6

-----------------------------------------------------------------------------
(* The invariant behind LeavesOnlyFull.  A block is Packed if it has left    *)
(* the snapshot or is published full in it.  For every request the worker    *)
(* knows there are two marks, p <= n, in tokens: the blocks whole below p    *)
(* are packed; those whole below n are said to be full by all that the       *)
(* tracker still says of them, and are packed too unless the correction that *)
(* says so has not been published yet, or an empty batch was sent last; and  *)
(* every block with rows beyond n is kept or pending.  While the counts of a *)
(* batch are unsettled both marks are the end the batch is sure to reach     *)
(* (no draft accepted); settling moves n to the end it did reach, and the    *)
(* next step moves p.                                                        *)

\* The block has left the snapshot, or it was published full.
Packed(b) == b \in needed => b \in full

\* The i-th batch in flight is the last one that has the request.
NewestIn(r, i) ==
    /\ i \in DOMAIN inflight /\ r \in DOMAIN inflight[i]
    /\ \A j \in DOMAIN inflight : j > i => r \notin DOMAIN inflight[j]

\* What is still said of a block of a request says that it is full.
NamedFull(r, b) ==
    /\ b \in DOMAIN requestBlocks[r] => requestBlocks[r][b] = Group
    /\ b \in DOMAIN resolvedBlocks[r] => resolvedBlocks[r][b] = Group

\* Two marks of a request: the blocks its first p tokens fill are packed, those
\* its first n tokens fill are packed or about to be published as full; what is
\* behind the marks is still kept exact.
MarkedBlock(r, p, n, k, b) ==
    /\ Whole(k, n) => NamedFull(r, b)
    /\ Whole(k, p) => Packed(b)
    /\ Whole(k, n) => Packed(b) \/ b \in DOMAIN resolvedBlocks[r] \/ LastEmpty
    /\ r \notin DOMAIN unsettled /\ k * Group < LocalTokens(worker[r].rows)
          => b \in DOMAIN requestBlocks[r] \/ Whole(k, n)
    /\ r \in DOMAIN unsettled =>
        /\ k * Group < LocalTokens(unsettled[r])
              => \/ b \in DOMAIN requestBlocks[r] \cup DOMAIN pendingBlocks[r]
                 \/ Whole(k, p)
        /\ Whole(k, unsettled[r]) => b \in DOMAIN pendingBlocks[r] \/ Whole(k, p)

\* The first mark is where the scheduler's count would be if the drafts in
\* flight were all rejected.
Ahead(r, p) ==
    /\ Monus(request[r].computed, Lookahead) <= p
    /\ \A i \in Nat : NewestIn(r, i) => request[r].computed <= p + inflight[i][r].drafts

Marked(r, p, n) ==
    /\ p <= n
    /\ r \in Running => Ahead(r, p)
    /\ r \notin DOMAIN unsettled => worker[r].rows <= n
    /\ r \in DOMAIN unsettled => worker[r].rows <= unsettled[r] /\ n <= unsettled[r]
    /\ \A k \in Nat : k + 1 \in DOMAIN worker[r].ids
                         => MarkedBlock(r, p, n, k, worker[r].ids[k + 1])

MarksInv == \A r \in DOMAIN worker : \E p, n \in Nat : Marked(r, p, n)

CachedFull ==
    \A b \in Block : cachedAt[b] \in 1 .. Hittable(MaxLen - 1) => Arriving(b) \/ Packed(b)

FullInv == LeavesOnlyFull /\ CachedFull /\ MarksInv

\* Steps that leave the worker, the queue and the tracker alone.
LEMMA KeepsMarks ==
    ASSUME MarksInv,
           UNCHANGED <<inflight, worker, unsettled, needed, full, requestBlocks, pendingBlocks,
                       resolvedBlocks>>,
           \A r \in Running' \cap DOMAIN worker :
              r \in Running /\ request'[r].computed = request[r].computed
    PROVE  MarksInv'
<1> SUFFICES ASSUME NEW r \in DOMAIN worker
             PROVE  \E p, n \in Nat : Marked(r, p, n)'
  BY DEF MarksInv
<1>1. PICK p \in Nat, n \in Nat : Marked(r, p, n)
  BY DEF MarksInv
<1>2. ASSUME NEW k, NEW b, MarkedBlock(r, p, n, k, b)
      PROVE  MarkedBlock(r, p, n, k, b)'
  BY <1>2 DEF MarkedBlock, NamedFull, Packed, LastEmpty
<1>3. ASSUME r \in Running' PROVE Ahead(r, p)'
  BY <1>1, <1>3 DEF Marked, Ahead, NewestIn
<1>4. Marked(r, p, n)'
  BY <1>1, <1>2, <1>3 DEF Marked
<1> QED
  BY <1>4

LEMMA SameFull ==
    ASSUME FullInv,
           UNCHANGED <<inflight, worker, unsettled, needed, full, lost, cachedAt, batch,
                       requestBlocks, pendingBlocks, resolvedBlocks>>,
           \A r \in DOMAIN batch : request'[r] = request[r],
           \A r \in Running' \cap DOMAIN worker :
              r \in Running /\ request'[r].computed = request[r].computed
    PROVE  FullInv'
<1>1. MarksInv'
  BY KeepsMarks DEF FullInv
<1>2. ASSUME NEW b, Arriving(b) PROVE Arriving(b)'
  BY <1>2 DEF Arriving
<1>3. ASSUME NEW b, Packed(b) PROVE Packed(b)'
  BY <1>3 DEF Packed
<1>4. CachedFull'
  BY <1>2, <1>3 DEF FullInv, CachedFull
<1> QED
  BY <1>1, <1>4 DEF FullInv, LeavesOnlyFull

LEMMA GrantsFull ==
    ASSUME IInv, IInv', LayoutInv, FullInv,
           NEW r, NEW kept, NEW new, NEW g, Grants(r, kept, new, g), Keeps(r, kept, g),
           \A x \in Running' \cap DOMAIN worker :
              x \in Running /\ request'[x].computed = request[x].computed
    PROVE  FullInv'
<1> DEFINE t == request'[r].table
<1>1. /\ UNCHANGED <<inflight, worker, unsettled, needed, full, lost, requestBlocks,
                      pendingBlocks, resolvedBlocks>>
      /\ DOMAIN (batch') = DOMAIN batch \cup {r} /\ batch'[r] = g /\ r \notin DOMAIN batch
      /\ \A x \in DOMAIN batch : batch'[x] = batch[x]
      /\ \A x \in Req : x # r => request'[x] = request[x]
      /\ r \in Req /\ kept \in Seq(Block)
  BY DEF Grants
<1>2. MarksInv'
  BY <1>1, KeepsMarks DEF FullInv
<1>3. ASSUME NEW b, Packed(b) PROVE Packed(b)'
  BY <1>1, <1>3 DEF Packed
<1>4. ASSUME NEW b, Arriving(b) PROVE Arriving(b)'
  <2>1. PICK x \in DOMAIN batch : \E i \in DOMAIN request[x].table :
          /\ request[x].table[i] = b
          /\ Span(i) <= batch[x].start + batch[x].sched /\ Span(i) <= request[x].total
          /\ x \in DOMAIN worker \/ batch[x].start < Span(i)
    BY <1>4 DEF Arriving
  <2>2. x \in Req /\ x # r
    BY <1>1, BatchTypes DEF IInv
  <2>3. x \in DOMAIN (batch') /\ batch'[x] = batch[x] /\ request'[x] = request[x]
    BY <1>1, <2>2
  <2> QED
    BY <1>1, <2>1, <2>3 DEF Arriving
<1>5. CachedFull'
  <2> SUFFICES ASSUME NEW b \in Block, cachedAt'[b] \in 1 .. Hittable(MaxLen - 1)
               PROVE  Arriving(b)' \/ Packed(b)'
    BY DEF CachedFull, Hittable
  <2>1. cachedAt'[b] > 0
    OBVIOUS
  <2>2. \/ \E i \in DOMAIN t : /\ t[i] = b /\ cachedAt'[b] = i
                               /\ Span(i) <= g.start + g.sched
                               /\ Span(i) <= request'[r].total
        \/ b \notin Range(new) /\ cachedAt'[b] = cachedAt[b]
    BY <2>1, GrantedBlocks
  <2>3. CASE cachedAt'[b] = cachedAt[b]
    BY <1>3, <1>4, <2>3 DEF FullInv, CachedFull
  <2>4. ASSUME NEW i \in DOMAIN t, t[i] = b, cachedAt'[b] = i,
               Span(i) <= g.start + g.sched, Span(i) <= request'[r].total,
               r \in DOMAIN worker \/ g.start < Span(i)
        PROVE  Arriving(b)'
    BY <1>1, <2>4 DEF Arriving
  <2>5. ASSUME NEW i \in DOMAIN t, t[i] = b, cachedAt'[b] = i,
               r \notin DOMAIN worker, ~(g.start < Span(i))
        PROVE  cachedAt'[b] = cachedAt[b]
    <3>1. g.start = Span(Len(kept)) /\ \A j \in DOMAIN kept : cachedAt[kept[j]] = j
      BY <2>5 DEF Keeps
    <3>2. i \in Nat \ {0} /\ Len(kept) \in Nat /\ DOMAIN kept = 1 .. Len(kept)
      BY <1>1, <2>5, NewRequestTypes
    <3>3. ~(Len(kept) < i)
      BY <2>5, <3>1, <3>2, SpanMonotone
    <3>4. i \in DOMAIN kept
      BY <3>2, <3>3
    <3>5. t[i] = kept[i]
      BY <3>4, GrantedBlocks
    <3> QED
      BY <2>5, <3>1, <3>4, <3>5
  <2> QED
    BY <2>2, <2>3, <2>4, <2>5
<1> QED
  BY <1>1, <1>2, <1>5 DEF FullInv, LeavesOnlyFull

LEMMA ScheduleRunningFull ==
    ASSUME IInv, IInv', Sharing, FullInv, ScheduleRunning
    PROVE  FullInv'
<1>1. PICK r, new, g :
        /\ r \in Running /\ Grants(r, request[r].table, new, g)
        /\ r \in DOMAIN worker
        /\ running' = running
        /\ request'[r].computed = request[r].computed
  BY ScheduleRunningGrants
<1>2. Running' = Running /\ Running \subseteq Req
  BY <1>1, RunningTypes DEF Running, IInv
<1>3. Keeps(r, request[r].table, g)
  BY <1>1, ScheduleRunningKeeps DEF Sharing
<1>4. \A x \in Req : x # r => request'[x] = request[x]
  BY <1>1 DEF Grants
<1>5. \A x \in Running' \cap DOMAIN worker :
              x \in Running /\ request'[x].computed = request[x].computed
  BY <1>1, <1>2, <1>4
<1> QED
  BY <1>1, <1>3, <1>5, GrantsFull DEF Sharing

LEMMA AdmitsFull ==
    ASSUME IInv, IInv', ExactInv, Sharing, FullInv,
           NEW r, NEW total, NEW hit, NEW new, NEW g, Admits(r, total, hit, new, g)
    PROVE  FullInv'
<1>1. /\ Grants(r, hit, new, g) /\ r \notin DOMAIN worker
      /\ Running' = Running \cup {r}
  BY DEF Admits
<1>2. \A x \in Req : x # r => request'[x] = request[x]
  BY <1>1 DEF Grants
<1>3. Running \subseteq Req
  BY RunningTypes DEF IInv
<1>4. Keeps(r, hit, g)
  BY AdmitsKeeps DEF Sharing
<1>5. \A x \in Running' \cap DOMAIN worker :
              x \in Running /\ request'[x].computed = request[x].computed
  BY <1>1, <1>2, <1>3
<1> QED
  BY <1>1, <1>4, <1>5, GrantsFull DEF Sharing

LEMMA PreemptFull ==
    ASSUME IInv, FullInv, Preempt
    PROVE  FullInv'
<1>1. PICK v : Gives(v)
  BY PreemptGives
<1>2. /\ UNCHANGED <<inflight, worker, unsettled, needed, full, lost, cachedAt, batch,
                      requestBlocks, pendingBlocks, resolvedBlocks>>
      /\ Running' = Running \ {v} /\ \A x \in Req : x # v => request'[x] = request[x]
      /\ v \notin DOMAIN batch
  BY <1>1 DEF Gives
<1>3. Running \subseteq Req /\ DOMAIN batch \subseteq Req
  BY RunningTypes, BatchTypes DEF IInv
<1>4. /\ \A r \in DOMAIN batch : request'[r] = request[r]
      /\ \A r \in Running' \cap DOMAIN worker :
              r \in Running /\ request'[r].computed = request[r].computed
  BY <1>2, <1>3
<1> QED
  BY <1>2, <1>4, SameFull

LEMMA AbortFull ==
    ASSUME IInv, FullInv, NEW r \in Req, Abort(r)
    PROVE  FullInv'
<1>1. /\ UNCHANGED <<inflight, worker, unsettled, needed, full, lost, cachedAt, batch,
                      requestBlocks, pendingBlocks, resolvedBlocks>>
      /\ Running' = Running \ {r} /\ \A x \in Req : x # r => request'[x] = request[x]
      /\ DOMAIN batch = {}
  BY AbortLeaves
<1>2. Running \subseteq Req
  BY RunningTypes DEF IInv
<1>3. /\ \A x \in DOMAIN batch : request'[x] = request[x]
      /\ \A x \in Running' \cap DOMAIN worker :
              x \in Running /\ request'[x].computed = request[x].computed
  BY <1>1, <1>2
<1> QED
  BY <1>1, <1>3, SameFull

LEMMA StartStepFull ==
    ASSUME FullInv, StartStep \/ UNCHANGED vars
    PROVE  FullInv'
<1>1. UNCHANGED <<inflight, worker, unsettled, needed, full, lost, cachedAt, batch,
                  requestBlocks, pendingBlocks, resolvedBlocks, request, running>>
  BY DEF StartStep, vars, scheduler, queues, runner, tracker
<1>2. Running' = Running
  BY <1>1 DEF Running
<1> QED
  BY <1>1, <1>2, SameFull

LEMMA InitFull == Init => FullInv
<1> SUFFICES ASSUME Init PROVE FullInv
  OBVIOUS
<1>1. lost = {} /\ DOMAIN worker = {} /\ needed = {}
  BY NoPartial DEF Init, NoBatch
<1> QED
  BY <1>1 DEF FullInv, LeavesOnlyFull, CachedFull, MarksInv, Packed

\* What resolve_async corrects of a pending block, and what it says of any
\* block of the request afterwards.
LEMMA CorrectedAt ==
    ASSUME NEW r, NEW u \in Nat, NEW k \in Nat, NEW b \in DOMAIN pendingBlocks[r],
           pendingBlocks[r][b] = k, NEW f, f = Corrected(r, u)
    PROVE  /\ DOMAIN f \subseteq DOMAIN pendingBlocks[r]
           /\ k * Group < LocalTokens(u) => b \in DOMAIN f
           /\ b \in DOMAIN f => f[b] = BlockFill(LocalTokens(u), k)
<1> DEFINE end == LocalTokens(u)
<1>1. end \in Nat /\ Group \in Nat \ {0} /\ k * Group \in Nat
  BY CountParts, GeometryAssumption
<1>2. k * Group < end => BlockFill(end, k) > 0
  <2> DEFINE m == k * Group
  <2>1. BlockFill(end, k) = Lesser(Group, Monus(end, m))
    BY DEF BlockFill
  <2> HIDE DEF end, m
  <2>2. m < end => Lesser(Group, Monus(end, m)) > 0
    BY <1>1 DEF Lesser, Monus, m
  <2> QED
    BY <2>1, <2>2 DEF m
<1> QED
  BY <1>2 DEF Corrected

RebuiltBlock(r, f, u, k, b) ==
    /\ b \in DOMAIN f /\ Whole(k, u) =>
          \/ f[b] = Group
          \/ /\ b \notin DOMAIN pendingBlocks[r] /\ b \in DOMAIN requestBlocks[r]
             /\ f[b] = requestBlocks[r][b]
    /\ k * Group < LocalTokens(u) /\ b \in DOMAIN requestBlocks[r] \cup DOMAIN pendingBlocks[r]
          => b \in DOMAIN f \/ Whole(k, u)

LEMMA RebuiltAt ==
    ASSUME NEW r, NEW u \in Nat, NEW S, NEW table \in Seq(S), Distinct(table),
           NEW k \in Nat, k + 1 \in 1 .. Len(table), NEW b, b = table[k + 1],
           b \in DOMAIN pendingBlocks[r] => pendingBlocks[r][b] = k,
           NEW f, f = Rebuilt(r, table, u)
    PROVE  RebuiltBlock(r, f, u, k, b)
<1> DEFINE end == LocalTokens(u)
<1>1. end \in Nat
  BY CountParts
<1>2. CASE r \in fullContext
  <2> DEFINE kept == DOMAIN requestBlocks[r] \ DOMAIN pendingBlocks[r]
             g == [c \in kept |-> requestBlocks[r][c]]
             h == Corrected(r, u)
  <2>1. f = Merge(g, h)
    BY <1>2 DEF Rebuilt
  <2>2. DOMAIN g = kept /\ DOMAIN h \subseteq DOMAIN pendingBlocks[r]
    BY DEF Corrected
  <2> HIDE DEF h
  <2>3. /\ DOMAIN f = DOMAIN g \cup DOMAIN h
        /\ b \in DOMAIN g => b \notin DOMAIN h /\ f[b] = g[b]
        /\ b \in DOMAIN h => b \notin DOMAIN g /\ f[b] = h[b]
    BY <2>1, <2>2 DEF Merge
  <2>4. CASE b \in DOMAIN pendingBlocks[r]
    <3>1. /\ k * Group < end => b \in DOMAIN h
          /\ b \in DOMAIN h => h[b] = BlockFill(end, k)
      BY <2>4, CorrectedAt DEF h
    <3>2. Whole(k, u) => BlockFill(end, k) = Group
      BY WholeFill
    <3> QED
      BY <2>2, <2>3, <2>4, <3>1, <3>2 DEF RebuiltBlock
  <2>5. CASE b \notin DOMAIN pendingBlocks[r]
    <3>1. b \notin DOMAIN h
      BY <2>2, <2>5
    <3>2. b \in DOMAIN f <=> b \in DOMAIN requestBlocks[r]
      BY <2>2, <2>3, <2>5, <3>1
    <3>3. b \in DOMAIN f => f[b] = requestBlocks[r][b]
      BY <2>2, <2>3, <2>5, <3>2
    <3> QED
      BY <2>5, <3>2, <3>3 DEF RebuiltBlock
  <2> QED
    BY <2>4, <2>5
<1>3. CASE r \notin fullContext
  <2> DEFINE n == NumLogical(table, end)
             tail == LocalTokens(Monus(u, PrecisionTail))
             K == Kept(n, end, tail)
  <2>1. f = FillsOf(table, K, end)
    BY <1>3 DEF Rebuilt, PersistentBlocks
  <2>2. n \in Nat /\ K \in SUBSET (0 .. n - 1)
    BY <1>1, NumLogicalBound DEF Kept
  <2>3. K \in SUBSET Nat /\ \A j \in K : j + 1 \in 1 .. Len(table)
    BY <1>1, <2>2, NumLogicalBound
  <2>4. k * Group < end => k \in K \/ Whole(k, u)
    <3>1. k * Group < end => k \in 0 .. n - 1
      BY <1>1, LogicalBlock
    <3>2. k \in 0 .. n - 1 /\ k >= Monus(Blocks(end), 1) => k \in K
      BY DEF Kept
    <3>3. k < Monus(Blocks(end), 1) => Whole(k, u)
      BY BeforeLast
    <3>4. Monus(Blocks(end), 1) \in Int
      <4>1. Blocks(end) \in Int
        <5>1. Group \in Nat \ {0}
          BY GeometryAssumption
        <5> HIDE DEF end
        <5>2. end + Group - 1 \in Nat
          BY <1>1, <5>1
        <5> QED
          BY <5>1, <5>2, DivMod DEF Blocks
      <4> QED
        BY <4>1 DEF Monus
    <3>5. k < Monus(Blocks(end), 1) \/ k >= Monus(Blocks(end), 1)
      BY <3>4
    <3> QED
      BY <3>1, <3>2, <3>3, <3>5
  <2> HIDE DEF K
  <2>5. b \in DOMAIN f => k \in K
    <3> SUFFICES ASSUME b \in DOMAIN f PROVE k \in K
      OBVIOUS
    <3>1. PICK j \in K : table[j + 1] = b
      BY <2>1 DEF FillsOf
    <3>2. j + 1 \in DOMAIN table /\ k + 1 \in DOMAIN table /\ j \in Nat
      BY <2>3
    <3>3. j + 1 = k + 1
      BY <3>1, <3>2 DEF Distinct
    <3> QED
      BY <3>2, <3>3
  <2>6. k \in K => b \in DOMAIN f /\ f[b] = BlockFill(end, k)
    BY <2>1, <2>3, FillAt
  <2>7. Whole(k, u) => BlockFill(end, k) = Group
    BY WholeFill
  <2> QED
    BY <2>4, <2>5, <2>6, <2>7 DEF RebuiltBlock
<1> QED
  BY <1>2, <1>3

\* Once the counts of a batch are known the second mark is where it ended.
LEMMA SettledBlock ==
    ASSUME IInv, LayoutInv, PendingInv, Settle, NEW r \in DOMAIN unsettled,
           NEW u, u = unsettled[r], NEW p \in Nat, NEW n \in Nat, p <= n, n <= u,
           worker[r].rows <= u,
           NEW k \in Nat, k + 1 \in DOMAIN worker[r].ids, NEW b, b = worker[r].ids[k + 1],
           MarkedBlock(r, p, n, k, b)
    PROVE  MarkedBlock(r, p, u, k, b)'
<1> DEFINE ids == worker[r].ids  pending == pendingBlocks[r]
<1>1. /\ r \in Req /\ r \in DOMAIN worker /\ ids \in Seq(Block)
      /\ DOMAIN ids = 1 .. Len(ids) /\ worker[r].rows \in Nat /\ u \in Nat
  <2>1. r \in DOMAIN worker /\ unsettled \in Partial(Req, Nat)
    BY DEF IInv, TypesInv
  <2> QED
    BY <2>1, StateTypes, PartialParts DEF IInv
<1>2. Distinct(ids)
  BY <1>1 DEF LayoutInv, Distinct
<1>3. /\ UNCHANGED <<inflight, worker, needed, full>> /\ unsettled' = NoBatch
      /\ DOMAIN (unsettled') = {}
  BY NoPartial DEF Settle, NoBatch
<1>4. ResolveAsync(unsettled, [x \in DOMAIN worker |-> worker[x].ids])
  BY DEF Settle
<1>5. b \in DOMAIN pending => pending[b] = k
  <2> SUFFICES ASSUME b \in DOMAIN pending PROVE pending[b] = k
    OBVIOUS
  <2>1. pending[b] + 1 \in DOMAIN ids /\ ids[pending[b] + 1] = b
    BY <1>1 DEF PendingInv
  <2>2. pending[b] + 1 = k + 1
    BY <1>2, <2>1 DEF Distinct
  <2>3. pending[b] \in Nat
    BY <1>1, PlacingParts DEF IInv, TrackedInv
  <2> QED
    BY <2>2, <2>3
<1>6. DOMAIN resolvedBlocks[r] = {}
  BY <1>1 DEF PendingInv
<1>7. Whole(k, p) => Packed(b) /\ Whole(k, n) /\ Whole(k, u)
  BY <1>1, WholeMonotone DEF MarkedBlock
<1>8. /\ k * Group < LocalTokens(u)
              => b \in DOMAIN requestBlocks[r] \cup DOMAIN pending \/ Whole(k, p)
      /\ Whole(k, u) => b \in DOMAIN pending \/ Whole(k, p)
      /\ Whole(k, n) => NamedFull(r, b)
      /\ Whole(k, p) => Packed(b)
  BY DEF MarkedBlock
<1>9. k * Group < LocalTokens(worker[r].rows) => k * Group < LocalTokens(u)
  <2> DEFINE m == k * Group  x == LocalTokens(worker[r].rows)  y == LocalTokens(u)
  <2>1. m \in Nat /\ x \in Nat /\ y \in Nat /\ x <= y
    <3>1. Group \in Nat /\ m \in Nat
      BY GeometryAssumption
    <3>2. x \in Nat /\ y \in Nat
      BY <1>1, CountParts
    <3>3. x <= y
      BY <1>1, CountMonotone
    <3> QED
      BY <3>1, <3>2, <3>3
  <2> HIDE DEF m, x, y
  <2>2. m < x => m < y
    BY <2>1
  <2> QED
    BY <2>2 DEF m, x, y
<1>10. Packed(b)' <=> Packed(b)
  BY <1>3 DEF Packed
<1> SUFFICES /\ Whole(k, u) => NamedFull(r, b)'
             /\ Whole(k, u) => Packed(b) \/ b \in DOMAIN resolvedBlocks'[r]
             /\ k * Group < LocalTokens(worker[r].rows)
                   => b \in DOMAIN requestBlocks'[r] \/ Whole(k, u)
  BY <1>3, <1>7, <1>8, <1>10 DEF MarkedBlock, LastEmpty
<1>11. CASE DOMAIN pending = {}
  <2>1. requestBlocks'[r] = requestBlocks[r] /\ resolvedBlocks'[r] = resolvedBlocks[r]
    BY <1>1, <1>4, <1>11 DEF ResolveAsync
  <2> QED
    BY <1>6, <1>7, <1>8, <1>9, <1>11, <2>1 DEF NamedFull
<1>12. CASE DOMAIN pending # {}
  <2> DEFINE f == requestBlocks'[r]  h == resolvedBlocks'[r]
  <2>1. f = Rebuilt(r, ids, u) /\ h = Corrected(r, u)
    BY <1>1, <1>4, <1>12 DEF ResolveAsync
  <2>2. RebuiltBlock(r, f, u, k, b)
    BY <1>1, <1>2, <1>5, <2>1, RebuiltAt
  <2>3. DOMAIN h \subseteq DOMAIN pending
    BY <2>1 DEF Corrected
  <2>4. b \in DOMAIN pending =>
          /\ k * Group < LocalTokens(u) => b \in DOMAIN h
          /\ b \in DOMAIN h => h[b] = BlockFill(LocalTokens(u), k)
    BY <1>1, <1>5, <2>1, CorrectedAt
  <2>5. Whole(k, u) => BlockFill(LocalTokens(u), k) = Group /\ k * Group < LocalTokens(u)
    BY <1>1, WholeFill, WholeBelow
  <2> HIDE DEF f, h
  <2>6. Whole(k, u) => Packed(b) \/ b \in DOMAIN h
    BY <1>8, <2>4, <2>5
  <2>7. k * Group < LocalTokens(worker[r].rows) => b \in DOMAIN f \/ Whole(k, u)
    BY <1>7, <1>8, <1>9, <2>2 DEF RebuiltBlock
  <2>8. Whole(k, u) /\ b \in DOMAIN f => f[b] = Group
    BY <1>7, <1>8, <2>2 DEF RebuiltBlock, NamedFull
  <2>9. Whole(k, u) /\ b \in DOMAIN h => h[b] = Group
    BY <2>3, <2>4, <2>5
  <2> QED
    BY <2>6, <2>7, <2>8, <2>9 DEF NamedFull, f, h
<1> QED
  BY <1>11, <1>12

LEMMA SettleFull ==
    ASSUME IInv, LayoutInv, PendingInv, FullInv, Settle
    PROVE  FullInv'
<1>1. /\ UNCHANGED <<request, running, batch, cachedAt, inflight, worker, needed, full, lost>>
      /\ unsettled' = NoBatch /\ DOMAIN (unsettled') = {}
  BY NoPartial DEF Settle, scheduler, queues, NoBatch
<1>2. ResolveAsync(unsettled, [x \in DOMAIN worker |-> worker[x].ids])
  BY DEF Settle
<1>3. MarksInv'
  <2> SUFFICES ASSUME NEW r \in DOMAIN worker
               PROVE  \E p, n \in Nat : Marked(r, p, n)'
    BY <1>1 DEF MarksInv
  <2>1. PICK p \in Nat, n \in Nat : Marked(r, p, n)
    BY DEF MarksInv, FullInv
  <2>2. r \in Req /\ worker[r].rows \in Nat
    BY StateTypes DEF IInv
  <2>3. r \in Running' => Ahead(r, p)'
    <3>1. Running' = Running
      BY <1>1 DEF Running
    <3> QED
      BY <1>1, <2>1, <3>1 DEF Marked, Ahead, NewestIn
  <2>4. CASE r \in DOMAIN unsettled
    <3>1. PICK u \in Nat : u = unsettled[r]
      <4>1. unsettled \in Partial(Req, Nat)
        BY DEF IInv, TypesInv
      <4> QED
        BY <2>4, <4>1, PartialParts
    <3>2. p <= n /\ n <= u /\ worker[r].rows <= u
      BY <2>1, <2>4, <3>1 DEF Marked
    <3>3. p <= u
      BY <3>1, <3>2
    <3>4. ASSUME NEW k \in Nat, k + 1 \in DOMAIN worker[r].ids,
                 NEW b, b = worker[r].ids[k + 1]
          PROVE  MarkedBlock(r, p, u, k, b)'
      <4>1. MarkedBlock(r, p, n, k, b)
        BY <2>1, <3>4 DEF Marked
      <4> QED
        BY <2>4, <3>1, <3>2, <3>4, <4>1, SettledBlock
    <3>5. Marked(r, p, u)'
      BY <1>1, <2>3, <3>2, <3>3, <3>4 DEF Marked
    <3> QED
      BY <3>1, <3>5
  <2>5. CASE r \notin DOMAIN unsettled
    <3>1. requestBlocks'[r] = requestBlocks[r] /\ resolvedBlocks'[r] = resolvedBlocks[r]
      BY <1>2, <2>2, <2>5 DEF ResolveAsync
    <3>2. ASSUME NEW k, NEW b, MarkedBlock(r, p, n, k, b)
          PROVE  MarkedBlock(r, p, n, k, b)'
      BY <1>1, <2>5, <3>1, <3>2 DEF MarkedBlock, NamedFull, Packed, LastEmpty
    <3>3. Marked(r, p, n)'
      BY <1>1, <2>1, <2>3, <2>5, <3>2 DEF Marked
    <3> QED
      BY <3>3
  <2> QED
    BY <2>4, <2>5
<1>4. CachedFull'
  BY <1>1 DEF FullInv, CachedFull, Arriving, Packed
<1> QED
  BY <1>1, <1>3, <1>4 DEF FullInv, LeavesOnlyFull

\* What the rows say of a block at a place of the table that the marks reach.
LEMMA MarkedSpan ==
    ASSUME IInv, NEW r \in DOMAIN worker, NEW p \in Nat, NEW n \in Nat, Marked(r, p, n),
           NEW i \in DOMAIN worker[r].ids, NEW b, b = worker[r].ids[i]
    PROVE  /\ Span(i) <= p => Packed(b)
           /\ Span(i) <= n => /\ NamedFull(r, b)
                              /\ Packed(b) \/ b \in DOMAIN resolvedBlocks[r] \/ LastEmpty
<1>1. i \in Nat \ {0}
  BY StateTypes DEF IInv
<1>2. PICK k \in Nat : i = k + 1
  BY <1>1
<1>3. MarkedBlock(r, p, n, k, b)
  BY <1>2 DEF Marked
<1>4. /\ Span(i) <= p => Whole(k, p)
      /\ Span(i) <= n => Whole(k, n)
  BY <1>2, SpanWhole
<1> QED
  BY <1>3, <1>4 DEF MarkedBlock

\* A block the scheduler caches when an outcome arrives is packed by then.
LEMMA CompletePacks ==
    ASSUME UseEagle, Lookahead <= BlockTokens + 1,
           IInv, ExactInv, LayoutInv, PendingInv, RoomInv, FullInv, Complete,
           NEW b \in Block, cachedAt'[b] # cachedAt[b], cachedAt'[b] <= Hittable(MaxLen - 1)
    PROVE  Packed(b)
<1>1. PICK r, i, kept :
              /\ CachesFor(r, i, b)
              /\ async /\ 1 \in DOMAIN inflight /\ r \in DOMAIN inflight[1]
              /\ inflight[1][r].sampled
              /\ kept \in Nat \ {0} /\ kept + Rejected(1, r) <= Sampled(1, r)
              /\ request[r].total + kept <= Limit
              /\ Span(i) <= request[r].total + kept - 1
  BY CompleteCaches
<1>2. PICK known, stopped : Completes(known, stopped)
  BY CompleteLeaves
<1>3. /\ r \in Running /\ r \in DOMAIN worker /\ r \in Req
      /\ i \in DOMAIN worker[r].ids /\ b = worker[r].ids[i] /\ cachedAt'[b] = i
      /\ Span(i) <= worker[r].rows /\ i \in Nat \ {0} /\ Span(i) \in Nat
  <2>1. /\ r \in Running /\ r \in DOMAIN worker /\ i \in DOMAIN request[r].table
        /\ request[r].table[i] = b /\ cachedAt'[b] = i /\ Span(i) <= worker[r].rows
    BY <1>1 DEF CachesFor
  <2>2. DOMAIN batch = {}
    BY <1>2 DEF Completes
  <2>3. worker[r].ids = request[r].table
    BY <2>1, <2>2 DEF LayoutInv
  <2>4. r \in Req /\ i \in Nat \ {0}
    BY <2>1, <2>3, StateTypes DEF IInv
  <2>5. Span(i) \in Nat
    BY <2>4, SpanType
  <2> QED
    BY <2>1, <2>3, <2>4, <2>5
<1>4. inflight \in Seq(Partial(Req, Outcome)) /\ TypesInv /\ FlightInv
  BY DEF IInv, TypesInv
<1>5. Len(inflight) = 2 /\ DOMAIN inflight = {1, 2}
  <2>1. HasRequests
    BY <1>3 DEF HasRequests, Unfinished
  <2>2. Len(inflight) = Depth
    BY <1>2, <2>1 DEF Completes
  <2>3. Len(inflight) = 2
    BY <1>1, <2>2 DEF Depth
  <2> QED
    BY <1>4, <2>3
<1> DEFINE c == request[r].computed  t == request[r].total
           R1 == Rejected(1, r)  S1 == Sampled(1, r)  S2 == Sampled(2, r)
           d1 == inflight[1][r].drafts  d2 == inflight[2][r].drafts
<1>6. /\ c \in Nat /\ t \in Nat /\ R1 \in Nat /\ S1 \in Nat /\ S2 \in Nat /\ d1 \in Nat
      /\ S1 = 1 + d1 /\ c + 1 = t + S1 + S2 /\ kept <= S1 /\ kept \in Nat \ {0}
      /\ t \in Nat \ {0}
  <2>1. /\ c \in Nat /\ t \in Nat /\ R1 \in Nat /\ S1 \in Nat /\ S2 \in Nat
        /\ Awaiting(r) = S1 + S2 /\ r \in Unfinished
    BY <1>3, RunningCounts
  <2>2. d1 \in Nat /\ S1 = 1 + d1
    BY <1>1, <1>4, FlightTypes DEF Sampled
  <2>3. Awaiting(r) > 0
    BY <2>1, <2>2
  <2>4. c + 1 = t + Awaiting(r)
    BY <1>3, <2>3 DEF ExactInv
  <2>5. kept \in Nat /\ kept + R1 <= S1
    BY <1>1
  <2>6. t \in 1 .. Limit
    BY <1>3, <2>1 DEF IInv, RequestInv
  <2> HIDE DEF c, t, R1, S1, S2, d1
  <2> QED
    BY <1>1, <2>1, <2>2, <2>4, <2>5, <2>6
<1>7. PICK p \in Nat, n \in Nat : Marked(r, p, n)
  BY <1>3 DEF FullInv, MarksInv
<1>8. Ahead(r, p)
  BY <1>3, <1>7 DEF Marked
<1> SUFFICES ASSUME ~(Span(i) <= p) PROVE Packed(b)
  BY <1>3, <1>7, MarkedSpan
<1> DEFINE s == Span(i)
<1>9. s \in Nat /\ s <= t + kept - 1 /\ t + kept <= Limit /\ ~(s <= p)
  BY <1>1, <1>3
<1>10. CASE r \in DOMAIN inflight[2]
  <2>1. d2 \in Nat /\ d2 <= S2
    <3>1. d2 \in Nat
      BY <1>4, <1>5, <1>10, FlightTypes
    <3>2. ~inflight[2][r].sampled => d2 = 0
      BY <1>4, <1>5, <1>10 DEF FlightInv
    <3>3. inflight[2][r].sampled => S2 = 1 + d2
      BY <1>5, <1>10 DEF Sampled
    <3> HIDE DEF d2, S2
    <3> QED
      BY <1>6, <3>1, <3>2, <3>3
  <2>2. c <= p + d2
    <3>1. NewestIn(r, 2)
      BY <1>5, <1>10 DEF NewestIn
    <3> QED
      BY <1>8, <3>1 DEF Ahead
  <2>3. s <= p
    <3> HIDE DEF c, t, R1, S1, S2, d1, d2, s
    <3> QED
      BY <1>6, <1>9, <2>1, <2>2
  <2> QED
    BY <1>9, <2>3
<1>11. CASE r \notin DOMAIN inflight[2] /\ DOMAIN inflight[2] # {}
  <2>1. ~LastEmpty
    BY <1>5, <1>11 DEF LastEmpty
  <2>2. b \notin DOMAIN resolvedBlocks[r]
    BY <1>3, <1>5, <1>11 DEF PendingInv
  <2>3. r \notin DOMAIN unsettled
    <3>1. unsettled = NoBatch => DOMAIN unsettled = {}
      BY NoPartial
    <3> QED
      BY <1>5, <1>11, <3>1 DEF PendingInv
  <2>4. Span(i) <= n
    <3>1. worker[r].rows <= n /\ worker[r].rows \in Nat
      BY <1>3, <1>4, <1>7, <2>3, StateTypes DEF Marked
    <3> HIDE DEF s
    <3> QED
      BY <1>3, <3>1
  <2> QED
    BY <1>3, <1>7, <2>1, <2>2, <2>4, MarkedSpan
<1>12. CASE DOMAIN inflight[2] = {}
  <2>1. LastEmpty
    BY <1>5, <1>12 DEF LastEmpty
  <2> DEFINE a == request[r].placeholders
  <2>2. c + 2 - a >= MaxTokens \/ c >= MaxLen - 1
    BY <1>3, <1>5, <2>1 DEF RoomInv
  <2>3. S2 = 0
    BY <1>12 DEF Sampled
  <2>4. a = S1 + S2
    BY <1>1, <1>3, RunningCounts DEF IInv, RequestInv
  <2>5. c <= p + d1
    <3>1. NewestIn(r, 1)
      BY <1>1, <1>5, <1>12 DEF NewestIn
    <3> QED
      BY <1>8, <3>1 DEF Ahead
  <2>6. /\ Limit \in Nat /\ Limit <= MaxTokens /\ Limit <= MaxLen
        /\ MaxTokens \in Nat /\ MaxLen \in Nat
    BY LimitType, ServingAssumption DEF Limit, Lesser
  <2>7. CASE c + 2 - a >= MaxTokens
    <3>1. s <= p
      <4> HIDE DEF c, t, R1, S1, S2, d1, s, a
      <4> QED
        BY <1>6, <1>9, <2>3, <2>4, <2>5, <2>6, <2>7
    <3> QED
      BY <1>9, <3>1
  <2>8. CASE c >= MaxLen - 1
    <3> DEFINE m == MaxLen - 2  L == Lookahead  B == BlockTokens
    <3>1. m \in Nat
      <4> HIDE DEF c, t, R1, S1, S2, d1, s, a
      <4> QED
        BY <1>6, <1>9, <2>6
    <3>2. Hittable(m + 1) = Hittable(MaxLen - 1)
      <4>1. m + 1 = MaxLen - 1
        BY <2>6
      <4> HIDE DEF m
      <4> QED
        BY <4>1
    <3>3. Span(i + 1) <= m
      <4> HIDE DEF m
      <4> QED
        BY <1>3, <3>1, <3>2, HittableSpan
    <3>4. B \in Nat \ {0} /\ L \in Nat \ {0} /\ L <= B + 1
      BY Sizes, ServingAssumption
    <3>5. Span(i + 1) = s + B
      <4> HIDE DEF B
      <4> QED
        BY <1>3, <3>4 DEF Span, B
    <3>6. Monus(c, L) <= p
      BY <1>8 DEF Ahead
    <3>7. s <= p
      <4>1. s + B <= MaxLen - 2
        BY <3>3, <3>5
      <4> HIDE DEF c, t, R1, S1, S2, d1, s, a, L, B, m
      <4> QED
        BY <1>6, <1>9, <2>6, <2>8, <3>4, <3>6, <4>1 DEF Monus
    <3> QED
      BY <1>9, <3>7
  <2> QED
    BY <2>2, <2>7, <2>8
<1> QED
  BY <1>10, <1>11, <1>12

LEMMA CompleteFull ==
    ASSUME UseEagle, Lookahead <= BlockTokens + 1,
           IInv, IInv', ExactInv, LayoutInv, PendingInv, RoomInv, FullInv, Complete
    PROVE  FullInv'
<1>1. PICK known, stopped : Completes(known, stopped)
  BY CompleteLeaves
<1>2. /\ UNCHANGED <<batch, worker, unsettled, needed, full, lost, requestBlocks,
                      pendingBlocks, resolvedBlocks>>
      /\ DOMAIN batch = {} /\ inflight' = Tail(inflight) /\ inflight # << >>
      /\ Running' = Running \ stopped /\ Running \subseteq Req
      /\ Len(inflight) = Depth \/ ~HasRequests
      /\ known \subseteq Req
  BY <1>1, RunningTypes DEF Completes, IInv
<1> DEFINE n0 == Len(inflight)
<1>3. /\ inflight \in Seq(Partial(Req, Outcome)) /\ TypesInv /\ FlightInv
      /\ DOMAIN inflight = 1 .. n0 /\ DOMAIN (inflight') = 1 .. n0 - 1
      /\ \A i \in 1 .. n0 - 1 : inflight'[i] = inflight[i + 1]
      /\ Len(inflight') = n0 - 1 /\ n0 \in Nat \ {0}
  <2>1. inflight \in Seq(Partial(Req, Outcome)) /\ TypesInv /\ FlightInv
    BY DEF IInv, TypesInv
  <2> QED
    BY <1>2, <2>1, HeadAndTail
<1>4. ASSUME LastEmpty, DOMAIN worker # {} PROVE LastEmpty'
  <2>1. n0 # 1
    <3> SUFFICES ASSUME n0 = 1 PROVE FALSE
      OBVIOUS
    <3>1. async
      BY <1>3, <1>4 DEF RoomInv, TypesInv
    <3>2. ~HasRequests
      BY <1>2, <3>1 DEF Depth
    <3>3. Running = {} /\ finished = {} /\ preempted = {}
      BY <1>1, <3>2 DEF HasRequests, Unfinished, Completes
    <3> QED
      BY <1>3, <1>4, <3>3 DEF FlightInv
  <2>2. n0 - 1 \in 1 .. n0 - 1 /\ (n0 - 1) + 1 = n0
    BY <1>3, <2>1
  <2>3. inflight'[n0 - 1] = inflight[n0]
    BY <1>3, <2>2
  <2>4. inflight' # << >>
    <3>1. DOMAIN (inflight') # {}
      BY <1>3, <2>2
    <3> QED
      BY <3>1
  <2> QED
    BY <1>3, <1>4, <2>3, <2>4 DEF LastEmpty
<1>5. ASSUME NEW r \in Running', NEW p \in Nat, Ahead(r, p)
      PROVE  Ahead(r, p)'
  <2> DEFINE c == request[r].computed  c1 == request'[r].computed  L == Lookahead
  <2>1. r \in Req /\ r \in Running /\ r \notin stopped
    BY <1>2
  <2>2. c \in Nat /\ L \in Nat
    BY <1>3, <2>1, RequestTypes, ServingAssumption
  <2>3. c1 \in Nat /\ c1 <= c
    <3>1. r \in known => c1 = Monus(c, Rejected(1, r))
      BY <1>1, <2>1 DEF Completes
    <3>2. r \notin known => c1 = c
      BY <1>1, <2>1 DEF Completes
    <3>3. Rejected(1, r) \in Nat
      BY <1>3, FlightSlack
    <3> DEFINE j == Rejected(1, r)
    <3> HIDE DEF c, c1, j
    <3>4. Monus(c, j) \in Nat /\ Monus(c, j) <= c
      BY <2>2, <3>3 DEF Monus, j
    <3> QED
      BY <2>2, <3>1, <3>2, <3>4 DEF j
  <2>4. Monus(c, L) <= p
    BY <1>5 DEF Ahead
  <2>5. Monus(c1, L) <= p
    <3> HIDE DEF c, c1, L
    <3> QED
      BY <2>2, <2>3, <2>4 DEF Monus
  <2>6. ASSUME NEW i \in Nat, NewestIn(r, i)' PROVE c1 <= p + inflight'[i][r].drafts
    <3>1. i \in 1 .. n0 - 1 /\ i + 1 \in DOMAIN inflight /\ inflight'[i] = inflight[i + 1]
      BY <1>3, <2>6 DEF NewestIn
    <3>2. r \in DOMAIN inflight[i + 1]
      BY <2>6, <3>1 DEF NewestIn
    <3>3. ASSUME NEW j \in DOMAIN inflight, j > i + 1 PROVE r \notin DOMAIN inflight[j]
      <4>1. j - 1 \in 1 .. n0 - 1 /\ j - 1 > i /\ (j - 1) + 1 = j
        BY <1>3, <3>1, <3>3
      <4>2. inflight'[j - 1] = inflight[j] /\ j - 1 \in DOMAIN (inflight')
        BY <1>3, <4>1
      <4> QED
        BY <2>6, <4>1, <4>2 DEF NewestIn
    <3>4. NewestIn(r, i + 1)
      BY <3>1, <3>2, <3>3 DEF NewestIn
    <3> DEFINE d == inflight[i + 1][r].drafts
    <3>5. c <= p + d
      BY <1>5, <3>1, <3>4 DEF Ahead
    <3>6. d \in Nat
      BY <1>3, <3>1, <3>2, FlightTypes
    <3>7. c1 <= p + d
      <4> HIDE DEF c, c1, d
      <4> QED
        BY <2>2, <2>3, <3>5, <3>6
    <3> QED
      BY <3>1, <3>7
  <2> QED
    BY <2>5, <2>6 DEF Ahead
<1>6. MarksInv'
  <2> SUFFICES ASSUME NEW r \in DOMAIN worker
               PROVE  \E p, n \in Nat : Marked(r, p, n)'
    BY <1>2 DEF MarksInv
  <2>1. PICK p \in Nat, n \in Nat : Marked(r, p, n)
    BY DEF MarksInv, FullInv
  <2>2. ASSUME NEW k, NEW b, MarkedBlock(r, p, n, k, b)
        PROVE  MarkedBlock(r, p, n, k, b)'
    BY <1>2, <1>4, <2>2 DEF MarkedBlock, NamedFull, Packed
  <2>3. r \in Running' => Ahead(r, p)'
    BY <1>2, <1>5, <2>1 DEF Marked
  <2>4. Marked(r, p, n)'
    BY <1>2, <2>1, <2>2, <2>3 DEF Marked
  <2> QED
    BY <2>4
<1>7. CachedFull'
  <2> SUFFICES ASSUME NEW b \in Block, cachedAt'[b] \in 1 .. Hittable(MaxLen - 1)
               PROVE  Packed(b)'
    BY DEF CachedFull, Hittable
  <2>1. Packed(b)' <=> Packed(b)
    BY <1>2 DEF Packed
  <2>2. CASE cachedAt'[b] = cachedAt[b]
    BY <1>2, <2>1, <2>2 DEF FullInv, CachedFull, Arriving
  <2>3. CASE cachedAt'[b] # cachedAt[b]
    BY <2>1, <2>3, CompletePacks
  <2> QED
    BY <2>2, <2>3
<1> QED
  BY <1>2, <1>6, <1>7 DEF FullInv, LeavesOnlyFull

-----------------------------------------------------------------------------
(* The snapshot of a step.  Each of its requests is at least at End once the *)
(* step has run, and what it says of a block (Says) is what the snapshot     *)
(* holds, merged by maximum: a block is packed when one request says that it *)
(* is full.                                                                  *)

\* What the step that is being assembled is sure to leave of a request.
End(r) == IF r \in DOMAIN batch THEN batch[r].start + batch[r].sched - batch[r].drafts
          ELSE worker[r].rows

\* The entry of update for a batched request: its ends, and where it begins.
LEMMA EntryOrder ==
    ASSUME IInv, GrantInv, phase = "scheduling", NEW r \in DOMAIN batch,
           NEW e, e = Entry(r, request[r].table)
    PROVE  /\ Ordered(e) /\ e.rollback > 0 /\ MinStart(e) \in Nat /\ MaxEnd(e) \in Nat
           /\ r \in Req /\ r \in Running
           /\ e.table = request[r].table /\ e.table \in Seq(Block)
           /\ DOMAIN e.table = 1 .. Len(e.table)
           /\ End(r) \in Nat /\ batch[r].start \in Nat /\ batch[r].start = request[r].computed
           /\ MinStart(e) <= batch[r].start /\ batch[r].start < End(r)
           /\ End(r) <= MinEnd(e) /\ End(r) <= MaxEnd(e)
           /\ batch[r].start + batch[r].sched <= MaxEnd(e)
           /\ End(r) <= batch[r].start + batch[r].sched
           /\ MinStart(e) <= Monus(request[r].computed, Lookahead)
           /\ r \in DOMAIN worker => MinStart(e) <= worker[r].rows
<1>1. TypesInv /\ QueuesInv /\ RequestInv /\ BatchInv
  BY DEF IInv
<1> DEFINE s == batch[r].start  n == batch[r].sched  d == batch[r].drafts  L == Lookahead
<1>2. s \in Nat /\ n \in Nat /\ d \in Nat /\ L \in Nat \ {0} /\ r \in Req /\ r \in Running
  BY <1>1, BatchTypes, ServingAssumption DEF QueuesInv
<1>3. d < n /\ s = request[r].computed
  BY <1>1 DEF GrantInv, BatchInv
<1>4. /\ e.start = s /\ e.tokens = n + L /\ e.rollback = d + L /\ e.table = request[r].table
  BY DEF Entry
<1>5. /\ MinStart(e) = Monus(s, d + L) /\ MinEnd(e) = Monus(s, d + L) + (n + L)
      /\ MaxEnd(e) = s + (n + L) /\ End(r) = s + n - d
  BY <1>4 DEF MinStart, MinEnd, MaxEnd, End
<1>6. /\ Monus(s, d + L) \in Nat /\ Monus(s, d + L) <= s
      /\ s + n - d \in Nat /\ s < s + n - d /\ s + n - d <= s + n
      /\ s + n - d <= Monus(s, d + L) + (n + L)
      /\ Monus(s, d + L) + (n + L) <= s + (n + L)
      /\ s + n <= s + (n + L) /\ d + L > 0
      /\ Monus(s, d + L) <= Monus(s, L)
      /\ s + (n + L) \in Nat /\ Monus(s, d + L) + (n + L) \in Nat
  <2> HIDE DEF s, n, d, L
  <2> QED
    BY <1>2, <1>3 DEF Monus
<1>7. request[r].table \in Seq(Block) /\ DOMAIN request[r].table = 1 .. Len(request[r].table)
  BY <1>1, <1>2, TableTypes
<1>8. r \in DOMAIN worker => MinStart(e) <= worker[r].rows
  <2> DEFINE w == Updated[r]
  <2>1. MinStart(e) <= w.rows
    BY BatchEntry
  <2>2. r \in DOMAIN worker => w.rows = worker[r].rows
    BY <1>1, UpdatedStates
  <2> QED
    BY <2>1, <2>2
<1>9. /\ MinStart(e) \in Nat /\ MaxEnd(e) \in Nat /\ MinEnd(e) \in Nat
      /\ MinStart(e) <= MinEnd(e) /\ MinEnd(e) <= MaxEnd(e)
  <2> DEFINE a == Monus(s, d + L)  m == n + L
  <2>1. a \in Nat /\ m \in Nat /\ a + m <= s + m
    BY <1>2, <1>6
  <2>2. MinStart(e) = a /\ MinEnd(e) = a + m /\ MaxEnd(e) = s + m
    BY <1>5
  <2> HIDE DEF a, m, s
  <2> QED
    BY <1>2, <2>1, <2>2 DEF s
<1>10. End(r) <= MaxEnd(e)
  <2> DEFINE a == s + n - d  x == s + n  y == s + (n + L)
  <2>1. a <= x /\ x <= y /\ a \in Nat /\ x \in Nat /\ y \in Nat
    BY <1>2, <1>6
  <2>2. End(r) = a /\ MaxEnd(e) = y
    BY <1>5
  <2> HIDE DEF a, x, y
  <2> QED
    BY <2>1, <2>2
<1> HIDE DEF s, n, d, L
<1> QED
  BY <1>2, <1>3, <1>4, <1>5, <1>6, <1>7, <1>8, <1>9, <1>10 DEF Ordered, s, n, d, L

\* What a step computes of a request's tokens is behind its end.
LEMMA RowsEnd ==
    ASSUME IInv, GrantInv, NEW r \in DOMAIN batch,
           NEW n \in Nat, n <= batch[r].start + batch[r].sched, n <= request[r].total
    PROVE  n <= End(r)
<1> DEFINE s == batch[r].start  m == batch[r].sched  d == batch[r].drafts
           t == request[r].total  a == request[r].placeholders
<1>1. s \in Nat /\ m \in Nat /\ d \in Nat /\ t \in Nat /\ a \in Nat
  BY BatchTypes, RequestTypes DEF IInv
<1>2. d > 0 => s + m = t + a + d
  BY DEF GrantInv
<1>3. End(r) = s + m - d
  BY DEF End
<1> HIDE DEF s, m, d, t, a
<1>4. n <= s + m /\ n <= t
  BY DEF s, m, t
<1> QED
  BY <1>1, <1>2, <1>3, <1>4

LEMMA RowsBefore ==
    ASSUME IInv, GrantInv, phase = "scheduling", NEW r \in Running
    PROVE  /\ r \in Req /\ (r \in DOMAIN worker \/ r \in DOMAIN batch)
           /\ Rows(r) \in Nat /\ End(r) \in Nat /\ Rows(r) <= End(r)
<1>1. TypesInv /\ FlightInv /\ CountInv
  BY DEF IInv
<1>2. r \in Req /\ (r \in DOMAIN worker \/ r \in DOMAIN batch)
  BY <1>1, RunningTypes DEF FlightInv
<1>3. CASE r \notin DOMAIN batch
  BY <1>1, <1>2, <1>3, StateTypes DEF Rows, End
<1>4. CASE r \in DOMAIN batch /\ r \in DOMAIN worker
  <2> DEFINE s == batch[r].start  m == End(r)  u == worker[r].rows  h == Behind(r)
  <2>1. s \in Nat /\ m \in Nat /\ s < m /\ s = request[r].computed
    BY <1>4, EntryOrder
  <2>2. u \in Nat /\ h \in Nat
    BY <1>1, <1>4, StateTypes, FlightSlack
  <2>3. s = u + h
    BY <1>1, <1>4, <2>1 DEF CountInv
  <2> HIDE DEF s, m, u, h
  <2>4. u <= m
    BY <2>1, <2>2, <2>3
  <2> QED
    BY <1>2, <1>4, <2>1, <2>2, <2>4 DEF Rows, u, m
<1>5. CASE r \in DOMAIN batch /\ r \notin DOMAIN worker
  <2> DEFINE s == batch[r].start  m == End(r)
  <2>1. s \in Nat /\ m \in Nat /\ s < m
    BY <1>5, EntryOrder
  <2> HIDE DEF s, m
  <2>2. s <= m
    BY <2>1
  <2> QED
    BY <1>2, <1>5, <2>1, <2>2 DEF Rows, s, m
<1> QED
  BY <1>3, <1>4, <1>5

\* Whoever runs holds a cached block with all its rows once the step has run.
LEMMA CacheEnds ==
    ASSUME IInv, GrantInv, Sharing, phase = "scheduling",
           NEW block \in Block, cachedAt[block] > 0,
           NEW r \in Running, NEW i \in DOMAIN request[r].table, request[r].table[i] = block
    PROVE  i = cachedAt[block] /\ Span(i) <= End(r)
<1>1. LayoutInv /\ SharedInv /\ StableInv /\ TypesInv /\ QueuesInv
  BY DEF Sharing, IInv
<1>2. r \in Req /\ Rows(r) \in Nat /\ End(r) \in Nat /\ Rows(r) <= End(r)
  BY <1>1, RowsBefore, RunningTypes
<1>3. i \in Nat \ {0} /\ Span(i) \in Nat
  BY <1>1, <1>2, TableTypes, SpanType
<1>4. i = cachedAt[block]
  BY <1>1, <1>2 DEF LayoutInv
<1>5. Filled(r, i) => Span(i) <= End(r)
  <2> DEFINE s == Span(i)  u == Rows(r)  m == End(r)
  <2>1. Filled(r, i) => s <= u
    BY DEF Filled
  <2>2. s \in Nat /\ u \in Nat /\ m \in Nat /\ u <= m
    BY <1>2, <1>3
  <2> HIDE DEF s, u, m
  <2>3. s <= u => s <= m
    BY <2>2
  <2> QED
    BY <2>1, <2>3 DEF s, m
<1>6. CASE Stable(block)
  BY <1>4, <1>5, <1>6 DEF Stable
<1>7. CASE Arriving(block)
  <2>1. PICK y \in DOMAIN batch : \E k \in DOMAIN request[y].table :
          /\ request[y].table[k] = block
          /\ Span(k) <= batch[y].start + batch[y].sched /\ Span(k) <= request[y].total
          /\ y \in DOMAIN worker \/ batch[y].start < Span(k)
    BY <1>7 DEF Arriving
  <2>2. PICK k \in DOMAIN request[y].table :
          /\ request[y].table[k] = block
          /\ Span(k) <= batch[y].start + batch[y].sched /\ Span(k) <= request[y].total
          /\ y \in DOMAIN worker \/ batch[y].start < Span(k)
    BY <2>1
  <2>3. y \in Running /\ batch[y].start \in Nat
    BY <1>1, BatchTypes DEF QueuesInv
  <2>4. CASE y = r
    <3>1. k = i
      BY <1>1, <1>2, <2>2, <2>4 DEF LayoutInv
    <3> QED
      BY <1>3, <1>4, <2>1, <2>2, <2>4, <3>1, RowsEnd
  <2>5. CASE y # r
    <3>1. /\ i = k /\ (Filled(r, i) \/ (Filled(y, i) /\ y \notin DOMAIN worker))
      BY <1>1, <2>2, <2>3, <2>5 DEF SharedInv
    <3>2. ~(Filled(y, i) /\ y \notin DOMAIN worker)
      BY <1>3, <2>2, <2>3, <3>1 DEF Filled, Rows
    <3> QED
      BY <1>4, <1>5, <3>1, <3>2
  <2> QED
    BY <2>4, <2>5
<1> QED
  BY <1>1, <1>6, <1>7 DEF StableInv

\* The step is sure to fill the k-th block of a request, or its marks are
\* behind it.
Reaches(r, k) ==
    IF r \in DOMAIN batch THEN Whole(k, End(r))
    ELSE \E p, n \in Nat : Marked(r, p, n) /\ Whole(k, n)

LEMMA EndReaches ==
    ASSUME IInv, GrantInv, MarksInv, phase = "scheduling", unsettled = NoBatch,
           NEW r \in Running, NEW k \in Nat, Whole(k, End(r))
    PROVE  Reaches(r, k)
<1>1. CASE r \in DOMAIN batch
  BY <1>1 DEF Reaches
<1>2. CASE r \notin DOMAIN batch
  <2>1. r \in DOMAIN worker /\ worker[r].rows \in Nat /\ End(r) = worker[r].rows
    BY <1>2, StateTypes DEF End, IInv, FlightInv
  <2>2. PICK p \in Nat, n \in Nat : Marked(r, p, n)
    BY <2>1 DEF MarksInv
  <2>3. worker[r].rows <= n
    BY <2>2, NoPartial DEF Marked
  <2>4. Whole(k, n)
    BY <2>1, <2>3, WholeMonotone
  <2> QED
    BY <1>2, <2>2, <2>4 DEF Reaches
<1> QED
  BY <1>1, <1>2

\* A block a cached block's holder has is reached.
LEMMA CacheReaches ==
    ASSUME IInv, GrantInv, Sharing, MarksInv, phase = "scheduling", unsettled = NoBatch,
           NEW block \in Block, cachedAt[block] > 0,
           NEW r \in Running, NEW k \in Nat, k + 1 \in DOMAIN request[r].table,
           request[r].table[k + 1] = block
    PROVE  Reaches(r, k)
<1>1. Span(k + 1) <= End(r) /\ End(r) \in Nat
  BY CacheEnds, RowsBefore
<1>2. Whole(k, End(r))
  BY <1>1, SpanWhole
<1> QED
  BY <1>2, EndReaches

\* Where a step does not go back behind: packed rows, or those of a hit.
LEMMA BehindStart ==
    ASSUME IInv, GrantInv, LayoutInv, MarksInv, phase = "scheduling",
           NEW r \in DOMAIN batch, NEW e, e = Entry(r, request[r].table),
           NEW k \in Nat, k + 1 \in DOMAIN request[r].table, Whole(k, MinStart(e)),
           NEW b, b = request[r].table[k + 1]
    PROVE  /\ r \in DOMAIN worker =>
                /\ k + 1 \in DOMAIN worker[r].ids /\ worker[r].ids[k + 1] = b /\ Packed(b)
                /\ NamedFull(r, b)
           /\ r \notin DOMAIN worker =>
                /\ cachedAt[b] = k + 1 /\ k + 1 <= Hittable(MaxLen - 1)
                /\ Span(k + 1) <= batch[r].start
<1>1. /\ MinStart(e) \in Nat /\ r \in Req /\ r \in Running
      /\ batch[r].start \in Nat /\ MinStart(e) <= batch[r].start
      /\ MinStart(e) <= Monus(request[r].computed, Lookahead)
      /\ r \in DOMAIN worker => MinStart(e) <= worker[r].rows
  BY EntryOrder
<1>2. ASSUME r \in DOMAIN worker
      PROVE  /\ k + 1 \in DOMAIN worker[r].ids /\ worker[r].ids[k + 1] = b /\ Packed(b)
             /\ NamedFull(r, b)
  <2>1. /\ worker[r].rows <= Span(Len(worker[r].ids)) /\ worker[r].rows \in Nat
        /\ Len(worker[r].ids) \in Nat /\ DOMAIN worker[r].ids = 1 .. Len(worker[r].ids)
    BY <1>2, StateTypes DEF LayoutInv, IInv
  <2>2. Whole(k, worker[r].rows)
    BY <1>1, <1>2, <2>1, WholeMonotone
  <2>3. k + 1 \in DOMAIN worker[r].ids
    BY <2>1, <2>2, WholeInside
  <2>4. worker[r].ids[k + 1] = b
    BY <1>1, <1>2, <2>3 DEF LayoutInv
  <2>5. PICK p \in Nat, n \in Nat : Marked(r, p, n)
    BY <1>2 DEF MarksInv
  <2>6. p <= n /\ Monus(request[r].computed, Lookahead) <= p
    BY <1>1, <2>5 DEF Marked, Ahead
  <2>7. MinStart(e) <= p /\ MinStart(e) <= n
    <3> DEFINE m == Monus(request[r].computed, Lookahead)  s == MinStart(e)
    <3>1. m \in Nat
      BY <1>1, RequestTypes, ServingAssumption DEF Monus, IInv
    <3>2. s \in Nat /\ s <= m /\ m <= p /\ p <= n
      BY <1>1, <2>6
    <3> HIDE DEF m, s
    <3>3. s <= p /\ s <= n
      BY <3>1, <3>2
    <3> QED
      BY <3>3 DEF s
  <2>8. Whole(k, p) /\ Whole(k, n)
    BY <1>1, <2>7, WholeMonotone
  <2>9. MarkedBlock(r, p, n, k, b)
    BY <2>3, <2>4, <2>5 DEF Marked
  <2> QED
    BY <2>3, <2>4, <2>8, <2>9 DEF MarkedBlock
<1>3. ASSUME r \notin DOMAIN worker
      PROVE  /\ cachedAt[b] = k + 1 /\ k + 1 <= Hittable(MaxLen - 1)
             /\ Span(k + 1) <= batch[r].start
  <2>1. PICK h \in Nat :
          /\ batch[r].start = Span(h) /\ h <= Len(request[r].table)
          /\ h <= Hittable(MaxLen - 1)
          /\ \A i \in 1 .. h : cachedAt[request[r].table[i]] = i
    BY <1>3 DEF LayoutInv
  <2>2. Whole(k, batch[r].start)
    BY <1>1, WholeMonotone
  <2>3. k + 1 <= h
    BY <1>1, <2>1, <2>2, WholeInside
  <2>4. Span(k + 1) <= Span(h)
    BY <2>3, SpanMonotone
  <2>5. Hittable(MaxLen - 1) \in Int
    <3> DEFINE x == (MaxLen - 1 - 1) \div BlockTokens
    <3>1. x \in Int
      <4> DEFINE m == MaxLen - 1 - 1  B == BlockTokens
      <4>1. m \in Int /\ B \in Nat \ {0}
        BY Sizes, ServingAssumption
      <4> HIDE DEF m, B
      <4>2. m \div B \in Int
        BY <4>1
      <4> QED
        BY <4>2 DEF m, B
    <3> HIDE DEF x
    <3>2. Hittable(MaxLen - 1) = Monus(x, IF UseEagle THEN 1 ELSE 0)
      BY DEF Hittable, x
    <3> QED
      BY <3>1, <3>2 DEF Monus
  <2>6. k + 1 <= Hittable(MaxLen - 1)
    BY <2>1, <2>3, <2>5
  <2> QED
    BY <2>1, <2>3, <2>4, <2>6
<1> QED
  BY <1>2, <1>3

\* The blocks that are kept by a request the step does not remove.
Held(b) == \E x \in Req \ Removed : b \in DOMAIN requestBlocks[x]

\* What a request says of a block in the snapshot of the step that is sent: of
\* the tokens the step may write, of what it keeps, of its last correction.
Says(r, b, v) ==
    \/ /\ r \in DOMAIN batch /\ b \in DOMAIN TouchedFills(Entry(r, request[r].table))
       /\ v = TouchedFills(Entry(r, request[r].table))[b]
    \/ b \in DOMAIN requestBlocks'[r] /\ v = requestBlocks'[r][b]
    \/ b \in DOMAIN resolvedBlocks[r] /\ ~Held(b) /\ v = resolvedBlocks[r][b]

\* What a request keeps lies in blocks.
LEMMA OwnBlocks ==
    ASSUME IInv, NEW r \in Req
    PROVE  Own(r) \subseteq Block
<1>1. ASSUME r \in DOMAIN worker PROVE worker[r].ids \in Seq(Block)
  BY <1>1, StateTypes DEF IInv
<1> QED
  BY <1>1, SeqItems DEF Own

\* The snapshot is what the requests say.
LEMMA SnapshotSays ==
    ASSUME IInv, EpochsSettle, PendingInv, Dispatch, NEW b
    PROVE  /\ b \in DOMAIN BlockFills' => \E r \in Req : \E v : Says(r, b, v)
           /\ \A r \in Req : \A v : Says(r, b, v) => b \in DOMAIN BlockFills'
           /\ \A r \in Req : Says(r, b, Group) => BlockFills'[b] = Group
<1> DEFINE scheduled == [r \in DOMAIN batch |-> Entry(r, request[r].table)]
           touched == [r \in DOMAIN scheduled |-> TouchedFills(scheduled[r])]
           held == UNION {DOMAIN Remaining(Removed)[r] : r \in Req}
           late == [r \in Req |-> [c \in DOMAIN resolvedBlocks[r] \ held |-> resolvedBlocks[r][c]]]
           A == Consumed(Removed)  T == MergeAll(touched)  Q == MergeAll(requestBlocks')
           E == MergeAll(epochBlocks')  Z == MergeAll(resolvedBlocks')
<1>1. Update(Removed, scheduled) /\ phase = "scheduling"
  BY DEF Dispatch, MayDispatch
<1>2. /\ DOMAIN scheduled = DOMAIN batch /\ DOMAIN touched = DOMAIN batch
      /\ \A r \in DOMAIN batch : /\ scheduled[r] = Entry(r, request[r].table)
                                 /\ touched[r] = TouchedFills(Entry(r, request[r].table))
      /\ DOMAIN batch \subseteq Req
  BY BatchTypes DEF IInv
<1>3. \A r \in DOMAIN batch : touched[r] \in Fillings(Block)
  <2> SUFFICES ASSUME NEW r \in DOMAIN batch PROVE touched[r] \in Fillings(Block)
    OBVIOUS
  <2> DEFINE e == Entry(r, request[r].table)
  <2>1. Sound(e) /\ Members(e.table) \subseteq Block
    BY <1>1, BatchEntry
  <2> HIDE DEF e
  <2>2. TouchedFills(e) \in Fillings(Block)
    BY <2>1, TouchedFilling, FillingMonotone
  <2> QED
    BY <1>2, <2>2 DEF e
<1>4. \A r \in Req : resolvedBlocks[r] \in Fillings(Block)
  <2>1. \A r \in Req : resolvedBlocks[r] \in Fillings(Own(r)) /\ Own(r) \subseteq Block
    BY OwnBlocks DEF IInv, TrackedInv
  <2> QED
    BY <2>1, FillingMonotone
<1>5. /\ DOMAIN late = Req
      /\ \A r \in Req : /\ DOMAIN late[r] = DOMAIN resolvedBlocks[r] \ held
                        /\ \A c \in DOMAIN late[r] : late[r][c] = resolvedBlocks[r][c]
  OBVIOUS
<1>6. \A r \in Req : late[r] \in Fillings(Block)
  BY <1>4, RestrictFilling
<1>7. /\ \A r \in Req : /\ requestBlocks'[r] \in Fillings(Block)
                        /\ epochBlocks'[r] \in Fillings(Block)
                        /\ resolvedBlocks'[r] \in Fillings(Block)
                        /\ resolvedBlocks'[r] = NoBlocks
      /\ DOMAIN (requestBlocks') = Req /\ DOMAIN (epochBlocks') = Req
      /\ DOMAIN (resolvedBlocks') = Req
  <2>1. /\ \A r \in Req : Own(r)' \subseteq Block
        /\ TrackedInv'
    BY DispatchTracked
  <2>2. /\ \A r \in Req : /\ requestBlocks'[r] \in Fillings(Own(r)')
                          /\ epochBlocks'[r] \in Fillings(Own(r)')
                          /\ resolvedBlocks'[r] \in Fillings(Own(r)')
        /\ DOMAIN (requestBlocks') = Req /\ DOMAIN (epochBlocks') = Req
        /\ DOMAIN (resolvedBlocks') = Req
    BY <2>1 DEF TrackedInv
  <2>3. \A r \in Req : resolvedBlocks'[r] = NoBlocks
    BY <1>1 DEF Update, Nothing
  <2> QED
    BY <2>1, <2>2, <2>3, FillingMonotone
<1>8. A = MergeAll(late)
  BY DEF Consumed
<1>9. stepBlocks' = Merge(A, T)
  BY <1>1 DEF Update
<1> DEFINE all == BlockFills'
<1>10. all = Merge(Merge(Merge(A, T), Q), Merge(E, Z))
  BY <1>9 DEF BlockFills
<1> HIDE DEF touched, late, A, T, Q, E, Z, all
<1>11. /\ A \in Fillings(Block) /\ T \in Fillings(Block) /\ Q \in Fillings(Block)
       /\ E \in Fillings(Block) /\ Z \in Fillings(Block)
       /\ DOMAIN A = UNION {DOMAIN late[r] : r \in Req}
       /\ DOMAIN T = UNION {DOMAIN touched[r] : r \in DOMAIN batch}
       /\ DOMAIN Q = UNION {DOMAIN requestBlocks'[r] : r \in Req}
       /\ DOMAIN E = UNION {DOMAIN epochBlocks'[r] : r \in Req}
       /\ DOMAIN Z = UNION {DOMAIN resolvedBlocks'[r] : r \in Req}
  <2>1. A \in Fillings(Block) /\ DOMAIN A = UNION {DOMAIN late[r] : r \in Req}
    BY <1>5, <1>6, <1>8, MergeAllFilling DEF late
  <2>2. T \in Fillings(Block) /\ DOMAIN T = UNION {DOMAIN touched[r] : r \in DOMAIN batch}
    BY <1>2, <1>3, MergeAllFilling DEF T
  <2>3. Q \in Fillings(Block) /\ DOMAIN Q = UNION {DOMAIN requestBlocks'[r] : r \in Req}
    BY <1>7, MergeAllFilling DEF Q
  <2>4. E \in Fillings(Block) /\ DOMAIN E = UNION {DOMAIN epochBlocks'[r] : r \in Req}
    BY <1>7, MergeAllFilling DEF E
  <2>5. Z \in Fillings(Block) /\ DOMAIN Z = UNION {DOMAIN resolvedBlocks'[r] : r \in Req}
    BY <1>7, MergeAllFilling DEF Z
  <2> QED
    BY <2>1, <2>2, <2>3, <2>4, <2>5
<1>12. Combined(all, A, T, Q, E, Z, b)
  BY <1>10, <1>11, FiveMerged
<1>13. b \in held <=> Held(b)
  <2>1. \A r \in Req : Remaining(Removed)[r] = IF r \in Removed THEN NoBlocks ELSE requestBlocks[r]
    BY DEF Remaining
  <2>2. DOMAIN NoBlocks = {}
    BY NoFillings
  <2> QED
    BY <2>1, <2>2 DEF Held
<1>14. /\ \A r \in DOMAIN batch : b \in DOMAIN touched[r] =>
             Says(r, b, touched[r][b])
       /\ \A r \in Req : b \in DOMAIN requestBlocks'[r] => Says(r, b, requestBlocks'[r][b])
       /\ \A r \in Req : b \in DOMAIN late[r] => Says(r, b, late[r][b])
  BY <1>2, <1>5, <1>13 DEF Says
<1>15. ASSUME NEW r \in Req, NEW v, Says(r, b, v)
       PROVE  \/ r \in DOMAIN batch /\ b \in DOMAIN touched[r] /\ v = touched[r][b]
              \/ b \in DOMAIN requestBlocks'[r] /\ v = requestBlocks'[r][b]
              \/ b \in DOMAIN late[r] /\ v = late[r][b]
  <2>1. CASE /\ r \in DOMAIN batch /\ b \in DOMAIN TouchedFills(Entry(r, request[r].table))
             /\ v = TouchedFills(Entry(r, request[r].table))[b]
    BY <1>2, <2>1
  <2>2. CASE b \in DOMAIN resolvedBlocks[r] /\ ~Held(b) /\ v = resolvedBlocks[r][b]
    BY <1>5, <1>13, <2>2
  <2> QED
    BY <1>15, <2>1, <2>2 DEF Says
<1>16. ASSUME NEW r \in Req, b \in DOMAIN epochBlocks'[r]
       PROVE  \E v : Says(r, b, v)
  <2> DEFINE e == Entry(r, request[r].table)
             opened == {x \in DOMAIN scheduled :
                          scheduled[x].rollback > 0 /\ Touched(scheduled[x]) # {}}
  <2>1. CASE r \in opened
    <3>1. r \in DOMAIN batch
      BY <1>2, <2>1
    <3> DEFINE f == [c \in DOMAIN touched[r] |-> stepBlocks'[c]]
               g == IF HasFullContext(scheduled[r]) THEN NoBlocks ELSE requestBlocks'[r]
    <3>2. epochBlocks'[r] = Merge(f, g)
      BY <1>1, <2>1 DEF Update, touched
    <3>3. DOMAIN f = DOMAIN touched[r]
      OBVIOUS
    <3>4. DOMAIN g \subseteq DOMAIN requestBlocks'[r]
      BY NoFillings
    <3> HIDE DEF f, g
    <3>5. DOMAIN Merge(f, g) = DOMAIN f \cup DOMAIN g
      BY DEF Merge
    <3> QED
      BY <1>14, <1>16, <3>1, <3>2, <3>3, <3>4, <3>5
  <2>2. CASE r \notin opened
    <3>1. epochBlocks'[r] = IF r \in Removed THEN NoBlocks ELSE epochBlocks[r]
      BY <1>1, <2>2 DEF Update
    <3>2. DOMAIN epochBlocks[r] = {}
      BY DispatchSettled DEF PendingInv
    <3> QED
      BY <1>16, <3>1, <3>2, NoFillings
  <2> QED
    BY <2>1, <2>2
<1>17. b \in DOMAIN all => \E r \in Req : \E v : Says(r, b, v)
  <2> SUFFICES ASSUME b \in DOMAIN all PROVE \E r \in Req : \E v : Says(r, b, v)
    OBVIOUS
  <2>1. b \notin DOMAIN Z
    BY <1>7, <1>11, NoFillings
  <2>2. CASE b \in DOMAIN A
    BY <1>11, <1>14, <2>2
  <2>3. CASE b \in DOMAIN T
    BY <1>2, <1>11, <1>14, <2>3
  <2>4. CASE b \in DOMAIN Q
    BY <1>11, <1>14, <2>4
  <2>5. CASE b \in DOMAIN E
    BY <1>11, <1>16, <2>5
  <2> QED
    BY <1>12, <2>1, <2>2, <2>3, <2>4, <2>5 DEF Combined
<1>18. ASSUME NEW r \in Req, NEW v, Says(r, b, v) PROVE b \in DOMAIN all
  <2>1. b \in DOMAIN A \cup DOMAIN T \cup DOMAIN Q
    BY <1>11, <1>15, <1>18
  <2> QED
    BY <1>12, <2>1 DEF Combined
<1>19. ASSUME NEW r \in Req, Says(r, b, Group) PROVE all[b] = Group
  <2>1. CASE r \in DOMAIN batch /\ b \in DOMAIN touched[r] /\ Group = touched[r][b]
    <3>1. b \in DOMAIN T /\ T[b] = Group
      BY <1>2, <1>3, <2>1, MergeAllFull DEF T
    <3> QED
      BY <1>12, <3>1 DEF Combined
  <2>2. CASE b \in DOMAIN requestBlocks'[r] /\ Group = requestBlocks'[r][b]
    <3>1. b \in DOMAIN Q /\ Q[b] = Group
      BY <1>7, <2>2, MergeAllFull DEF Q
    <3> QED
      BY <1>12, <3>1 DEF Combined
  <2>3. CASE b \in DOMAIN late[r] /\ Group = late[r][b]
    <3>1. b \in DOMAIN A /\ A[b] = Group
      BY <1>5, <1>6, <1>8, <2>3, MergeAllFull
    <3> QED
      BY <1>12, <3>1 DEF Combined
  <2> QED
    BY <1>15, <1>19, <2>1, <2>2, <2>3
<1> QED
  BY <1>17, <1>18, <1>19 DEF all

\* What an entry of a batch says of its own blocks: a block the step certainly
\* fills is full in the snapshot, unless it was full before the step.
EntryBlock(r, e, k, b) ==
    /\ Whole(k, End(r)) /\ b \in DOMAIN requestBlocks'[r] => requestBlocks'[r][b] = Group
    /\ Whole(k, End(r)) /\ b \in DOMAIN TouchedFills(e) => TouchedFills(e)[b] = Group
    /\ Whole(k, End(r)) => Says(r, b, Group) \/ Whole(k, MinStart(e))
    /\ k * Group < LocalTokens(MaxEnd(e))
          => /\ (\E v : Says(r, b, v)) \/ Whole(k, MinStart(e))
             /\ k \in Touched(e) \/ b \in DOMAIN requestBlocks'[r] \/ Whole(k, MinStart(e))

LEMMA EntrySays ==
    ASSUME IInv, GrantInv, LayoutInv, MarksInv, Dispatch,
           NEW r \in DOMAIN batch, NEW e, e = Entry(r, request[r].table),
           NEW k \in Nat, k + 1 \in DOMAIN request[r].table, NEW b, b = request[r].table[k + 1]
    PROVE  EntryBlock(r, e, k, b)
<1> DEFINE scheduled == [x \in DOMAIN batch |-> Entry(x, request[x].table)]
           kept == requestBlocks'[r]
           wasFull == r \in fullContext \ Removed
<1>1. Update(Removed, scheduled) /\ phase = "scheduling"
  BY DEF Dispatch, MayDispatch
<1>2. /\ Ordered(e) /\ e.table = request[r].table /\ e.table \in Seq(Block)
      /\ DOMAIN e.table = 1 .. Len(e.table) /\ r \in Req
      /\ End(r) \in Nat /\ MinEnd(e) \in Nat /\ MaxEnd(e) \in Nat
      /\ End(r) <= MinEnd(e) /\ End(r) <= MaxEnd(e)
  BY <1>1, EntryOrder DEF Ordered
<1>3. Sound(e) /\ Own(r) \subseteq Members(e.table)
  BY <1>1, BatchEntry
<1>4. Distinct(e.table)
  BY <1>2 DEF LayoutInv, Distinct
<1>5. r \notin Removed
  BY AdvancedCounts DEF IInv
<1>6. requestBlocks[r] \in Fillings(Own(r)) /\ requestBlocks[r] \in Fillings(Members(e.table))
  BY <1>2, <1>3, FillingMonotone DEF IInv, TrackedInv
<1>7. kept = GroupBlocks(e, requestBlocks[r], wasFull)
  <2>1. kept = GroupBlocks(scheduled[r], Remaining(Removed)[r], wasFull)
    BY <1>1, <1>2 DEF Update
  <2>2. Remaining(Removed)[r] = requestBlocks[r]
    BY <1>2, <1>5 DEF Remaining
  <2> QED
    BY <2>1, <2>2
<1>8. wasFull \in BOOLEAN
  OBVIOUS
<1> HIDE DEF kept, wasFull, scheduled
<1>9. k + 1 \in 1 .. Len(e.table) /\ b = e.table[k + 1]
  BY <1>2
<1>10. Whole(k, End(r)) => Whole(k, MinEnd(e)) /\ k * Group < LocalTokens(MaxEnd(e))
  BY <1>2, WholeMonotone, WholeBelow
<1>11. k * Group < LocalTokens(MaxEnd(e)) => GroupedBlock(e, requestBlocks[r], kept, k, b)
  BY <1>2, <1>4, <1>6, <1>7, <1>8, <1>9, GroupedAt
<1>12. k * Group < LocalTokens(MaxEnd(e)) /\ k \notin Touched(e) /\ Earlier(e, k)
          => Whole(k, MinStart(e))
  BY <1>2, <1>9, UntouchedWhole DEF Earlier
<1>13. Whole(k, MinStart(e)) /\ b \in DOMAIN requestBlocks[r] => requestBlocks[r][b] = Group
  <2> SUFFICES ASSUME Whole(k, MinStart(e)), b \in DOMAIN requestBlocks[r]
               PROVE  requestBlocks[r][b] = Group
    OBVIOUS
  <2>1. r \in DOMAIN worker
    BY <1>6, FillingParts DEF Own
  <2> QED
    BY <1>1, <2>1, BehindStart DEF NamedFull
<1>14. Whole(k, End(r)) /\ b \in DOMAIN kept => kept[b] = Group
  BY <1>10, <1>11, <1>12, <1>13 DEF GroupedBlock
<1>15. k \in Touched(e) => b \in DOMAIN TouchedFills(e)
  BY <1>3, <1>9, TouchedFilling DEF TouchedBlocks
<1>16. Whole(k, End(r)) /\ b \in DOMAIN TouchedFills(e) => TouchedFills(e)[b] = Group
  <2> SUFFICES ASSUME Whole(k, End(r)), b \in DOMAIN TouchedFills(e)
               PROVE  TouchedFills(e)[b] = Group
    OBVIOUS
  <2>1. PICK j \in Touched(e) : b = e.table[j + 1]
    <3>1. b \in TouchedBlocks(e)
      BY <1>3, TouchedFilling
    <3> QED
      BY <3>1 DEF TouchedBlocks
  <2>2. j \in Nat /\ j + 1 \in DOMAIN e.table
    BY <1>2, <1>3, TouchedBound
  <2>3. j + 1 = k + 1
    BY <1>2, <1>4, <1>9, <2>1, <2>2 DEF Distinct
  <2>4. k \in Touched(e)
    BY <2>1, <2>2, <2>3
  <2> QED
    BY <1>2, <1>4, <1>9, <1>10, <2>4, TouchedAt
<1>17. k * Group < LocalTokens(MaxEnd(e)) =>
          /\ b \in DOMAIN TouchedFills(e) \/ b \in DOMAIN kept \/ Whole(k, MinStart(e))
          /\ k \in Touched(e) \/ b \in DOMAIN kept \/ Whole(k, MinStart(e))
  BY <1>11, <1>12, <1>15 DEF GroupedBlock
<1>18. \A v : \/ b \in DOMAIN TouchedFills(e) /\ v = TouchedFills(e)[b]
              \/ b \in DOMAIN kept /\ v = kept[b]
              => Says(r, b, v)
  BY DEF Says, kept
<1> QED
  BY <1>10, <1>14, <1>16, <1>17, <1>18 DEF EntryBlock, kept

\* A block that a step fills and that is named in its snapshot is named full:
\* the correction of an earlier step agrees.
LEMMA BatchedSays ==
    ASSUME IInv, GrantInv, LayoutInv, MarksInv, Dispatch,
           NEW r \in DOMAIN batch, NEW k \in Nat, k + 1 \in DOMAIN request[r].table,
           NEW b, b = request[r].table[k + 1], Whole(k, End(r)), NEW v, Says(r, b, v)
    PROVE  Says(r, b, Group)
<1> DEFINE e == Entry(r, request[r].table)
<1>1. EntryBlock(r, e, k, b)
  BY EntrySays
<1>2. phase = "scheduling"
  BY DEF Dispatch, MayDispatch
<1>3. CASE Whole(k, MinStart(e)) /\ b \in DOMAIN resolvedBlocks[r] /\ ~Held(b)
  <2>1. r \in DOMAIN worker
    <3>1. r \in Req
      BY BatchTypes DEF IInv
    <3>2. DOMAIN resolvedBlocks[r] \subseteq Own(r)
      BY <3>1, FillingParts DEF IInv, TrackedInv
    <3> QED
      BY <1>3, <3>2 DEF Own
  <2>2. resolvedBlocks[r][b] = Group
    BY <1>2, <1>3, <2>1, BehindStart DEF NamedFull
  <2> QED
    BY <1>3, <2>2 DEF Says
<1>4. CASE b \in DOMAIN TouchedFills(e)
  BY <1>1, <1>4 DEF EntryBlock, Says
<1>5. CASE b \in DOMAIN requestBlocks'[r]
  BY <1>1, <1>5 DEF EntryBlock, Says
<1>6. CASE Says(r, b, Group)
  BY <1>6
<1> HIDE DEF e
<1>7. \/ Whole(k, MinStart(e)) \/ Says(r, b, Group)
  BY <1>1 DEF EntryBlock
<1>8. \/ b \in DOMAIN TouchedFills(e) \/ b \in DOMAIN requestBlocks'[r]
      \/ b \in DOMAIN resolvedBlocks[r] /\ ~Held(b)
  BY DEF Says, e
<1> QED
  BY <1>3, <1>4, <1>5, <1>6, <1>7, <1>8

\* What a running request that is not in the batch says of the blocks its
\* marks reach.
LEMMA OtherSays ==
    ASSUME IInv, Dispatch, NEW r \in Running, r \notin DOMAIN batch, LayoutInv,
           NEW k \in Nat, k + 1 \in DOMAIN request[r].table,
           NEW b, b = request[r].table[k + 1], Reaches(r, k), NEW v, Says(r, b, v)
    PROVE  v = Group
<1>1. phase = "scheduling"
  BY DEF Dispatch, MayDispatch
<1>2. r \in DOMAIN worker /\ r \in Req /\ r \notin Removed
  <2>1. r \in Req
    BY RunningTypes DEF IInv
  <2>2. r \in DOMAIN worker
    BY DEF IInv, FlightInv
  <2>3. r \notin Removed
    BY DEF IInv, QueuesInv, Removed, Unfinished
  <2> QED
    BY <2>1, <2>2, <2>3
<1>3. worker[r].ids = request[r].table
  BY <1>2 DEF LayoutInv
<1>4. PICK p, n \in Nat : Marked(r, p, n) /\ Whole(k, n)
  BY DEF Reaches
<1>5. NamedFull(r, b)
  BY <1>3, <1>4 DEF Marked, MarkedBlock
<1>6. requestBlocks'[r] = requestBlocks[r]
  <2> DEFINE scheduled == [x \in DOMAIN batch |-> Entry(x, request[x].table)]
  <2>1. Update(Removed, scheduled)
    BY DEF Dispatch
  <2>2. r \notin DOMAIN scheduled
    OBVIOUS
  <2> HIDE DEF scheduled
  <2> QED
    BY <1>2, <2>1, <2>2, UpdatedOthers
<1> QED
  BY <1>5, <1>6 DEF Says, NamedFull

\* A block that arrives in the cache is named full by the batch that fills it,
\* or it was filled before, by a request the worker knows.
LEMMA ArrivingSays ==
    ASSUME IInv, GrantInv, LayoutInv, MarksInv, Dispatch, NEW b, Arriving(b)
    PROVE  \E z \in DOMAIN batch : \E i \in DOMAIN request[z].table :
              /\ request[z].table[i] = b
              /\ \/ Says(z, b, Group)
                 \/ /\ z \in DOMAIN worker /\ i \in DOMAIN worker[z].ids
                    /\ worker[z].ids[i] = b /\ Packed(b)
<1>1. PICK z \in DOMAIN batch : \E i \in DOMAIN request[z].table :
        /\ request[z].table[i] = b
        /\ Span(i) <= batch[z].start + batch[z].sched /\ Span(i) <= request[z].total
        /\ z \in DOMAIN worker \/ batch[z].start < Span(i)
  BY DEF Arriving
<1>2. PICK i \in DOMAIN request[z].table :
        /\ request[z].table[i] = b
        /\ Span(i) <= batch[z].start + batch[z].sched /\ Span(i) <= request[z].total
        /\ z \in DOMAIN worker \/ batch[z].start < Span(i)
  BY <1>1
<1> DEFINE e == Entry(z, request[z].table)
           k == i - 1
<1>3. phase = "scheduling"
  BY DEF Dispatch, MayDispatch
<1>4. i \in Nat \ {0} /\ k \in Nat /\ k + 1 = i /\ Span(i) \in Nat /\ End(z) \in Nat
      /\ batch[z].start \in Nat
  <2>1. z \in Req /\ End(z) \in Nat /\ batch[z].start \in Nat
    BY <1>3, EntryOrder
  <2>2. i \in Nat \ {0}
    BY <2>1, TableTypes DEF IInv
  <2>3. Span(i) \in Nat
    BY <2>2, SpanType
  <2> QED
    BY <2>1, <2>2, <2>3
<1> HIDE DEF k, e
<1>5. Whole(k, End(z))
  <2>1. Span(i) <= End(z)
    BY <1>2, <1>4, RowsEnd
  <2>2. Span(k + 1) <= End(z)
    BY <1>4, <2>1
  <2> QED
    BY <1>4, <2>2, SpanWhole
<1>6. EntryBlock(z, e, k, b)
  BY <1>2, <1>4, EntrySays DEF e
<1>7. CASE Says(z, b, Group)
  BY <1>2, <1>7
<1>8. CASE Whole(k, MinStart(e))
  <2>1. ~(Span(i) <= batch[z].start) \/ z \in DOMAIN worker
    BY <1>2, <1>4
  <2>2. /\ z \in DOMAIN worker =>
              /\ k + 1 \in DOMAIN worker[z].ids /\ worker[z].ids[k + 1] = b /\ Packed(b)
        /\ z \notin DOMAIN worker => Span(k + 1) <= batch[z].start
    BY <1>2, <1>3, <1>4, <1>8, BehindStart DEF e
  <2> QED
    BY <1>2, <1>4, <2>1, <2>2
<1> QED
  BY <1>5, <1>6, <1>7, <1>8 DEF EntryBlock

\* A cached block of a request that leaves is whole there, or named full.
LEMMA CachedDead ==
    ASSUME IInv, GrantInv, Sharing, MarksInv, Dispatch, NEW b \in Block, cachedAt[b] > 0,
           NEW y \in DOMAIN worker, y \notin Running,
           NEW j \in Nat, j + 1 \in DOMAIN worker[y].ids, worker[y].ids[j + 1] = b
    PROVE  Whole(j, worker[y].rows) \/ \E z \in Req : Says(z, b, Group)
<1>1. worker[y].rows \in Nat
  BY StateTypes DEF IInv
<1>2. CASE Stable(b)
  <2>1. Span(j + 1) <= worker[y].rows
    BY <1>2 DEF Stable
  <2> QED
    BY <1>1, <2>1, SpanWhole
<1>3. CASE Arriving(b)
  <2>1. PICK z \in DOMAIN batch : \E i \in DOMAIN request[z].table :
              \/ Says(z, b, Group)
              \/ /\ z \in DOMAIN worker /\ i \in DOMAIN worker[z].ids
                 /\ worker[z].ids[i] = b
    <3>1. \E z \in DOMAIN batch : \E i \in DOMAIN request[z].table :
              /\ request[z].table[i] = b
              /\ \/ Says(z, b, Group)
                 \/ /\ z \in DOMAIN worker /\ i \in DOMAIN worker[z].ids
                    /\ worker[z].ids[i] = b /\ Packed(b)
      BY <1>3, ArrivingSays DEF Sharing
    <3> QED
      BY <3>1
  <2>2. z \in Req /\ z \in Running
    BY BatchTypes DEF IInv, QueuesInv
  <2>3. CASE \E i \in DOMAIN worker[z].ids : z \in DOMAIN worker /\ worker[z].ids[i] = b
    <3>1. Span(j + 1) <= worker[y].rows
      BY <2>2, <2>3 DEF Sharing, SharedInv
    <3> QED
      BY <1>1, <3>1, SpanWhole
  <2> QED
    BY <2>1, <2>2, <2>3
<1> QED
  BY <1>2, <1>3 DEF Sharing, StableInv

\* The same of a block of a running request, once its marks reach it.
LEMMA StrangerSays ==
    ASSUME IInv, GrantInv, Sharing, MarksInv, Dispatch,
           NEW x \in Running, NEW k \in Nat, k + 1 \in DOMAIN request[x].table,
           NEW b, b = request[x].table[k + 1], Reaches(x, k),
           NEW y \in DOMAIN worker, y \notin Running,
           NEW j \in Nat, j + 1 \in DOMAIN worker[y].ids, worker[y].ids[j + 1] = b
    PROVE  Whole(j, worker[y].rows) \/ \E z \in Req : Says(z, b, Group)
<1> DEFINE e == Entry(x, request[x].table)
<1>1. worker[y].rows \in Nat /\ x \in Req /\ phase = "scheduling"
  BY StateTypes, RunningTypes DEF IInv, Dispatch, MayDispatch
<1>2. CASE x \in DOMAIN worker /\ k + 1 \in DOMAIN worker[x].ids
  <2>1. worker[x].ids[k + 1] = b
    BY <1>2 DEF Sharing, LayoutInv
  <2>2. Span(j + 1) <= worker[y].rows
    BY <1>2, <2>1 DEF Sharing, SharedInv
  <2> QED
    BY <1>1, <2>2, SpanWhole
<1>3. CASE x \notin DOMAIN batch
  <2>1. x \in DOMAIN worker
    BY <1>3 DEF IInv, FlightInv
  <2>2. worker[x].ids = request[x].table
    BY <1>3, <2>1 DEF Sharing, LayoutInv
  <2> QED
    BY <1>2, <2>1, <2>2
<1>4. CASE x \in DOMAIN batch
  <2>1. Whole(k, End(x))
    BY <1>4 DEF Reaches
  <2>2. EntryBlock(x, e, k, b)
    BY <1>4, EntrySays DEF Sharing
  <2> HIDE DEF e
  <2>3. CASE Says(x, b, Group)
    BY <1>1, <2>3
  <2>4. CASE Whole(k, MinStart(e))
    <3>1. /\ x \in DOMAIN worker => k + 1 \in DOMAIN worker[x].ids
          /\ x \notin DOMAIN worker => cachedAt[b] = k + 1
      BY <1>1, <1>4, <2>4, BehindStart DEF Sharing, e
    <3>2. CASE x \in DOMAIN worker
      BY <1>2, <3>1, <3>2
    <3>3. CASE x \notin DOMAIN worker
      <4>1. cachedAt[b] > 0
        BY <3>1, <3>3
      <4>2. b \in Block
        BY <1>1, TableTypes DEF IInv
      <4> QED
        BY <4>1, <4>2, CachedDead
    <3> QED
      BY <3>2, <3>3
  <2> QED
    BY <2>1, <2>2, <2>3, <2>4 DEF EntryBlock
<1> QED
  BY <1>3, <1>4

\* A running request speaks of blocks of its table only.
LEMMA RunningSays ==
    ASSUME IInv, Dispatch, NEW z \in Running, NEW b, NEW v, Says(z, b, v)
    PROVE  \E k \in Nat : k + 1 \in DOMAIN request[z].table /\ request[z].table[k + 1] = b
<1> DEFINE e == Entry(z, request[z].table)
<1>1. z \in Req /\ phase = "scheduling"
  BY RunningTypes DEF IInv, Dispatch, MayDispatch
<1>2. Own(z) \subseteq Range(request[z].table)
  BY DEF Own, IInv, TablesInv
<1>3. requestBlocks'[z] \in Fillings(Own(z)') /\ Own(z)' = Left(z)
  BY <1>1, DispatchTracked DEF TrackedInv
<1>4. Left(z) \subseteq Range(request[z].table)
  BY <1>2 DEF Left
<1>5. resolvedBlocks[z] \in Fillings(Own(z))
  BY <1>1 DEF IInv, TrackedInv
<1>6. b \in Range(request[z].table)
  <2>1. CASE z \in DOMAIN batch /\ b \in DOMAIN TouchedFills(e)
    <3>1. Sound(e) /\ Members(e.table) = Range(request[z].table)
      BY <1>1, <2>1, BatchEntry
    <3>2. TouchedFills(e) \in Fillings(Members(e.table))
      BY <3>1, TouchedFilling
    <3> QED
      BY <2>1, <3>1, <3>2, FillingParts
  <2>2. CASE b \in DOMAIN requestBlocks'[z]
    <3>1. DOMAIN requestBlocks'[z] \subseteq Left(z)
      BY <1>3, FillingParts
    <3> QED
      BY <1>4, <2>2, <3>1
  <2>3. CASE b \in DOMAIN resolvedBlocks[z]
    BY <1>2, <1>5, <2>3, FillingParts
  <2> QED
    BY <2>1, <2>2, <2>3 DEF Says
<1>7. request[z].table \in Seq(Block)
  BY <1>1, RequestTypes DEF IInv
<1>8. PICK i \in 1 .. Len(request[z].table) : b = request[z].table[i]
  BY <1>6, <1>7, SeqItems
<1>9. i - 1 \in Nat /\ (i - 1) + 1 = i /\ i \in DOMAIN request[z].table
  BY <1>7, <1>8
<1> QED
  BY <1>8, <1>9

\* A request that leaves speaks of the blocks it had, and of the whole ones it
\* says that they are full.
LEMMA DeadSays ==
    ASSUME IInv, MarksInv, Dispatch, NEW y \in Req, y \notin Running, NEW b, NEW v, Says(y, b, v)
    PROVE  /\ y \in DOMAIN worker
           /\ \E j \in Nat : /\ j + 1 \in DOMAIN worker[y].ids /\ worker[y].ids[j + 1] = b
                             /\ Whole(j, worker[y].rows) => v = Group
<1>1. y \notin DOMAIN batch
  BY DEF IInv, QueuesInv
<1>2. DOMAIN requestBlocks'[y] = {}
  <2>1. requestBlocks'[y] \in Fillings(Own(y)') /\ Own(y)' = Left(y)
    BY DispatchTracked DEF TrackedInv
  <2>2. Left(y) = {}
    BY <1>1 DEF Left, Own, IInv, FlightInv, Removed
  <2> QED
    BY <2>1, <2>2, FillingParts
<1>3. b \in DOMAIN resolvedBlocks[y] /\ v = resolvedBlocks[y][b]
  BY <1>1, <1>2 DEF Says
<1>4. resolvedBlocks[y] \in Fillings(Own(y))
  BY DEF IInv, TrackedInv
<1>5. b \in Own(y)
  BY <1>3, <1>4, FillingParts
<1>6. y \in DOMAIN worker /\ b \in Range(worker[y].ids)
  BY <1>5 DEF Own
<1>7. worker[y].ids \in Seq(Block) /\ worker[y].rows \in Nat
  BY <1>6, StateTypes DEF IInv
<1>8. PICK i \in 1 .. Len(worker[y].ids) : b = worker[y].ids[i]
  BY <1>6, <1>7, SeqItems
<1> DEFINE j == i - 1
<1>9. j \in Nat /\ j + 1 = i /\ i \in DOMAIN worker[y].ids
  BY <1>7, <1>8
<1> HIDE DEF j
<1>10. ASSUME Whole(j, worker[y].rows) PROVE v = Group
  <2>1. PICK p, n \in Nat : Marked(y, p, n)
    BY <1>6 DEF MarksInv
  <2>2. y \notin DOMAIN unsettled
    BY NoPartial DEF Dispatch, MayDispatch
  <2>3. Whole(j, n)
    BY <1>7, <1>9, <1>10, <2>1, <2>2, WholeMonotone DEF Marked
  <2>4. MarkedBlock(y, p, n, j, b)
    BY <1>8, <1>9, <2>1 DEF Marked
  <2> QED
    BY <1>3, <2>3, <2>4 DEF MarkedBlock, NamedFull
<1> QED
  BY <1>6, <1>8, <1>9, <1>10

\* A block is packed once every running request that has it is known to have
\* filled it, and no dead request lowers what they say.
LEMMA PackedAfter ==
    ASSUME IInv, EpochsSettle, GrantInv, LayoutInv, MarksInv, PendingInv, Dispatch,
           NEW o, Dispatches(o), batch # NoBatch, NEW b,
           \A x \in Running : \A k \in Nat :
              k + 1 \in DOMAIN request[x].table /\ request[x].table[k + 1] = b => Reaches(x, k),
           \A y \in DOMAIN worker \ Running : \A j \in Nat :
              j + 1 \in DOMAIN worker[y].ids /\ worker[y].ids[j + 1] = b
                 => Whole(j, worker[y].rows) \/ \E z \in Req : Says(z, b, Group)
    PROVE  Packed(b)'
<1>1. ASSUME NEW z \in Req, NEW v, Says(z, b, v)
      PROVE  \E x \in Req : Says(x, b, Group)
  <2>1. CASE z \in Running
    <3>1. PICK k \in Nat : k + 1 \in DOMAIN request[z].table /\ request[z].table[k + 1] = b
      BY <1>1, <2>1, RunningSays
    <3>2. Reaches(z, k)
      BY <2>1, <3>1
    <3>3. CASE z \in DOMAIN batch
      <4>1. Whole(k, End(z))
        BY <3>2, <3>3 DEF Reaches
      <4> QED
        BY <1>1, <3>1, <3>3, <4>1, BatchedSays
    <3>4. CASE z \notin DOMAIN batch
      <4>1. v = Group
        BY <1>1, <2>1, <3>1, <3>2, <3>4, OtherSays
      <4> QED
        BY <1>1, <4>1
    <3> QED
      BY <3>3, <3>4
  <2>2. CASE z \notin Running
    <3>1. z \in DOMAIN worker
      BY <1>1, <2>2, DeadSays
    <3>2. PICK j \in Nat : /\ j + 1 \in DOMAIN worker[z].ids /\ worker[z].ids[j + 1] = b
                           /\ Whole(j, worker[z].rows) => v = Group
      BY <1>1, <2>2, DeadSays
    <3>3. Whole(j, worker[z].rows) \/ \E x \in Req : Says(x, b, Group)
      BY <2>2, <3>1, <3>2
    <3> QED
      BY <1>1, <3>2, <3>3
  <2> QED
    BY <2>1, <2>2
<1>2. /\ needed' = DOMAIN BlockFills'
      /\ full' = Published(BlockFills') \ (needed \ DOMAIN BlockFills')
  BY DispatchOpens
<1>3. SUFFICES ASSUME b \in needed' PROVE b \in full'
  BY DEF Packed
<1>4. \E z \in Req : \E v : Says(z, b, v)
  BY <1>2, <1>3, SnapshotSays
<1>5. \E x \in Req : Says(x, b, Group)
  BY <1>1, <1>4
<1>6. BlockFills'[b] = Group
  BY <1>5, SnapshotSays
<1>7. b \in Published(BlockFills')
  BY <1>2, <1>3, <1>6 DEF Published
<1> QED
  BY <1>2, <1>3, <1>7

\* Once one request has filled a block, nobody keeps it from being packed.
LEMMA NewlyPacked ==
    ASSUME IInv, EpochsSettle, GrantInv, Sharing, MarksInv, PendingInv, Dispatch,
           NEW o, Dispatches(o), batch # NoBatch,
           NEW x \in Running, NEW k \in Nat, k + 1 \in DOMAIN request[x].table,
           NEW b, b = request[x].table[k + 1], Reaches(x, k)
    PROVE  Packed(b)'
<1>1. x \in Req /\ phase = "scheduling" /\ unsettled = NoBatch
  BY RunningTypes DEF IInv, Dispatch, MayDispatch
<1>2. b \in Block
  BY <1>1, TableTypes DEF IInv
<1>3. ASSUME NEW z \in Running, NEW j \in Nat, j + 1 \in DOMAIN request[z].table,
             request[z].table[j + 1] = b
      PROVE  Reaches(z, j)
  <2>1. CASE z = x
    <3>1. j + 1 = k + 1
      BY <1>1, <1>3, <2>1 DEF Sharing, LayoutInv
    <3>2. j = k
      BY <3>1
    <3> QED
      BY <2>1, <3>2
  <2>2. CASE z # x
    <3>1. cachedAt[b] = j + 1
      BY <1>3, <2>2 DEF Sharing, SharedInv
    <3>2. cachedAt[b] > 0
      BY <3>1
    <3> QED
      BY <1>1, <1>2, <1>3, <3>2, CacheReaches
  <2> QED
    BY <2>1, <2>2
<1>4. ASSUME NEW y \in DOMAIN worker, y \notin Running,
             NEW j \in Nat, j + 1 \in DOMAIN worker[y].ids, worker[y].ids[j + 1] = b
      PROVE  Whole(j, worker[y].rows) \/ \E z \in Req : Says(z, b, Group)
  BY <1>4, StrangerSays
<1> QED
  BY <1>3, <1>4, PackedAfter DEF Sharing

\* Nothing but the empty function is defined nowhere.
LEMMA EmptyPartial ==
    ASSUME NEW D, NEW V, NEW f \in Partial(D, V), DOMAIN f = {}
    PROVE  f = NoBatch
<1>1. PICK E \in SUBSET D : f \in [E -> V]
  BY DEF Partial
<1>2. f = [x \in {} |-> f[x]]
  BY <1>1
<1>3. NoBatch = [x \in {} |-> NoBatch[x]]
  BY DEF NoBatch
<1> QED
  BY <1>2, <1>3

\* Every cached block is packed after the step.
LEMMA DispatchCached ==
    ASSUME IInv, EpochsSettle, GrantInv, Sharing, CachedFull, MarksInv, PendingInv, Dispatch,
           NEW o, Dispatches(o)
    PROVE  CachedFull'
<1>1. phase = "scheduling" /\ unsettled = NoBatch /\ cachedAt' = cachedAt
  BY DEF Dispatch, MayDispatch
<1>2. SUFFICES ASSUME NEW b \in Block, cachedAt[b] \in 1 .. Hittable(MaxLen - 1)
               PROVE  Packed(b)'
  BY <1>1 DEF CachedFull, Hittable
<1>3. cachedAt[b] > 0
  <2>1. cachedAt[b] \in 0 .. Cardinality(Block)
    BY DEF IInv, TypesInv
  <2> QED
    BY <1>2, <2>1
<1>4. CASE batch = NoBatch
  <2>1. ~Arriving(b)
    BY <1>4, NoPartial DEF Arriving
  <2>2. Packed(b)
    BY <1>2, <2>1 DEF CachedFull
  <2>3. needed' = needed /\ full' = full
    BY <1>4, DispatchOpens
  <2> QED
    BY <2>2, <2>3 DEF Packed
<1>5. CASE batch # NoBatch
  <2>1. ASSUME NEW x \in Running, NEW k \in Nat, k + 1 \in DOMAIN request[x].table,
               request[x].table[k + 1] = b
        PROVE  Reaches(x, k)
    BY <1>1, <1>3, <2>1, CacheReaches
  <2>2. ASSUME NEW y \in DOMAIN worker, y \notin Running,
               NEW j \in Nat, j + 1 \in DOMAIN worker[y].ids, worker[y].ids[j + 1] = b
        PROVE  Whole(j, worker[y].rows) \/ \E z \in Req : Says(z, b, Group)
    BY <1>3, <2>2, CachedDead
  <2> QED
    BY <1>5, <2>1, <2>2, PackedAfter DEF Sharing
<1> QED
  BY <1>4, <1>5

\* A cached block is named by the snapshot, or it is packed.
LEMMA HitStays ==
    ASSUME IInv, EpochsSettle, GrantInv, LayoutInv, CachedFull, MarksInv, PendingInv, Dispatch,
           NEW b \in Block, cachedAt[b] \in 1 .. Hittable(MaxLen - 1)
    PROVE  b \in DOMAIN BlockFills' \/ Packed(b)
<1>1. CASE Arriving(b)
  <2>1. PICK z \in DOMAIN batch : \E i \in DOMAIN request[z].table :
              /\ request[z].table[i] = b
              /\ \/ Says(z, b, Group)
                 \/ /\ z \in DOMAIN worker /\ i \in DOMAIN worker[z].ids
                    /\ worker[z].ids[i] = b /\ Packed(b)
    BY <1>1, ArrivingSays
  <2>2. z \in Req
    BY BatchTypes DEF IInv
  <2> QED
    BY <2>1, <2>2, SnapshotSays
<1> QED
  BY <1>1 DEF CachedFull

\* So is a block in which a request of the batch has rows.
LEMMA BatchedStays ==
    ASSUME IInv, EpochsSettle, GrantInv, LayoutInv, CachedFull, MarksInv, PendingInv, Dispatch,
           NEW r \in DOMAIN batch, NEW rows, rows = Updated[r].rows,
           NEW k \in Nat, k + 1 \in DOMAIN request[r].table, k * Group < LocalTokens(rows),
           NEW b, b = request[r].table[k + 1]
    PROVE  b \in DOMAIN BlockFills' \/ Packed(b)
<1> DEFINE e == Entry(r, request[r].table)
           top == rows + batch[r].sched + Lookahead
<1>1. phase = "scheduling"
  BY DEF Dispatch, MayDispatch
<1>2. r \in Req /\ batch[r].sched \in Nat /\ Lookahead \in Nat
  BY BatchTypes, ServingAssumption DEF IInv
<1>3. rows \in Nat /\ top <= MaxEnd(e) /\ MaxEnd(e) \in Nat
  BY <1>1, BatchEntry
<1> HIDE DEF e
<1>4. rows <= MaxEnd(e)
  BY <1>2, <1>3
<1>5. k * Group < LocalTokens(MaxEnd(e))
  <2> DEFINE low == LocalTokens(rows)  high == LocalTokens(MaxEnd(e))  first == k * Group
  <2>1. low <= high
    BY <1>3, <1>4, CountMonotone
  <2>2. low \in Nat /\ high \in Nat /\ first \in Nat /\ first < low
    BY <1>3, CountParts, GeometryAssumption
  <2> HIDE DEF low, high, first
  <2>3. first < high
    BY <2>1, <2>2
  <2> QED
    BY <2>3 DEF high, first
<1>6. EntryBlock(r, e, k, b)
  BY EntrySays DEF e
<1>7. CASE \E v : Says(r, b, v)
  BY <1>2, <1>7, SnapshotSays
<1>8. CASE Whole(k, MinStart(e))
  <2>1. /\ r \in DOMAIN worker => Packed(b)
        /\ r \notin DOMAIN worker => cachedAt[b] = k + 1 /\ k + 1 <= Hittable(MaxLen - 1)
    BY <1>1, <1>8, BehindStart DEF e
  <2>2. CASE r \in DOMAIN worker
    BY <2>1, <2>2
  <2>3. CASE r \notin DOMAIN worker
    <3>1. b \in Block
      BY <1>2, TableTypes DEF IInv
    <3>2. k + 1 \in Nat /\ 1 <= k + 1
      OBVIOUS
    <3>3. Hittable(MaxLen - 1) \in Int
      BY ServingAssumption, Sizes DEF Hittable, Monus
    <3>4. cachedAt[b] \in 1 .. Hittable(MaxLen - 1)
      BY <2>1, <2>3, <3>2, <3>3
    <3> QED
      BY <3>1, <3>4, HitStays
  <2> QED
    BY <2>2, <2>3
<1> QED
  BY <1>5, <1>6, <1>7, <1>8 DEF EntryBlock

\* So is a block in which another running request has rows.
LEMMA OtherStays ==
    ASSUME IInv, EpochsSettle, ExactInv, GrantInv, Sharing, PendingInv, BudgetInv, RoomInv,
           FullInv, Dispatch, batch # NoBatch,
           NEW r \in Running, r \notin DOMAIN batch,
           NEW k \in Nat, k + 1 \in DOMAIN worker[r].ids,
           k * Group < LocalTokens(worker[r].rows), NEW b, b = worker[r].ids[k + 1]
    PROVE  b \in DOMAIN BlockFills' \/ Packed(b)
<1> DEFINE scheduled == [x \in DOMAIN batch |-> Entry(x, request[x].table)]
<1>1. phase = "scheduling" /\ r \notin DOMAIN unsettled /\ Assembled
  BY NoPartial DEF Dispatch, MayDispatch
<1>2. r \in DOMAIN worker /\ r \in Req
  BY RunningTypes DEF IInv, FlightInv
<1>3. /\ Update(Removed, scheduled) /\ DOMAIN scheduled = DOMAIN batch
  BY DEF Dispatch
<1> HIDE DEF scheduled
<1>4. ASSUME NEW x \in Req, x \notin Removed, x \notin DOMAIN batch, b \in DOMAIN requestBlocks[x]
      PROVE  b \in DOMAIN BlockFills'
  <2>1. requestBlocks'[x] = requestBlocks[x]
    BY <1>3, <1>4, UpdatedOthers
  <2>2. Says(x, b, requestBlocks[x][b])
    BY <1>4, <2>1 DEF Says
  <2> QED
    BY <1>4, <2>2, SnapshotSays
<1>5. r \notin Removed
  BY DEF IInv, QueuesInv, Removed, Unfinished
<1>6. PICK p, n \in Nat : Marked(r, p, n)
  BY <1>2 DEF FullInv, MarksInv
<1>7. MarkedBlock(r, p, n, k, b)
  BY <1>6 DEF Marked
<1>8. b \in DOMAIN requestBlocks[r] \/ Packed(b) \/ b \in DOMAIN resolvedBlocks[r] \/ LastEmpty
  BY <1>1, <1>7 DEF MarkedBlock
<1>9. CASE b \in DOMAIN requestBlocks[r]
  BY <1>2, <1>4, <1>5, <1>9
<1>10. ~LastEmpty
  <2>1. DOMAIN batch # {}
    BY EmptyPartial DEF IInv, TypesInv
  <2> QED
    BY <1>1, <1>2, <2>1, NobodyLeftOut
<1>11. CASE b \in DOMAIN resolvedBlocks[r]
  <2>1. CASE ~Held(b)
    <3>1. Says(r, b, resolvedBlocks[r][b])
      BY <1>11, <2>1 DEF Says
    <3> QED
      BY <1>2, <3>1, SnapshotSays
  <2>2. CASE Held(b)
    <3>1. PICK x \in Req : x \notin Removed /\ b \in DOMAIN requestBlocks[x]
      BY <2>2 DEF Held
    <3>2. requestBlocks[x] \in Fillings(Own(x))
      BY DEF IInv, TrackedInv
    <3>3. b \in Own(x)
      BY <3>1, <3>2, FillingParts
    <3>4. x \in DOMAIN worker /\ b \in Range(worker[x].ids)
      BY <3>3 DEF Own
    <3>5. x \in Running
      BY <3>1, <3>4 DEF IInv, FlightInv, Removed
    <3>6. CASE x \notin DOMAIN batch
      BY <1>4, <3>1, <3>6
    <3>7. CASE x \in DOMAIN batch
      <4>1. worker[x].ids \in Seq(Block) /\ worker[x].rows \in Nat
        BY <3>4, StateTypes DEF IInv
      <4>2. PICK i \in 1 .. Len(worker[x].ids) : b = worker[x].ids[i]
        BY <3>4, <4>1, SeqItems
      <4> DEFINE j == i - 1
      <4>3. j \in Nat /\ j + 1 = i /\ j + 1 \in DOMAIN worker[x].ids
        BY <4>1, <4>2
      <4> HIDE DEF j
      <4>4. Len(worker[x].ids) <= Len(request[x].table) /\ request[x].table[j + 1] = b
        BY <3>4, <3>5, <4>2, <4>3 DEF Sharing, LayoutInv
      <4>5. j + 1 \in DOMAIN request[x].table
        <5>1. DOMAIN request[x].table = 1 .. Len(request[x].table)
              /\ Len(request[x].table) \in Nat
          BY TableTypes DEF IInv
        <5>2. DOMAIN worker[x].ids = 1 .. Len(worker[x].ids) /\ Len(worker[x].ids) \in Nat
          BY <4>1
        <5> QED
          BY <4>3, <4>4, <5>1, <5>2
      <4>6. Span(j + 1) <= worker[x].rows
        BY <1>2, <3>4, <3>7, <4>2, <4>3 DEF Sharing, SharedInv
      <4>7. Whole(j, worker[x].rows) /\ worker[x].rows <= End(x) /\ End(x) \in Nat
        BY <1>1, <3>4, <3>5, <4>1, <4>3, <4>6, SpanWhole, RowsBefore DEF Rows
      <4>8. Whole(j, End(x))
        BY <4>1, <4>3, <4>7, WholeMonotone
      <4> DEFINE e == Entry(x, request[x].table)
      <4>9. EntryBlock(x, e, j, b)
        BY <3>7, <4>3, <4>4, <4>5, EntrySays DEF Sharing, FullInv
      <4> HIDE DEF e
      <4>10. CASE Says(x, b, Group)
        BY <4>10, SnapshotSays
      <4>11. CASE Whole(j, MinStart(e))
        BY <1>1, <3>4, <3>7, <4>3, <4>4, <4>5, <4>11, BehindStart DEF e, Sharing, FullInv
      <4> QED
        BY <4>8, <4>9, <4>10, <4>11 DEF EntryBlock
    <3> QED
      BY <3>6, <3>7
  <2> QED
    BY <2>1, <2>2
<1> QED
  BY <1>8, <1>9, <1>10, <1>11

\* No block leaves the snapshot unpacked while somebody can read it.
LEMMA NothingLost ==
    ASSUME IInv, EpochsSettle, ExactInv, GrantInv, Sharing, PendingInv, BudgetInv, RoomInv,
           FullInv, Dispatch, NEW o, Dispatches(o)
    PROVE  LeavesOnlyFull'
<1> DEFINE retired == needed \ DOMAIN BlockFills'
<1>1. phase = "scheduling" /\ lost = {}
  BY DEF Dispatch, MayDispatch, FullInv, LeavesOnlyFull
<1>2. CASE batch = NoBatch
  BY <1>1, <1>2, DispatchOpens DEF LeavesOnlyFull
<1>3. CASE batch # NoBatch
  <2>1. lost' = lost \cup ((retired \ Published(BlockFills')) \cap Readable(Updated))
    BY <1>3, DispatchOpens
  <2>2. ASSUME NEW b \in retired, b \notin Published(BlockFills'), b \in Readable(Updated)
        PROVE  FALSE
    <3>1. b \in needed /\ b \notin DOMAIN BlockFills' /\ b \in Block
      BY <2>2 DEF IInv, TypesInv
    <3>2. ~Packed(b)
      BY <2>2, <3>1 DEF Packed, Published
    <3>3. CASE cachedAt[b] \in 1 .. Hittable(MaxLen - 1)
      BY <3>1, <3>2, <3>3, HitStays DEF Sharing, FullInv
    <3>4. ASSUME NEW r \in DOMAIN Updated, b \in BlocksOf(Updated[r].ids, 0, Updated[r].rows)
          PROVE  FALSE
      <4>1. /\ DOMAIN Updated = (DOMAIN worker \ Removed) \cup DOMAIN batch
            /\ Updated[r] \in States
            /\ r \in DOMAIN batch => Updated[r].ids = request[r].table
            /\ r \notin DOMAIN batch => r \in DOMAIN worker /\ Updated[r] = worker[r]
        BY <3>4, UpdatedStates DEF IInv
      <4>2. r \in Running
        BY <3>4, <4>1 DEF IInv, FlightInv, QueuesInv, Removed
      <4>3. Updated[r].ids \in Seq(Block) /\ Updated[r].rows \in Nat
        BY <4>1 DEF States
      <4>4. PICK k \in Nat : /\ k + 1 \in DOMAIN Updated[r].ids /\ Updated[r].ids[k + 1] = b
                             /\ k * Group < LocalTokens(Updated[r].rows)
        BY <3>4, <4>3, ContextRow
      <4>5. CASE r \in DOMAIN batch
        BY <3>1, <3>2, <4>1, <4>4, <4>5, BatchedStays DEF Sharing, FullInv
      <4>6. CASE r \notin DOMAIN batch
        BY <1>3, <3>1, <3>2, <4>1, <4>2, <4>4, <4>6, OtherStays
      <4> QED
        BY <4>5, <4>6
    <3> QED
      BY <2>2, <3>3, <3>4 DEF Readable
  <2> QED
    BY <1>1, <2>1, <2>2 DEF LeavesOnlyFull
<1> QED
  BY <1>2, <1>3

-----------------------------------------------------------------------------
(* The marks after a step, and the theorem. *)

\* The marks of a request of the batch: the end it is sure to reach.
LEMMA BatchedMarks ==
    ASSUME IInv, EpochsSettle, GrantInv, Sharing, MarksInv, PendingInv, Dispatch,
           NEW o, Dispatches(o), batch # NoBatch, NEW r \in DOMAIN batch,
           NEW k \in Nat, k + 1 \in DOMAIN request[r].table,
           NEW b, b = request[r].table[k + 1], NEW p \in Nat, p = End(r)
    PROVE  MarkedBlock(r, p, p, k, b)'
<1> DEFINE e == Entry(r, request[r].table)
           u == unsettled'[r]
<1>1. phase = "scheduling" /\ unsettled = NoBatch
  BY DEF Dispatch, MayDispatch
<1>2. /\ Ordered(e) /\ e.rollback > 0 /\ e.table = request[r].table /\ e.table \in Seq(Block)
      /\ DOMAIN e.table = 1 .. Len(e.table) /\ r \in Req /\ r \in Running
      /\ MinStart(e) \in Nat /\ MaxEnd(e) \in Nat /\ batch[r].start \in Nat /\ End(r) \in Nat
      /\ MinStart(e) <= batch[r].start /\ batch[r].start < End(r)
      /\ batch[r].start + batch[r].sched <= MaxEnd(e)
  BY <1>1, EntryOrder
<1>3. Sound(e) /\ r \notin Removed
  BY <1>1, BatchEntry, AdvancedCounts DEF IInv
<1>4. EntryBlock(r, e, k, b)
  BY EntrySays DEF Sharing
<1>5. u \in Nat /\ u <= MaxEnd(e) /\ r \in DOMAIN (unsettled')
  <2>1. /\ u = batch[r].start + batch[r].sched - o[r].rej /\ r \in DOMAIN (unsettled')
    BY DispatchOpens
  <2>2. /\ o[r].rej \in Nat /\ o[r].rej <= batch[r].drafts
        /\ batch[r].sched \in Nat /\ batch[r].drafts \in Nat
    BY DEF Dispatches
  <2>3. batch[r].drafts <= batch[r].sched
    BY DEF IInv, BatchInv
  <2> DEFINE start == batch[r].start  sched == batch[r].sched  drafts == batch[r].drafts
             rej == o[r].rej  top == MaxEnd(e)
  <2>4. /\ start \in Nat /\ sched \in Nat /\ drafts \in Nat /\ rej \in Nat /\ top \in Nat
        /\ rej <= drafts /\ drafts <= sched /\ start + sched <= top
        /\ u = start + sched - rej
    BY <1>2, <2>1, <2>2, <2>3
  <2> HIDE DEF u, e, start, sched, drafts, rej, top
  <2>5. u \in Nat /\ u <= top
    BY <2>4
  <2> QED
    BY <2>1, <2>5 DEF top
<1>6. \/ \A j \in Touched(e) : e.table[j + 1] \in DOMAIN pendingBlocks'[r]
      \/ Touched(e) = {}
  <2> DEFINE scheduled == [x \in DOMAIN batch |-> Entry(x, request[x].table)]
  <2>1. Update(Removed, scheduled) /\ r \in DOMAIN scheduled /\ e = scheduled[r]
    BY DEF Dispatch
  <2> HIDE DEF scheduled, e
  <2> QED
    BY <1>2, <1>3, <2>1, UpdatedPending
<1>7. k \in Touched(e) => b \in DOMAIN pendingBlocks'[r]
  BY <1>2, <1>6
<1>8. DOMAIN resolvedBlocks'[r] = {}
  BY <1>2, DispatchTracks, NoFillings
<1>9. Whole(k, p) => Packed(b)'
  <2> SUFFICES ASSUME Whole(k, p) PROVE Packed(b)'
    OBVIOUS
  <2>1. Reaches(r, k)
    BY DEF Reaches
  <2> QED
    BY <1>2, <2>1, NewlyPacked
<1>10. Whole(k, p) /\ b \in DOMAIN requestBlocks'[r] => requestBlocks'[r][b] = Group
  BY <1>4 DEF EntryBlock
<1> HIDE DEF e, u
<1>11. Whole(k, MinStart(e)) => Whole(k, p)
  <2>1. MinStart(e) <= p
    BY <1>2
  <2> QED
    BY <1>2, <2>1, WholeMonotone
<1>12. k * Group < LocalTokens(u)
          => b \in DOMAIN requestBlocks'[r] \cup DOMAIN pendingBlocks'[r] \/ Whole(k, p)
  <2> SUFFICES ASSUME k * Group < LocalTokens(u)
               PROVE  b \in DOMAIN requestBlocks'[r] \cup DOMAIN pendingBlocks'[r] \/ Whole(k, p)
    OBVIOUS
  <2>1. k * Group < LocalTokens(MaxEnd(e))
    <3> DEFINE low == LocalTokens(u)  high == LocalTokens(MaxEnd(e))  first == k * Group
    <3>1. low <= high
      BY <1>2, <1>5, CountMonotone
    <3>2. low \in Nat /\ high \in Nat
      BY <1>2, <1>5, CountParts
    <3>3. first \in Nat /\ first < low
      BY GeometryAssumption
    <3> HIDE DEF low, high, first
    <3>4. first < high
      BY <3>1, <3>2, <3>3
    <3> QED
      BY <3>4 DEF high, first
  <2> QED
    BY <1>4, <1>7, <1>11, <2>1 DEF EntryBlock
<1>13. Whole(k, u) => b \in DOMAIN pendingBlocks'[r] \/ Whole(k, p)
  <2> SUFFICES ASSUME Whole(k, u), k \notin Touched(e) PROVE Whole(k, p)
    BY <1>7
  <2>1. Whole(k, MinStart(e))
    BY <1>2, <1>5, UntouchedBehind
  <2> QED
    BY <1>11, <2>1
<1> QED
  BY <1>5, <1>8, <1>9, <1>10, <1>12, <1>13 DEF MarkedBlock, NamedFull, u

\* The marks of the other requests stay where they are.
LEMMA OtherMarks ==
    ASSUME IInv, EpochsSettle, GrantInv, Sharing, MarksInv, PendingInv, Dispatch,
           NEW o, Dispatches(o), NEW r \in Running, r \notin DOMAIN batch,
           NEW p \in Nat, NEW n \in Nat, Marked(r, p, n),
           NEW k \in Nat, k + 1 \in DOMAIN worker[r].ids, NEW b, b = worker[r].ids[k + 1]
    PROVE  MarkedBlock(r, p, n, k, b)'
<1> DEFINE scheduled == [x \in DOMAIN batch |-> Entry(x, request[x].table)]
<1>1. phase = "scheduling" /\ unsettled = NoBatch /\ r \notin DOMAIN unsettled
  BY NoPartial DEF Dispatch, MayDispatch
<1>2. r \in Req /\ r \in DOMAIN worker /\ r \notin Removed
  <2>1. r \in Req
    BY RunningTypes DEF IInv
  <2>2. r \in DOMAIN worker
    BY DEF IInv, FlightInv
  <2>3. r \notin Removed
    BY DEF IInv, QueuesInv, Removed, Unfinished
  <2> QED
    BY <2>1, <2>2, <2>3
<1>3. worker[r].ids = request[r].table
  BY <1>2 DEF Sharing, LayoutInv
<1>4. /\ requestBlocks'[r] = requestBlocks[r]
      /\ DOMAIN resolvedBlocks'[r] = {}
  <2>1. Update(Removed, scheduled) /\ r \notin DOMAIN scheduled
    BY DEF Dispatch
  <2> HIDE DEF scheduled
  <2> QED
    BY <1>2, <2>1, UpdatedOthers, NoFillings
<1>5. worker'[r] = worker[r]
  BY DEF Dispatches
<1>6. r \notin DOMAIN (unsettled')
  BY NoPartial, DispatchOpens
<1>7. MarkedBlock(r, p, n, k, b) /\ p <= n
  BY DEF Marked
<1>8. Whole(k, p) => Packed(b)'
  <2> SUFFICES ASSUME Whole(k, p) PROVE Packed(b)'
    OBVIOUS
  <2>1. CASE batch = NoBatch
    <3>1. needed' = needed /\ full' = full
      BY <2>1, DispatchOpens
    <3> QED
      BY <1>7, <3>1 DEF MarkedBlock, Packed
  <2>2. CASE batch # NoBatch
    <3>1. Whole(k, n)
      BY <1>7, WholeMonotone
    <3>2. Reaches(r, k)
      BY <3>1 DEF Reaches
    <3> QED
      BY <1>3, <2>2, <3>2, NewlyPacked
  <2> QED
    BY <2>1, <2>2
<1>9. Whole(k, n) => Packed(b)' \/ LastEmpty'
  <2> SUFFICES ASSUME Whole(k, n) PROVE Packed(b)' \/ LastEmpty'
    OBVIOUS
  <2>1. CASE batch = NoBatch
    <3>1. inflight' # << >> /\ inflight'[Len(inflight')] = o /\ o = NoBatch
      BY <2>1, DispatchOpens
    <3>2. DOMAIN inflight'[Len(inflight')] = {}
      BY <3>1, NoPartial
    <3> QED
      BY <3>1, <3>2 DEF LastEmpty
  <2>2. CASE batch # NoBatch
    <3>1. Reaches(r, k)
      BY DEF Reaches
    <3> QED
      BY <1>3, <2>2, <3>1, NewlyPacked
  <2> QED
    BY <2>1, <2>2
<1> HIDE DEF scheduled
<1> QED
  BY <1>1, <1>4, <1>5, <1>6, <1>7, <1>8, <1>9 DEF MarkedBlock, NamedFull

\* The marks after a step, of a request of the batch.
LEMMA BatchedMarked ==
    ASSUME IInv, EpochsSettle, GrantInv, Sharing, MarksInv, PendingInv, Dispatch,
           NEW o, Dispatches(o), batch # NoBatch, NEW r \in DOMAIN batch,
           NEW p \in Nat, p = End(r)
    PROVE  Marked(r, p, p)'
<1> DEFINE start == batch[r].start  sched == batch[r].sched  drafts == batch[r].drafts
           rej == o[r].rej  old == Updated[r].rows  behind == Behind(r)
           u == unsettled'[r]  after == worker'[r].rows  computed == request'[r].computed
<1>1. phase = "scheduling"
  BY DEF Dispatch, MayDispatch
<1>2. /\ start \in Nat /\ sched \in Nat /\ drafts \in Nat /\ rej \in Nat /\ old \in Nat
      /\ rej <= drafts /\ o[r].drafts = drafts
      /\ start = old + behind /\ after = old + sched - rej
      /\ computed = start + sched
      /\ worker'[r].ids = request[r].table
  <2>1. request[r].computed = start
    BY DEF Dispatches
  <2> QED
    BY <2>1 DEF Dispatches
<1>3. behind \in Nat
  BY FlightSlack DEF IInv
<1>4. drafts <= sched /\ drafts <= Lookahead
  BY DEF IInv, BatchInv
<1>5. u = start + sched - rej /\ r \in DOMAIN (unsettled')
  BY DispatchOpens
<1>6. p = start + sched - drafts
  BY DEF End
<1>7. Lookahead \in Nat
  BY ServingAssumption
<1>8. ASSUME NEW i \in Nat, NewestIn(r, i)'
      PROVE  inflight'[i][r].drafts = drafts
  <2>1. /\ i \in DOMAIN (inflight') /\ r \in DOMAIN inflight'[i]
        /\ \A j \in DOMAIN (inflight') : j > i => r \notin DOMAIN inflight'[j]
    BY <1>8 DEF NewestIn
  <2>2. /\ Len(inflight') = Len(inflight) + 1 /\ inflight'[Len(inflight')] = o
        /\ Len(inflight) \in Nat /\ DOMAIN (inflight') = 1 .. Len(inflight')
    BY DispatchOpens
  <2>3. r \in DOMAIN o
    BY DEF Dispatches
  <2>4. Len(inflight') \in DOMAIN (inflight') /\ Len(inflight') \in Nat
    BY <2>2
  <2>5. ~(Len(inflight') > i)
    BY <2>1, <2>2, <2>3, <2>4
  <2>6. i = Len(inflight')
    BY <2>1, <2>2, <2>4, <2>5
  <2> QED
    BY <1>2, <2>2, <2>6
<1> HIDE DEF start, sched, drafts, rej, old, behind, u, after, computed
<1>9. /\ after <= u /\ p <= u
      /\ computed <= p + drafts /\ computed <= p + Lookahead /\ computed \in Nat
  BY <1>2, <1>3, <1>4, <1>5, <1>6, <1>7
<1>10. Monus(computed, Lookahead) <= p
  BY <1>7, <1>9 DEF Monus
<1>11. Ahead(r, p)'
  <2>1. \A i \in Nat : NewestIn(r, i)' => computed <= p + inflight'[i][r].drafts
    BY <1>8, <1>9
  <2> QED
    BY <1>10, <2>1 DEF Ahead, computed
<1>12. ASSUME NEW k \in Nat, k + 1 \in DOMAIN worker'[r].ids,
              NEW b, b = worker'[r].ids[k + 1]
       PROVE  MarkedBlock(r, p, p, k, b)'
  BY <1>2, <1>12, BatchedMarks
<1>13. ASSUME NEW k \in Nat, k + 1 \in DOMAIN worker'[r].ids
       PROVE  MarkedBlock(r, p, p, k, worker[r].ids[k + 1])'
  BY <1>12, <1>13 DEF MarkedBlock, NamedFull, Packed, LastEmpty
<1>14. /\ r \in DOMAIN (unsettled') /\ worker'[r].rows <= unsettled'[r] /\ p <= unsettled'[r]
       /\ p <= p
  BY <1>5, <1>9 DEF u, after
<1> QED
  BY <1>11, <1>13, <1>14 DEF Marked

\* The marks after a step, of another request.
LEMMA OtherMarked ==
    ASSUME IInv, EpochsSettle, GrantInv, Sharing, MarksInv, PendingInv, Dispatch,
           NEW o, Dispatches(o), NEW r \in Running, r \notin DOMAIN batch,
           NEW p \in Nat, NEW n \in Nat, Marked(r, p, n)
    PROVE  Marked(r, p, n)'
<1>1. r \in Req /\ r \in DOMAIN worker /\ r \notin DOMAIN unsettled
  BY RunningTypes, NoPartial DEF IInv, FlightInv, Dispatch, MayDispatch
<1>2. /\ worker'[r] = worker[r] /\ request'[r] = request[r] /\ Running' = Running
      /\ r \notin DOMAIN o
  BY <1>1 DEF Dispatches
<1>3. r \notin DOMAIN (unsettled')
  BY NoPartial, DispatchOpens
<1>4. p <= n /\ Ahead(r, p) /\ worker[r].rows <= n
  BY <1>1 DEF Marked
<1>5. ASSUME NEW i \in Nat, NewestIn(r, i)'
      PROVE  NewestIn(r, i) /\ inflight'[i] = inflight[i]
  <2>1. /\ i \in DOMAIN (inflight') /\ r \in DOMAIN inflight'[i]
        /\ \A j \in DOMAIN (inflight') : j > i => r \notin DOMAIN inflight'[j]
    BY <1>5 DEF NewestIn
  <2>2. /\ Len(inflight') = Len(inflight) + 1 /\ inflight'[Len(inflight')] = o
        /\ Len(inflight) \in Nat /\ DOMAIN (inflight') = 1 .. Len(inflight')
        /\ DOMAIN inflight = 1 .. Len(inflight)
        /\ \A j \in DOMAIN inflight : inflight'[j] = inflight[j]
    BY DispatchOpens
  <2>3. i # Len(inflight')
    BY <1>2, <2>1, <2>2
  <2>4. i \in DOMAIN inflight /\ DOMAIN inflight \subseteq DOMAIN (inflight')
    BY <2>1, <2>2, <2>3
  <2> QED
    BY <2>1, <2>2, <2>4 DEF NewestIn
<1>6. Ahead(r, p)'
  BY <1>2, <1>4, <1>5 DEF Ahead
<1>7. ASSUME NEW k \in Nat, k + 1 \in DOMAIN worker'[r].ids,
             NEW b, b = worker'[r].ids[k + 1]
      PROVE  MarkedBlock(r, p, n, k, b)'
  BY <1>2, <1>7, OtherMarks
<1>8. ASSUME NEW k \in Nat, k + 1 \in DOMAIN worker'[r].ids
      PROVE  MarkedBlock(r, p, n, k, worker[r].ids[k + 1])'
  BY <1>7, <1>8 DEF MarkedBlock, NamedFull, Packed, LastEmpty
<1> QED
  BY <1>2, <1>3, <1>4, <1>6, <1>8 DEF Marked

LEMMA DispatchFull ==
    ASSUME IInv, EpochsSettle, ExactInv, GrantInv, Sharing, PendingInv, BudgetInv, RoomInv,
           FullInv, Dispatch
    PROVE  FullInv'
<1>1. PICK o : Dispatches(o)
  BY DispatchSends
<1>2. LeavesOnlyFull'
  BY <1>1, NothingLost
<1>3. CachedFull'
  BY <1>1, DispatchCached DEF FullInv
<1>4. ASSUME NEW r \in DOMAIN (worker')
      PROVE  \E p, n \in Nat : Marked(r, p, n)'
  <2>1. r \in Running
    BY <1>1 DEF Dispatches
  <2>2. CASE r \in DOMAIN batch
    <3>1. batch # NoBatch
      BY <2>2, NoPartial
    <3>2. End(r) \in Nat
      BY <2>1, RowsBefore DEF Dispatch, MayDispatch
    <3>3. PICK p \in Nat : p = End(r)
      BY <3>2
    <3>4. Marked(r, p, p)'
      BY <1>1, <2>2, <3>1, <3>3, BatchedMarked DEF FullInv
    <3> QED
      BY <3>4
  <2>3. CASE r \notin DOMAIN batch
    <3>1. r \in DOMAIN worker
      BY <2>1, <2>3 DEF IInv, FlightInv
    <3>2. PICK p, n \in Nat : Marked(r, p, n)
      BY <3>1 DEF FullInv, MarksInv
    <3>3. Marked(r, p, n)'
      BY <1>1, <2>1, <2>3, <3>2, OtherMarked DEF FullInv
    <3> QED
      BY <3>3
  <2> QED
    BY <2>2, <2>3
<1>5. MarksInv'
  BY <1>4 DEF MarksInv
<1> QED
  BY <1>2, <1>3, <1>5 DEF FullInv

LEMMA NextFull ==
    ASSUME UseEagle, Lookahead <= BlockTokens + 1,
           IInv, IInv', EpochsSettle, ExactInv, GrantInv, Sharing, PendingInv, BudgetInv,
           RoomInv, FullInv, [Next]_vars
    PROVE  FullInv'
<1>1. CASE StartStep \/ UNCHANGED vars
  BY <1>1, StartStepFull
<1>2. CASE ScheduleRunning
  BY <1>2, ScheduleRunningFull
<1>3. CASE Preempt
  BY <1>3, PreemptFull
<1>4. CASE Resume
  BY <1>4, ResumeAdmits, AdmitsFull
<1>5. CASE Dispatch
  BY <1>5, DispatchFull
<1>6. CASE Settle
  BY <1>6, SettleFull DEF Sharing
<1>7. CASE Complete
  BY <1>7, CompleteFull DEF Sharing
<1>8. ASSUME NEW r \in Req, AdmitNew(r)
      PROVE  FullInv'
  BY <1>8, AdmitNewAdmits, AdmitsFull
<1>9. ASSUME NEW r \in Req, Abort(r)
      PROVE  FullInv'
  BY <1>9, AbortFull
<1> QED
  BY <1>1, <1>2, <1>3, <1>4, <1>5, <1>6, <1>7, <1>8, <1>9 DEF Next

\* A block with rows that a prefix hit or a live request can still read leaves
\* the snapshot only after it was published as full, so that prepare_step has
\* packed it: for any number of requests, ranks, blocks and rejections, whatever
\* is preempted, resumed, aborted or shared.  It needs use_eagle, without which
\* a prefix hit may end in a block whose last rows are still speculative, and
\* num_spec_tokens no greater than a block and one token.
THEOREM FullTheorem ==
    ASSUME UseEagle, Lookahead <= BlockTokens + 1
    PROVE  Spec => []LeavesOnlyFull
<1>1. IInv /\ [Next]_vars => IInv'
  BY NextInv
<1>2. IInv /\ IInv' /\ EpochsSettle /\ (ExactInv /\ GrantInv) /\ Sharing /\ PendingInv
        /\ BudgetInv /\ RoomInv /\ FullInv /\ [Next]_vars => FullInv'
  BY NextFull
<1>3. Init => FullInv
  BY InitFull
<1>4. FullInv => LeavesOnlyFull
  BY DEF FullInv
<1> QED
  BY <1>1, <1>2, <1>3, <1>4, AlwaysIInv, AheadTheorem, SharingTheorem, AlwaysPending, AlwaysBudget,
     AlwaysRoom, EpochTheorem, PTL DEF Spec

=============================================================================
