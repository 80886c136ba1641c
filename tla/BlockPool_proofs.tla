-------------------------- MODULE BlockPool_proofs --------------------------
(***************************************************************************)
(* For any sets of blocks, requests and contents, any size of a block, any *)
(* length of a model and any lookahead: the free list, the reference       *)
(* counts and the hash index agree, allocate_slots never fails after its   *)
(* checks, what requests read is their own text, the beginning of what can *)
(* be hit can be hit, and the pool implements PrefixCache.                 *)
(*                                                                         *)
(* It begins with the free queue, a list of nodes linked both ways between *)
(* two ends that are no blocks: for any set of blocks, the nodes that both *)
(* walks see, and what remove, popleft_n, append_n and prepend_n make of   *)
(* them, with the counter.                                                 *)
(***************************************************************************)
EXTENDS BlockPool, FiniteSetTheorems, WellFoundedInduction, TLAPS

-----------------------------------------------------------------------------
(* Induction over the natural numbers, by a least counterexample. *)

LEMMA LeastNatural ==
    ASSUME NEW T \in SUBSET Nat, T # {}
    PROVE  \E n \in T : \A m \in T : n <= m
<1>1. IsWellFoundedOn(OpToRel(<, Nat), Nat)
  BY NatLessThanWellFounded
<1>2. PICK n \in T : \A m \in T : ~ (<<m, n>> \in OpToRel(<, Nat))
  BY <1>1, WFMin
<1>3. ASSUME NEW m \in T PROVE n <= m
  <2>1. ~ (<<m, n>> \in OpToRel(<, Nat)) /\ <<m, n>> \in Nat \X Nat
    BY <1>2
  <2>2. ~ (m < n)
    BY <2>1 DEF OpToRel
  <2> QED
    BY <2>2
<1> QED
  BY <1>3

\* What holds of 0, and of n + 1 whenever it holds of n < bound, holds up to the bound.
LEMMA BoundedInduction ==
    ASSUME NEW bound \in Nat, NEW T, 0 \in T, \A n \in 0 .. bound - 1 : n \in T => n + 1 \in T
    PROVE  \A n \in 0 .. bound : n \in T
<1> SUFFICES ASSUME NEW m \in 0 .. bound, m \notin T PROVE FALSE
  OBVIOUS
<1> DEFINE U == {n \in 0 .. bound : n \notin T}
<1>1. U \in SUBSET Nat /\ U # {}
  OBVIOUS
<1>2. PICK n \in U : \A k \in U : n <= k
  BY <1>1, LeastNatural
<1>3. n # 0 /\ n - 1 \in 0 .. bound - 1 /\ n - 1 \notin U
  BY <1>2
<1>4. n - 1 \in T /\ (n - 1) + 1 = n
  BY <1>3
<1> QED
  BY <1>2, <1>3, <1>4

-----------------------------------------------------------------------------
(* The free queue.  The list of n blocks is a chain c of nodes: c[0] is the  *)
(* fake head, c[n + 1] the fake tail, and the blocks are between them.       *)

LEMMA Ends ==
    /\ FakeHead \in Nodes /\ FakeTail \in Nodes /\ FakeHead # FakeTail
    /\ NoBlock \notin Nodes /\ FakeHead \notin Block /\ FakeTail \notin Block
    /\ Block \subseteq Nodes
  BY NodesAssumption DEF Nodes, FakeHead, FakeTail, NoBlock

Listed(c, n) == {c[i] : i \in 1 .. n}

Linked(q, x, y) == q.next[x] = y /\ q.prev[y] = x

\* The shape of a list, whatever its links.
Row(c, n) ==
    /\ n \in Nat
    /\ c[0] = FakeHead /\ c[n + 1] = FakeTail
    /\ \A i \in 1 .. n : c[i] \in Block
    /\ \A i, j \in 1 .. n : c[i] = c[j] => i = j

Chain(q, c, n) ==
    /\ Row(c, n)
    /\ q \in QueueType /\ q.num = n
    /\ \A i \in 0 .. n : Linked(q, c[i], c[i + 1])
    /\ q.next[FakeTail] = NoBlock /\ q.prev[FakeHead] = NoBlock
    /\ \A b \in Block \ Listed(c, n) : q.next[b] = NoBlock /\ q.prev[b] = NoBlock

LEMMA RowNodes ==
    ASSUME NEW c, NEW n, Row(c, n)
    PROVE  /\ \A i \in 0 .. n + 1 : c[i] \in Nodes
           /\ \A i, j \in 0 .. n + 1 : c[i] = c[j] => i = j
           /\ Listed(c, n) \subseteq Block
<1>1. /\ n \in Nat /\ c[0] = FakeHead /\ c[n + 1] = FakeTail
      /\ \A i \in 1 .. n : c[i] \in Block
      /\ \A i, j \in 1 .. n : c[i] = c[j] => i = j
  BY DEF Row
<1>2. ASSUME NEW i \in 0 .. n + 1 PROVE i = 0 \/ i = n + 1 \/ i \in 1 .. n
  BY <1>1
<1>3. \A i \in 0 .. n + 1 : c[i] \in Nodes
  BY <1>1, <1>2, Ends
<1>4. ASSUME NEW i \in 0 .. n + 1, NEW j \in 0 .. n + 1, c[i] = c[j] PROVE i = j
  <2>1. i = 0 => j = 0
    BY <1>1, <1>2, <1>4, Ends
  <2>2. i = n + 1 => j = n + 1
    BY <1>1, <1>2, <1>4, Ends
  <2>3. i \in 1 .. n => j \in 1 .. n
    BY <1>1, <1>2, <1>4, Ends
  <2> QED
    BY <1>1, <1>2, <1>4, <2>1, <2>2, <2>3
<1> QED
  BY <1>1, <1>3, <1>4 DEF Listed

\* Walk follows the links step by step.
Steps(links, from, n, f) ==
    f = [i \in 0 .. n |->
            IF i = 0 THEN from
            ELSE IF f[i - 1] \in Nodes /\ links[f[i - 1]] # NoBlock
                 THEN links[f[i - 1]] ELSE f[i - 1]]

LEMMA StepsExist ==
    ASSUME NEW links, NEW from, NEW n \in Nat
    PROVE  \E f : Steps(links, from, n, f)
<1> DEFINE T == {m \in Nat : \E f : Steps(links, from, m, f)}
<1>1. 0 \in T
  <2> DEFINE f == [i \in 0 .. 0 |-> from]
  <2>1. Steps(links, from, 0, f)
    BY DEF Steps
  <2> QED
    BY <2>1
<1>2. ASSUME NEW m \in 0 .. n - 1, m \in T PROVE m + 1 \in T
  <2>1. PICK f : Steps(links, from, m, f)
    BY <1>2
  <2> DEFINE next == IF f[m] \in Nodes /\ links[f[m]] # NoBlock THEN links[f[m]] ELSE f[m]
             g == [i \in 0 .. m + 1 |-> IF i = m + 1 THEN next ELSE f[i]]
  <2>2. m \in Nat /\ \A i \in 0 .. m : g[i] = f[i]
    OBVIOUS
  <2>3. f[0] = from /\ \A i \in 1 .. m : f[i] = IF f[i - 1] \in Nodes /\ links[f[i - 1]] # NoBlock
                                              THEN links[f[i - 1]] ELSE f[i - 1]
    BY <2>1, <2>2 DEF Steps
  <2>4. ASSUME NEW i \in 0 .. m + 1
        PROVE  g[i] = IF i = 0 THEN from
                      ELSE IF g[i - 1] \in Nodes /\ links[g[i - 1]] # NoBlock
                           THEN links[g[i - 1]] ELSE g[i - 1]
    <3>1. i = 0 \/ i \in 1 .. m \/ i = m + 1
      BY <2>2
    <3>2. CASE i = 0
      BY <2>2, <2>3, <3>2
    <3>3. CASE i \in 1 .. m
      <4>1. g[i] = f[i] /\ g[i - 1] = f[i - 1] /\ i # 0
        BY <2>2, <3>3
      <4> HIDE DEF g
      <4> QED
        BY <2>3, <3>3, <4>1
    <3>4. CASE i = m + 1
      <4>1. g[i] = next /\ g[i - 1] = f[m] /\ i # 0
        BY <2>2, <3>4
      <4> HIDE DEF g
      <4> QED
        BY <4>1
    <3> QED
      BY <3>1, <3>2, <3>3, <3>4
  <2>5. Steps(links, from, m + 1, g)
    BY <2>4 DEF Steps
  <2> QED
    BY <2>2, <2>5
<1> HIDE DEF T
<1>3. n \in T
  BY <1>1, <1>2, BoundedInduction
<1> QED
  BY <1>3 DEF T

LEMMA WalkSteps ==
    ASSUME NEW links, NEW from, NEW n \in Nat
    PROVE  \E f : Steps(links, from, n, f) /\ Walk(links, from, n) = [i \in 1 .. n |-> f[i]]
<1> DEFINE h == CHOOSE f : Steps(links, from, n, f)
<1>1. Steps(links, from, n, h)
  BY StepsExist, Zenon
<1>2. Walk(links, from, n) = [i \in 1 .. n |-> h[i]]
  BY Zenon DEF Walk, Steps
<1> QED
  BY <1>1, <1>2, Zenon

\* What a walk finds if the links lead along c.
LEMMA WalkAlong ==
    ASSUME NEW links, NEW c, NEW n \in Nat, \A i \in 0 .. n : c[i] \in Nodes,
           \A i \in 0 .. n - 1 : links[c[i]] = c[i + 1]
    PROVE  Walk(links, c[0], n) = [i \in 1 .. n |-> c[i]]
<1>1. PICK f : Steps(links, c[0], n, f) /\ Walk(links, c[0], n) = [i \in 1 .. n |-> f[i]]
  BY WalkSteps
<1>2. /\ f[0] = c[0]
      /\ \A i \in 1 .. n : f[i] = IF f[i - 1] \in Nodes /\ links[f[i - 1]] # NoBlock
                                   THEN links[f[i - 1]] ELSE f[i - 1]
  BY <1>1 DEF Steps
<1> DEFINE T == {m \in 0 .. n : f[m] = c[m]}
<1>3. 0 \in T
  BY <1>2
<1>4. ASSUME NEW m \in 0 .. n - 1, m \in T PROVE m + 1 \in T
  <2>1. m + 1 \in 1 .. n /\ (m + 1) - 1 = m /\ f[m] = c[m]
    BY <1>4
  <2>2. c[m] \in Nodes /\ links[c[m]] = c[m + 1] /\ c[m + 1] \in Nodes
    BY <2>1
  <2>3. f[m + 1] = c[m + 1]
    BY <1>2, <2>1, <2>2, Ends
  <2> QED
    BY <2>1, <2>3
<1> HIDE DEF T
<1>5. \A m \in 0 .. n : m \in T
  BY <1>3, <1>4, BoundedInduction
<1> QED
  BY <1>1, <1>5 DEF T

\* The chain is what both walks see.
LEMMA ChainSound ==
    ASSUME NEW q, NEW c, NEW n, Chain(q, c, n)
    PROVE  /\ \A m \in 0 .. n + 1 : FirstN(q, m) = [i \in 1 .. m |-> c[i]]
           /\ Order(q) = [i \in 1 .. n |-> c[i]]
           /\ ToSet(Order(q)) = Listed(c, n)
           /\ WellLinked(q)
<1>1. /\ Row(c, n) /\ n \in Nat /\ q.num = n /\ c[0] = FakeHead /\ c[n + 1] = FakeTail
      /\ \A i \in 0 .. n : q.next[c[i]] = c[i + 1] /\ q.prev[c[i + 1]] = c[i]
      /\ \A b \in Block \ Listed(c, n) : q.next[b] = NoBlock /\ q.prev[b] = NoBlock
  BY DEF Chain, Row, Linked
<1>2. /\ \A i \in 0 .. n + 1 : c[i] \in Nodes
      /\ \A i, j \in 0 .. n + 1 : c[i] = c[j] => i = j
      /\ Listed(c, n) \subseteq Block
  BY <1>1, RowNodes
<1>3. ASSUME NEW m \in 0 .. n + 1 PROVE FirstN(q, m) = [i \in 1 .. m |-> c[i]]
  <2>1. m \in Nat /\ (\A i \in 0 .. m : i \in 0 .. n + 1) /\ \A i \in 0 .. m - 1 : i \in 0 .. n
    BY <1>1
  <2>a. \A i \in 0 .. m : c[i] \in Nodes
    BY <1>2, <2>1
  <2>b. \A i \in 0 .. m - 1 : q.next[c[i]] = c[i + 1]
    BY <1>1, <2>1
  <2>2. Walk(q.next, c[0], m) = [i \in 1 .. m |-> c[i]]
    <3>1. m \in Nat
      BY <2>1
    <3> DEFINE links == q.next
    <3>2. \A i \in 0 .. m - 1 : links[c[i]] = c[i + 1]
      BY <2>b
    <3> HIDE DEF links
    <3>3. Walk(links, c[0], m) = [i \in 1 .. m |-> c[i]]
      BY <3>1, <2>a, <3>2, WalkAlong
    <3> QED
      BY <3>3 DEF links
  <2> QED
    BY <1>1, <2>2 DEF FirstN
<1>4. Order(q) = [i \in 1 .. n |-> c[i]]
  BY <1>1, <1>3 DEF Order
<1>5. DOMAIN Order(q) = 1 .. n /\ Len(Order(q)) = n /\ \A i \in 1 .. n : Order(q)[i] = c[i]
  <2> DEFINE s == [i \in 1 .. n |-> c[i]]
  <2>1. DOMAIN s = 1 .. n /\ (\A i \in 1 .. n : s[i] = c[i]) /\ n \in Nat
    BY <1>1
  <2>2. s \in Seq(Nodes)
    BY <1>1, <1>2
  <2>3. Len(s) \in Nat /\ DOMAIN s = 1 .. Len(s)
    <3> HIDE DEF s
    <3> QED
      BY <2>2
  <2>4. Len(s) = n
    BY <2>1, <2>3
  <2> QED
    BY <1>4, <2>1, <2>4
<1>6. BackOrder(q) = [i \in 1 .. n |-> c[n + 1 - i]]
  <2> DEFINE d == [i \in 0 .. n |-> c[n + 1 - i]]
  <2>1. \A i \in 0 .. n : n + 1 - i \in 0 .. n + 1
    BY <1>1
  <2>2. \A i \in 0 .. n : d[i] \in Nodes
    BY <1>2, <2>1
  <2>3. ASSUME NEW i \in 0 .. n - 1 PROVE q.prev[d[i]] = d[i + 1]
    <3>1. n - i \in 0 .. n /\ (n - i) + 1 = n + 1 - i /\ n + 1 - (i + 1) = n - i /\ i + 1 \in 0 .. n
          /\ i \in 0 .. n
      BY <1>1
    <3>2. q.prev[c[(n - i) + 1]] = c[n - i]
      BY <1>1, <3>1
    <3> QED
      BY <3>1, <3>2
  <2>4. d[0] = FakeTail
    BY <1>1
  <2> HIDE DEF d
  <2>a. n \in Nat
    BY <1>1
  <2>5. Walk(q.prev, d[0], n) = [i \in 1 .. n |-> d[i]]
    BY <2>a, <2>2, <2>3, WalkAlong
  <2>6. \A i \in 1 .. n : d[i] = c[n + 1 - i]
    BY <1>1 DEF d
  <2> QED
    BY <1>1, <2>4, <2>5, <2>6 DEF BackOrder
<1>7. Reverse(Order(q)) = [i \in 1 .. n |-> c[n + 1 - i]]
  <2>1. Reverse(Order(q)) = [i \in 1 .. n |-> Order(q)[(n - i) + 1]]
    BY <1>5 DEF Reverse
  <2>2. \A i \in 1 .. n : (n - i) + 1 = n + 1 - i /\ n + 1 - i \in 1 .. n
    BY <1>1
  <2> QED
    BY <1>5, <2>1, <2>2
<1>8. IsInjective(Order(q))
  <2>1. \A i, j \in 1 .. n : c[i] = c[j] => i = j
    BY <1>1 DEF Row
  <2> QED
    BY <1>5, <2>1 DEF IsInjective
<1>9. ToSet(Order(q)) = Listed(c, n)
  BY <1>5 DEF ToSet, Listed
<1>10. FirstN(q, q.num + 1)[q.num + 1] = FakeTail
  <2>1. n + 1 \in 0 .. n + 1 /\ n + 1 \in 1 .. n + 1
    BY <1>1
  <2> QED
    BY <1>1, <1>3, <2>1
<1>11. \A b \in Block \ ToSet(Order(q)) : ~Removable(q, b)
  BY <1>1, <1>9 DEF Removable
<1> QED
  BY <1>2, <1>3, <1>4, <1>6, <1>7, <1>8, <1>9, <1>10, <1>11 DEF WellLinked

LEMMA ListedRemovable ==
    ASSUME NEW q, NEW c, NEW n, Chain(q, c, n), NEW b \in Listed(c, n)
    PROVE  Removable(q, b)
<1>1. PICK i \in 1 .. n : b = c[i]
  BY DEF Listed
<1>2. n \in Nat /\ \A j \in 0 .. n : q.next[c[j]] = c[j + 1] /\ q.prev[c[j + 1]] = c[j]
  BY DEF Chain, Row, Linked
<1>3. i \in 0 .. n /\ i - 1 \in 0 .. n /\ (i - 1) + 1 = i /\ i + 1 \in 0 .. n + 1 /\ i - 1 \in 0 .. n + 1
  BY <1>1, <1>2
<1>4. q.next[b] = c[i + 1] /\ q.prev[b] = c[i - 1]
  BY <1>1, <1>2, <1>3
<1>5. c[i + 1] \in Nodes /\ c[i - 1] \in Nodes
  BY <1>3, RowNodes DEF Chain
<1> QED
  BY <1>4, <1>5, Ends DEF Removable

\* Nodes of a sequence without repetitions are linked in its order, and nothing
\* else changes.
Joined(r, q, nodes) ==
    /\ r \in QueueType /\ r.num = q.num
    /\ \A i \in 1 .. Len(nodes) - 1 : Linked(r, nodes[i], nodes[i + 1])
    /\ \A z \in Nodes : (\A i \in 1 .. Len(nodes) - 1 : z # nodes[i]) => r.next[z] = q.next[z]
    /\ \A z \in Nodes : (\A i \in 2 .. Len(nodes) : z # nodes[i]) => r.prev[z] = q.prev[z]

LEMMA ConnectLinks ==
    ASSUME NEW q \in QueueType, NEW nodes \in Seq(Nodes), Len(nodes) >= 2,
           \A i, j \in 1 .. Len(nodes) : nodes[i] = nodes[j] => i = j,
           NEW r, r = Connect(q, nodes)
    PROVE  Joined(r, q, nodes)
<1> DEFINE m == Len(nodes)
           At(x) == CHOOSE i \in DOMAIN nodes : nodes[i] = x
           F == {nodes[i] : i \in 1 .. m - 1}
           T == {nodes[i] : i \in 2 .. m}
<1>1. m \in Nat /\ m >= 2 /\ DOMAIN nodes = 1 .. m /\ \A i \in 1 .. m : nodes[i] \in Nodes
  OBVIOUS
<1>2. ToSet(Front(nodes)) = F
  <2> DEFINE s == SubSeq(nodes, 1, m - 1)
  <2>1. s \in Seq(Nodes) /\ Len(s) = m - 1 /\ \A i \in 1 .. m - 1 : s[i] = nodes[i]
    BY <1>1
  <2>2. DOMAIN s = 1 .. m - 1
    <3> HIDE DEF s
    <3> QED
      BY <2>1
  <2> HIDE DEF m
  <2>3. Front(nodes) = s
    BY DEF Front, m
  <2> HIDE DEF s
  <2> QED
    BY <2>1, <2>2, <2>3 DEF ToSet
<1>3. ToSet(Tail(nodes)) = T
  <2> DEFINE s == Tail(nodes)
  <2>1. s \in Seq(Nodes) /\ Len(s) = m - 1 /\ \A i \in 1 .. m - 1 : s[i] = nodes[i + 1]
    BY <1>1
  <2>2. DOMAIN s = 1 .. m - 1
    <3> HIDE DEF s
    <3> QED
      BY <2>1
  <2>3. \A i \in 2 .. m : i - 1 \in 1 .. m - 1 /\ (i - 1) + 1 = i
    BY <1>1
  <2>4. \A i \in 1 .. m - 1 : i + 1 \in 2 .. m
    BY <1>1
  <2> HIDE DEF s, m
  <2>5. ToSet(s) = {s[i] : i \in 1 .. m - 1}
    BY <2>2 DEF ToSet
  <2>6. \A i \in 2 .. m : s[i - 1] = nodes[i]
    BY <2>1, <2>3
  <2>7. T \subseteq ToSet(s)
    BY <2>3, <2>5, <2>6
  <2>8. ToSet(s) \subseteq T
    BY <2>1, <2>4, <2>5
  <2> QED
    BY <2>7, <2>8 DEF s
<1>4. ASSUME NEW i \in 1 .. m PROVE At(nodes[i]) = i
  BY <1>1
<1>5. \A i \in 1 .. m - 1 : i \in 1 .. m /\ i + 1 \in 1 .. m /\ i + 1 \in 2 .. m
  BY <1>1
<1>6. \A i \in 2 .. m : i \in 1 .. m /\ i - 1 \in 1 .. m
  BY <1>1
<1>7. /\ DOMAIN q = {"num", "next", "prev"} /\ q.num \in Nat
      /\ q.next \in [Nodes -> Nodes \cup {NoBlock}] /\ q.prev \in [Nodes -> Nodes \cup {NoBlock}]
      /\ q = [num |-> q.num, next |-> q.next, prev |-> q.prev]
  BY DEF QueueType
<1> DEFINE next == [x \in Nodes |-> IF x \in F THEN nodes[At(x) + 1] ELSE q.next[x]]
           prev == [x \in Nodes |-> IF x \in T THEN nodes[At(x) - 1] ELSE q.prev[x]]
<1>8. r = [num |-> q.num, next |-> next, prev |-> prev]
  <2>1. r = [q EXCEPT !.next = [x \in Nodes |-> IF x \in ToSet(Front(nodes)) THEN nodes[At(x) + 1] ELSE @[x]],
                      !.prev = [x \in Nodes |-> IF x \in ToSet(Tail(nodes)) THEN nodes[At(x) - 1] ELSE @[x]]]
    BY DEF Connect
  <2> HIDE DEF F, T, At
  <2> QED
    BY <1>2, <1>3, <1>7, <2>1
<1> HIDE DEF m, At
<1>9. ASSUME NEW i \in 1 .. m - 1 PROVE next[nodes[i]] = nodes[i + 1]
  <2>1. nodes[i] \in F /\ nodes[i] \in Nodes
    BY <1>1, <1>5
  <2>2. At(nodes[i]) = i
    BY <1>4, <1>5
  <2> HIDE DEF F
  <2> QED
    BY <2>1, <2>2
<1>10. ASSUME NEW i \in 1 .. m - 1 PROVE prev[nodes[i + 1]] = nodes[i]
  <2>1. nodes[i + 1] \in T /\ nodes[i + 1] \in Nodes
    BY <1>1, <1>5
  <2>2. At(nodes[i + 1]) = i + 1 /\ (i + 1) - 1 = i
    BY <1>4, <1>5
  <2> HIDE DEF T
  <2> QED
    BY <2>1, <2>2
<1>11. next \in [Nodes -> Nodes \cup {NoBlock}]
  <2> SUFFICES ASSUME NEW x \in Nodes PROVE next[x] \in Nodes \cup {NoBlock}
    OBVIOUS
  <2>1. CASE x \in F
    <3>1. PICK i \in 1 .. m - 1 : x = nodes[i]
      BY <2>1
    <3>2. next[x] = nodes[i + 1] /\ nodes[i + 1] \in Nodes
      BY <1>1, <1>5, <1>9, <3>1
    <3> QED
      BY <3>2
  <2>2. CASE x \notin F
    BY <1>7, <2>2
  <2> QED
    BY <2>1, <2>2
<1>12. prev \in [Nodes -> Nodes \cup {NoBlock}]
  <2> SUFFICES ASSUME NEW x \in Nodes PROVE prev[x] \in Nodes \cup {NoBlock}
    OBVIOUS
  <2>1. CASE x \in T
    <3>1. PICK i \in 2 .. m : x = nodes[i]
      BY <2>1
    <3>2. i - 1 \in 1 .. m - 1 /\ (i - 1) + 1 = i
      BY <1>1, <3>1
    <3>3. prev[x] = nodes[i - 1] /\ nodes[i - 1] \in Nodes
      BY <1>1, <1>6, <1>10, <3>1, <3>2
    <3> QED
      BY <3>3
  <2>2. CASE x \notin T
    BY <1>7, <2>2
  <2> QED
    BY <2>1, <2>2
<1>13. r.num = q.num /\ r.next = next /\ r.prev = prev
  BY <1>8
<1>14. \A z \in Nodes : (\A i \in 1 .. m - 1 : z # nodes[i]) => next[z] = q.next[z]
  OBVIOUS
<1>15. \A z \in Nodes : (\A i \in 2 .. m : z # nodes[i]) => prev[z] = q.prev[z]
  OBVIOUS
<1>16. \A i \in 1 .. m - 1 : Linked(r, nodes[i], nodes[i + 1])
  BY <1>9, <1>10, <1>13 DEF Linked
<1> HIDE DEF next, prev
<1>17. r \in QueueType
  BY <1>7, <1>8, <1>11, <1>12 DEF QueueType
<1> QED
  BY <1>13, <1>14, <1>15, <1>16, <1>17 DEF m, Joined

LEMMA ConnectTwo ==
    ASSUME NEW q \in QueueType, NEW x \in Nodes, NEW y \in Nodes, x # y,
           NEW r, r = Connect(q, <<x, y>>)
    PROVE  /\ r \in QueueType /\ r.num = q.num /\ Linked(r, x, y)
           /\ \A z \in Nodes : z # x => r.next[z] = q.next[z]
           /\ \A z \in Nodes : z # y => r.prev[z] = q.prev[z]
<1> DEFINE nodes == <<x, y>>
<1>1. /\ nodes \in Seq(Nodes) /\ Len(nodes) = 2 /\ nodes[1] = x /\ nodes[2] = y
  OBVIOUS
<1> HIDE DEF nodes
<1>2. \A i \in 1 .. Len(nodes) : i = 1 \/ i = 2
  BY <1>1
<1>3. \A i, j \in 1 .. Len(nodes) : nodes[i] = nodes[j] => i = j
  BY <1>1, <1>2
<1>4. Joined(r, q, nodes)
  <2>1. r = Connect(q, nodes)
    BY DEF nodes
  <2>2. Len(nodes) >= 2 /\ nodes \in Seq(Nodes)
    BY <1>1
  <2> QED
    BY <1>3, <2>1, <2>2, ConnectLinks
<1>5. 1 \in 1 .. Len(nodes) - 1 /\ \A i \in 1 .. Len(nodes) - 1 : i = 1
  BY <1>1
<1>6. \A i \in 2 .. Len(nodes) : i = 2
  BY <1>1
<1>7. Linked(r, x, y)
  <2>1. Linked(r, nodes[1], nodes[1 + 1])
    BY <1>4, <1>5 DEF Joined
  <2> QED
    BY <1>1, <2>1
<1>8. \A z \in Nodes : z # x => r.next[z] = q.next[z]
  BY <1>1, <1>4, <1>5 DEF Joined
<1>9. \A z \in Nodes : z # y => r.prev[z] = q.prev[z]
  BY <1>1, <1>4, <1>6 DEF Joined
<1> QED
  BY <1>4, <1>7, <1>8, <1>9 DEF Joined

LEMMA UnlinkParts ==
    ASSUME NEW q \in QueueType, NEW B, NEW r, r = Unlink(q, B)
    PROVE  /\ r \in QueueType /\ r.num = q.num
           /\ \A z \in Nodes : r.next[z] = IF z \in B THEN NoBlock ELSE q.next[z]
           /\ \A z \in Nodes : r.prev[z] = IF z \in B THEN NoBlock ELSE q.prev[z]
<1>1. /\ q.num \in Nat
      /\ q.next \in [Nodes -> Nodes \cup {NoBlock}] /\ q.prev \in [Nodes -> Nodes \cup {NoBlock}]
      /\ q = [num |-> q.num, next |-> q.next, prev |-> q.prev]
  BY DEF QueueType
<1> DEFINE next == [z \in Nodes |-> IF z \in B THEN NoBlock ELSE q.next[z]]
           prev == [z \in Nodes |-> IF z \in B THEN NoBlock ELSE q.prev[z]]
<1>2. r = [num |-> q.num, next |-> next, prev |-> prev]
  BY <1>1 DEF Unlink
<1>3. next \in [Nodes -> Nodes \cup {NoBlock}] /\ prev \in [Nodes -> Nodes \cup {NoBlock}]
  BY <1>1
<1>4. r.num = q.num /\ r.next = next /\ r.prev = prev
  BY <1>2
<1>5. r \in QueueType
  <2> HIDE DEF next, prev
  <2> QED
    BY <1>1, <1>2, <1>3 DEF QueueType
<1> QED
  BY <1>4, <1>5

LEMMA Counted ==
    ASSUME NEW q \in QueueType, NEW k \in Nat, NEW r, r = [q EXCEPT !.num = k]
    PROVE  r \in QueueType /\ r.num = k /\ r.next = q.next /\ r.prev = q.prev
  BY DEF QueueType

\* The list without its block j.
Without(c, n, j) == [i \in 0 .. n |-> IF i < j THEN c[i] ELSE c[i + 1]]

LEMMA ChainParts ==
    ASSUME NEW q, NEW c, NEW n, Chain(q, c, n)
    PROVE  /\ n \in Nat /\ q \in QueueType /\ q.num = n
           /\ c[0] = FakeHead /\ c[n + 1] = FakeTail
           /\ \A i \in 1 .. n : c[i] \in Block
           /\ \A i \in 0 .. n + 1 : c[i] \in Nodes
           /\ \A i, j \in 0 .. n + 1 : c[i] = c[j] => i = j
           /\ \A i \in 0 .. n : q.next[c[i]] = c[i + 1] /\ q.prev[c[i + 1]] = c[i]
           /\ q.next[FakeTail] = NoBlock /\ q.prev[FakeHead] = NoBlock
           /\ \A b \in Block \ Listed(c, n) : q.next[b] = NoBlock /\ q.prev[b] = NoBlock
           /\ Listed(c, n) \subseteq Block
  BY RowNodes DEF Chain, Row, Linked

LEMMA WithoutRow ==
    ASSUME NEW c, NEW n, Row(c, n), NEW j \in 1 .. n, NEW d, d = Without(c, n, j)
    PROVE  Row(d, n - 1) /\ Listed(d, n - 1) = Listed(c, n) \ {c[j]}
<1>1. /\ n \in Nat /\ c[0] = FakeHead /\ c[n + 1] = FakeTail
      /\ \A i \in 1 .. n : c[i] \in Block
      /\ \A i, k \in 1 .. n : c[i] = c[k] => i = k
  BY DEF Row
<1>2. \A i \in 0 .. n : d[i] = IF i < j THEN c[i] ELSE c[i + 1]
  BY DEF Without
<1>3. ASSUME NEW i \in 1 .. n - 1
      PROVE  \E k \in 1 .. n : k # j /\ d[i] = c[k] /\ k = IF i < j THEN i ELSE i + 1
  <2>1. CASE i < j
    <3>1. i \in 1 .. n /\ i \in 0 .. n /\ i # j
      BY <1>1, <2>1
    <3>2. d[i] = c[i]
      BY <1>2, <2>1, <3>1
    <3> QED
      BY <2>1, <3>1, <3>2
  <2>2. CASE ~(i < j)
    <3>1. i + 1 \in 1 .. n /\ i \in 0 .. n /\ i + 1 # j /\ ~(i + 1 < j)
      BY <1>1, <2>2
    <3>2. d[i] = c[i + 1]
      BY <1>2, <2>2, <3>1
    <3> QED
      BY <2>2, <3>1, <3>2
  <2> QED
    BY <2>1, <2>2
<1>4. n - 1 \in Nat /\ (n - 1) + 1 = n /\ n \in 0 .. n /\ ~(n < j) /\ 0 \in 0 .. n /\ 0 < j
  BY <1>1
<1>5. d[0] = FakeHead /\ d[(n - 1) + 1] = FakeTail
  BY <1>1, <1>2, <1>4
<1>6. \A i \in 1 .. n - 1 : d[i] \in Block
  BY <1>1, <1>3
<1>7. ASSUME NEW i \in 1 .. n - 1, NEW k \in 1 .. n - 1, d[i] = d[k] PROVE i = k
  <2>1. PICK x \in 1 .. n : x # j /\ d[i] = c[x] /\ x = IF i < j THEN i ELSE i + 1
    BY <1>3
  <2>2. PICK y \in 1 .. n : y # j /\ d[k] = c[y] /\ y = IF k < j THEN k ELSE k + 1
    BY <1>3
  <2>3. c[x] = c[y]
    BY <1>7, <2>1, <2>2
  <2>4. x = y
    BY <1>1, <2>3
  <2>5. /\ x \in Nat /\ i \in Nat /\ k \in Nat /\ j \in Nat
    BY <1>1
  <2> QED
    BY <2>1, <2>2, <2>4, <2>5
<1>8. Row(d, n - 1)
  BY <1>4, <1>5, <1>6, <1>7 DEF Row
<1>9. Listed(d, n - 1) \subseteq Listed(c, n) \ {c[j]}
  BY <1>1, <1>3 DEF Listed
<1>10. ASSUME NEW k \in 1 .. n, k # j PROVE c[k] \in Listed(d, n - 1)
  <2>1. CASE k < j
    <3>1. k \in 1 .. n - 1 /\ k \in 0 .. n
      BY <1>1, <2>1
    <3>2. d[k] = c[k]
      BY <1>2, <2>1, <3>1
    <3> QED
      BY <3>1, <3>2 DEF Listed
  <2>2. CASE ~(k < j)
    <3>1. k - 1 \in 1 .. n - 1 /\ k - 1 \in 0 .. n /\ ~(k - 1 < j) /\ (k - 1) + 1 = k
      BY <1>1, <1>10, <2>2
    <3>2. d[k - 1] = c[k]
      BY <1>2, <3>1
    <3> QED
      BY <3>1, <3>2 DEF Listed
  <2> QED
    BY <2>1, <2>2
<1>11. Listed(c, n) \ {c[j]} \subseteq Listed(d, n - 1)
  BY <1>10 DEF Listed
<1> QED
  BY <1>8, <1>9, <1>11

\* remove() takes one block out.
LEMMA RemoveChain ==
    ASSUME NEW q, NEW c, NEW n, Chain(q, c, n), NEW j \in 1 .. n, NEW d, d = Without(c, n, j)
    PROVE  /\ Chain(RemoveBlock(q, c[j]), d, n - 1)
           /\ Listed(d, n - 1) = Listed(c, n) \ {c[j]}
<1> DEFINE b == c[j]
           x == c[j - 1]
           y == c[j + 1]
<1>1. /\ n \in Nat /\ q \in QueueType /\ q.num = n
      /\ c[0] = FakeHead /\ c[n + 1] = FakeTail
      /\ \A i \in 1 .. n : c[i] \in Block
      /\ \A i \in 0 .. n + 1 : c[i] \in Nodes
      /\ \A i \in 0 .. n : q.next[c[i]] = c[i + 1] /\ q.prev[c[i + 1]] = c[i]
      /\ q.next[FakeTail] = NoBlock /\ q.prev[FakeHead] = NoBlock
      /\ \A z \in Block \ Listed(c, n) : q.next[z] = NoBlock /\ q.prev[z] = NoBlock
      /\ Listed(c, n) \subseteq Block
  BY ChainParts
<1>2. \A i, k \in 0 .. n + 1 : c[i] = c[k] => i = k
  BY ChainParts
<1>3. Row(d, n - 1) /\ Listed(d, n - 1) = Listed(c, n) \ {b}
  BY WithoutRow DEF Chain
<1>4. /\ j - 1 \in 0 .. n /\ j \in 0 .. n /\ (j - 1) + 1 = j /\ j - 1 \in 0 .. n + 1
      /\ j + 1 \in 0 .. n + 1 /\ j \in 0 .. n + 1 /\ j - 1 # j + 1 /\ j # j + 1 /\ j # j - 1
      /\ j + 1 # 0 /\ j - 1 # n + 1 /\ 0 \in 0 .. n + 1 /\ n + 1 \in 0 .. n + 1 /\ j # 0 /\ j # n + 1
  BY <1>1
<1>5. /\ x \in Nodes /\ y \in Nodes /\ b \in Nodes /\ x # y /\ b # x /\ b # y
      /\ q.prev[b] = x /\ q.next[b] = y /\ y # FakeHead /\ x # FakeTail /\ b # FakeHead /\ b # FakeTail
  BY <1>1, <1>2, <1>4
<1>6. PICK r : r = Connect(q, <<x, y>>)
  OBVIOUS
<1>7. /\ r \in QueueType /\ r.num = n /\ Linked(r, x, y)
      /\ \A z \in Nodes : z # x => r.next[z] = q.next[z]
      /\ \A z \in Nodes : z # y => r.prev[z] = q.prev[z]
  <2> HIDE DEF x, y, b
  <2> QED
    BY <1>1, <1>5, <1>6, ConnectTwo
<1>8. PICK u : u = Unlink(r, {b})
  OBVIOUS
<1>9. /\ u \in QueueType /\ u.num = n
      /\ \A z \in Nodes : u.next[z] = IF z = b THEN NoBlock ELSE r.next[z]
      /\ \A z \in Nodes : u.prev[z] = IF z = b THEN NoBlock ELSE r.prev[z]
  <2> HIDE DEF x, y, b
  <2>1. /\ u \in QueueType /\ u.num = r.num
        /\ \A z \in Nodes : u.next[z] = IF z \in {b} THEN NoBlock ELSE r.next[z]
        /\ \A z \in Nodes : u.prev[z] = IF z \in {b} THEN NoBlock ELSE r.prev[z]
    BY <1>7, <1>8, UnlinkParts
  <2> QED
    BY <1>7, <2>1
<1>10. PICK v : v = RemoveBlock(q, b)
  OBVIOUS
<1>11. v \in QueueType /\ v.num = n - 1 /\ v.next = u.next /\ v.prev = u.prev
  <2>1. v = [u EXCEPT !.num = @ - 1]
    BY <1>5, <1>6, <1>8, <1>10 DEF RemoveBlock
  <2>2. n - 1 \in Nat /\ v = [u EXCEPT !.num = n - 1]
    BY <1>1, <1>9, <2>1
  <2> HIDE DEF b
  <2> QED
    BY <1>9, <2>2, Counted
<1> HIDE DEF x, y, b
<1>12. /\ \A z \in Nodes : v.next[z] = IF z = b THEN NoBlock ELSE IF z = x THEN y ELSE q.next[z]
       /\ \A z \in Nodes : v.prev[z] = IF z = b THEN NoBlock ELSE IF z = y THEN x ELSE q.prev[z]
  BY <1>5, <1>7, <1>9, <1>11 DEF Linked
<1>13. \A i \in 0 .. n : d[i] = IF i < j THEN c[i] ELSE c[i + 1]
  BY DEF Without
<1>14. ASSUME NEW i \in 0 .. n - 1 PROVE Linked(v, d[i], d[i + 1])
  <2>0. /\ i \in 0 .. n /\ i + 1 \in 0 .. n /\ i + 1 \in 0 .. n + 1 /\ i \in 0 .. n + 1
        /\ i + 2 \in 0 .. n + 1 /\ (i + 1) + 1 = i + 2
    BY <1>1
  <2>1. CASE i + 1 < j
    <3>1. d[i] = c[i] /\ d[i + 1] = c[i + 1]
      BY <1>13, <2>0, <2>1
    <3>2. c[i] # b /\ c[i] # x /\ c[i + 1] # b /\ c[i + 1] # y
      BY <1>1, <1>2, <1>4, <2>0, <2>1 DEF x, y, b
    <3>3. v.next[c[i]] = q.next[c[i]] /\ v.prev[c[i + 1]] = q.prev[c[i + 1]]
      BY <1>1, <1>12, <2>0, <3>2
    <3> QED
      BY <1>1, <2>0, <3>1, <3>3 DEF Linked
  <2>2. CASE i + 1 = j
    <3>1. d[i] = x /\ d[i + 1] = y
      BY <1>1, <1>13, <2>0, <2>2 DEF x, y
    <3> QED
      BY <1>5, <1>12, <3>1 DEF Linked
  <2>3. CASE j < i + 1
    <3>1. d[i] = c[i + 1] /\ d[i + 1] = c[i + 2]
      BY <1>1, <1>13, <2>0, <2>3
    <3>2. c[i + 1] # b /\ c[i + 1] # x /\ c[i + 2] # b /\ c[i + 2] # y
      BY <1>1, <1>2, <1>4, <2>0, <2>3 DEF x, y, b
    <3>3. v.next[c[i + 1]] = q.next[c[i + 1]] /\ v.prev[c[i + 2]] = q.prev[c[i + 2]]
      BY <1>1, <1>12, <2>0, <3>2
    <3> QED
      BY <1>1, <2>0, <3>1, <3>3 DEF Linked
  <2> QED
    BY <1>1, <2>1, <2>2, <2>3
<1>15. v.next[FakeTail] = NoBlock /\ v.prev[FakeHead] = NoBlock
  BY <1>1, <1>5, <1>12, Ends
<1>16. ASSUME NEW z \in Block \ Listed(d, n - 1) PROVE v.next[z] = NoBlock /\ v.prev[z] = NoBlock
  <2>1. z \in Nodes /\ (z = b \/ z \in Block \ Listed(c, n))
    BY <1>3, Ends
  <2>2. CASE z \in Block \ Listed(c, n)
    <3>1. q.next[z] = NoBlock /\ q.prev[z] = NoBlock
      BY <1>1, <2>2
    <3>2. z # x /\ z # y
      <4>1. q.next[x] = b /\ q.prev[y] = b
        BY <1>1, <1>4 DEF x, y, b
      <4> QED
        BY <1>5, <3>1, <4>1, Ends
    <3> QED
      BY <1>12, <2>1, <3>1, <3>2
  <2> QED
    BY <1>12, <2>1, <2>2
<1>17. Chain(v, d, n - 1)
  BY <1>3, <1>11, <1>14, <1>15, <1>16 DEF Chain
<1> QED
  BY <1>3, <1>10, <1>17 DEF b

\* The list beyond its first k blocks.
Beyond(c, n, k) == [i \in 0 .. n - k + 1 |-> IF i = 0 THEN FakeHead ELSE c[i + k]]

LEMMA BeyondRow ==
    ASSUME NEW c, NEW n, Row(c, n), NEW k \in 0 .. n, NEW d, d = Beyond(c, n, k)
    PROVE  Row(d, n - k) /\ Listed(d, n - k) = Listed(c, n) \ {c[i] : i \in 1 .. k}
<1>1. /\ n \in Nat /\ c[0] = FakeHead /\ c[n + 1] = FakeTail
      /\ \A i \in 1 .. n : c[i] \in Block
      /\ \A i, j \in 1 .. n : c[i] = c[j] => i = j
  BY DEF Row
<1>2. d[0] = FakeHead /\ \A i \in 1 .. n - k + 1 : d[i] = c[i + k]
  BY <1>1 DEF Beyond
<1>3. n - k \in Nat /\ n - k + 1 \in 1 .. n - k + 1 /\ (n - k + 1) + k = n + 1
  BY <1>1
<1>4. d[n - k + 1] = FakeTail
  BY <1>1, <1>2, <1>3
<1>5. \A i \in 1 .. n - k : i + k \in 1 .. n /\ i + k \notin 1 .. k /\ d[i] = c[i + k]
  BY <1>1, <1>2
<1>6. \A i \in 1 .. n - k : d[i] \in Block
  BY <1>1, <1>5
<1>7. ASSUME NEW i \in 1 .. n - k, NEW j \in 1 .. n - k, d[i] = d[j] PROVE i = j
  <2>1. c[i + k] = c[j + k] /\ i + k \in 1 .. n /\ j + k \in 1 .. n
    BY <1>5, <1>7
  <2>2. i + k = j + k
    BY <1>1, <2>1
  <2> QED
    BY <1>1, <2>2
<1>8. Row(d, n - k)
  BY <1>3, <1>2, <1>4, <1>6, <1>7 DEF Row
<1>9. ASSUME NEW i \in 1 .. n - k PROVE d[i] \in Listed(c, n) \ {c[j] : j \in 1 .. k}
  <2>1. d[i] = c[i + k] /\ i + k \in 1 .. n /\ i + k \notin 1 .. k
    BY <1>5
  <2>2. ASSUME NEW j \in 1 .. k, c[j] = c[i + k] PROVE FALSE
    <3>1. j \in 1 .. n
      BY <1>1
    <3>2. j = i + k
      BY <1>1, <2>1, <2>2, <3>1
    <3> QED
      BY <2>1, <3>2
  <2> QED
    BY <2>1, <2>2 DEF Listed
<1>10. ASSUME NEW i \in 1 .. n, c[i] \notin {c[j] : j \in 1 .. k} PROVE c[i] \in Listed(d, n - k)
  <2>1. i \notin 1 .. k
    BY <1>10
  <2>2. i - k \in 1 .. n - k /\ (i - k) + k = i
    BY <1>1, <2>1
  <2>3. d[i - k] = c[i]
    BY <1>5, <2>2
  <2> QED
    BY <2>2, <2>3 DEF Listed
<1> QED
  BY <1>8, <1>9, <1>10 DEF Listed

\* Only the links count.
LEMMA ChainSame ==
    ASSUME NEW q, NEW c, NEW n, Chain(q, c, n), NEW d, Row(d, n),
           \A i \in 0 .. n + 1 : d[i] = c[i]
    PROVE  Chain(q, d, n)
<1>1. n \in Nat /\ \A i \in 0 .. n : i \in 0 .. n + 1 /\ i + 1 \in 0 .. n + 1
  BY DEF Row
<1>2. \A i \in 0 .. n : Linked(q, d[i], d[i + 1])
  BY <1>1 DEF Chain
<1>3. Listed(d, n) = Listed(c, n)
  BY <1>1 DEF Listed
<1> QED
  BY <1>2, <1>3 DEF Chain

\* popleft_n() takes the first blocks.
LEMMA PopChain ==
    ASSUME NEW q, NEW c, NEW n, Chain(q, c, n), NEW k \in 0 .. n, NEW d, d = Beyond(c, n, k)
    PROVE  /\ Chain(PopLeftN(q, k), d, n - k)
           /\ Listed(d, n - k) = Listed(c, n) \ {c[i] : i \in 1 .. k}
<1>0. /\ n \in Nat /\ q \in QueueType /\ q.num = n
      /\ c[0] = FakeHead /\ c[n + 1] = FakeTail
      /\ \A i \in 1 .. n : c[i] \in Block
      /\ \A i \in 0 .. n + 1 : c[i] \in Nodes
      /\ \A i \in 0 .. n : q.next[c[i]] = c[i + 1] /\ q.prev[c[i + 1]] = c[i]
      /\ q.next[FakeTail] = NoBlock /\ q.prev[FakeHead] = NoBlock
      /\ \A z \in Block \ Listed(c, n) : q.next[z] = NoBlock /\ q.prev[z] = NoBlock
  BY ChainParts
<1>1. \A i, j \in 0 .. n + 1 : c[i] = c[j] => i = j
  BY ChainParts
<1>2. Row(d, n - k) /\ Listed(d, n - k) = Listed(c, n) \ {c[i] : i \in 1 .. k}
  BY BeyondRow DEF Chain
<1>3. d[0] = FakeHead /\ \A i \in 1 .. n - k + 1 : d[i] = c[i + k]
  BY <1>0 DEF Beyond
<1>4. CASE k = 0
  <2>1. PopLeftN(q, k) = q /\ n - k = n
    BY <1>0, <1>4 DEF PopLeftN
  <2>2. \A i \in 0 .. n + 1 : d[i] = c[i]
    BY <1>0, <1>3, <1>4
  <2>3. Chain(q, d, n)
    BY <1>2, <2>1, <2>2, ChainSame
  <2> QED
    BY <1>2, <2>1, <2>3
<1>5. CASE k # 0
  <2> DEFINE P == {c[i] : i \in 1 .. k}
             y == c[k + 1]
  <2>1. k \in Nat /\ k \in 1 .. n /\ k \in 0 .. n /\ k \in 0 .. n + 1 /\ k + 1 \in 0 .. n + 1 /\ k \in 1 .. k
    BY <1>0, <1>5
  <2>2. FirstN(q, k) = [i \in 1 .. k |-> c[i]]
    BY <2>1, ChainSound
  <2>3. ToSet(FirstN(q, k)) = P /\ Last(FirstN(q, k)) = c[k]
    <3> DEFINE s == [i \in 1 .. k |-> c[i]]
    <3>1. DOMAIN s = 1 .. k /\ \A i \in 1 .. k : s[i] = c[i]
      OBVIOUS
    <3>2. s \in Seq(Nodes)
      BY <1>0, <2>1
    <3> HIDE DEF s
    <3>3. Len(s) \in Nat /\ DOMAIN s = 1 .. Len(s)
      BY <3>2
    <3>4. Len(s) = k
      BY <2>1, <3>1, <3>3
    <3>5. ToSet(s) = P
      BY <3>1 DEF ToSet
    <3>6. Last(s) = c[k]
      BY <2>1, <3>1, <3>4 DEF Last
    <3> QED
      BY <2>2, <3>5, <3>6 DEF s
  <2>4. q.next[c[k]] = y /\ y \in Nodes /\ y # FakeHead /\ FakeHead \in Nodes
    <3>1. c[k + 1] # c[0]
      BY <1>0, <1>1, <2>1
    <3> QED
      BY <1>0, <2>1, <3>1, Ends
  <2>5. \A i \in 1 .. k : i \in 1 .. n /\ i \in 0 .. n + 1
    BY <1>0
  <2>6. FakeHead \notin P /\ FakeTail \notin P /\ y \notin P
    <3>1. ASSUME NEW i \in 1 .. k, c[i] = y PROVE FALSE
      <4>1. i = k + 1
        BY <1>1, <2>1, <2>5, <3>1
      <4> QED
        BY <2>1, <4>1
    <3> QED
      BY <1>0, <2>5, <3>1, Ends
  <2>7. PICK r : r = Connect(q, <<FakeHead, y>>)
    OBVIOUS
  <2>8. PICK u : u = Unlink(r, P)
    OBVIOUS
  <2>9. PICK v : v = PopLeftN(q, k)
    OBVIOUS
  <2>10. v = [u EXCEPT !.num = @ - k]
    BY <1>5, <2>3, <2>4, <2>7, <2>8, <2>9 DEF PopLeftN
  <2> HIDE DEF P, y
  <2>11. /\ r \in QueueType /\ r.num = n /\ Linked(r, FakeHead, y)
         /\ \A z \in Nodes : z # FakeHead => r.next[z] = q.next[z]
         /\ \A z \in Nodes : z # y => r.prev[z] = q.prev[z]
    BY <1>0, <2>4, <2>7, ConnectTwo
  <2>12. /\ u \in QueueType /\ u.num = n
         /\ \A z \in Nodes : u.next[z] = IF z \in P THEN NoBlock ELSE r.next[z]
         /\ \A z \in Nodes : u.prev[z] = IF z \in P THEN NoBlock ELSE r.prev[z]
    <3>1. /\ u \in QueueType /\ u.num = r.num
          /\ \A z \in Nodes : u.next[z] = IF z \in P THEN NoBlock ELSE r.next[z]
          /\ \A z \in Nodes : u.prev[z] = IF z \in P THEN NoBlock ELSE r.prev[z]
      BY <2>8, <2>11, UnlinkParts
    <3> QED
      BY <2>11, <3>1
  <2>13. v \in QueueType /\ v.num = n - k /\ v.next = u.next /\ v.prev = u.prev
    <3>1. n - k \in Nat /\ v = [u EXCEPT !.num = n - k]
      BY <1>0, <2>10, <2>12
    <3> QED
      BY <2>12, <3>1, Counted
  <2>14. /\ \A z \in Nodes : v.next[z] = IF z \in P THEN NoBlock
                                        ELSE IF z = FakeHead THEN y ELSE q.next[z]
         /\ \A z \in Nodes : v.prev[z] = IF z \in P THEN NoBlock
                                        ELSE IF z = y THEN FakeHead ELSE q.prev[z]
    BY <2>11, <2>12, <2>13 DEF Linked
  <2>15. ASSUME NEW i \in 0 .. n - k PROVE Linked(v, d[i], d[i + 1])
    <3>1. CASE i = 0
      <4>1. d[i] = FakeHead /\ d[i + 1] = y
        <5>1. 1 \in 1 .. n - k + 1 /\ 0 + 1 = 1 /\ 1 + k = k + 1
          BY <1>0, <2>1
        <5> QED
          BY <1>3, <3>1, <5>1 DEF y
      <4> QED
        BY <2>4, <2>6, <2>14, <4>1 DEF Linked
    <3>2. CASE i # 0
      <4>1. /\ i \in 1 .. n - k + 1 /\ i + 1 \in 1 .. n - k + 1 /\ i + k \in 0 .. n
            /\ (i + 1) + k = (i + k) + 1 /\ i + k \in 0 .. n + 1 /\ (i + k) + 1 \in 0 .. n + 1
            /\ i + k # 0 /\ (i + k) + 1 # k + 1 /\ i + k \notin 1 .. k /\ (i + k) + 1 \notin 1 .. k
            /\ 0 \in 0 .. n + 1
        BY <1>0, <2>1, <3>2
      <4>2. d[i] = c[i + k] /\ d[i + 1] = c[(i + k) + 1]
        BY <1>3, <4>1
      <4>3. c[i + k] # FakeHead /\ c[(i + k) + 1] # y
        BY <1>0, <1>1, <2>1, <4>1 DEF y
      <4>4. c[i + k] \notin P /\ c[(i + k) + 1] \notin P
        BY <1>1, <2>5, <4>1 DEF P
      <4>5. c[i + k] \in Nodes /\ c[(i + k) + 1] \in Nodes
        BY <1>0, <4>1
      <4>6. v.next[c[i + k]] = q.next[c[i + k]] /\ v.prev[c[(i + k) + 1]] = q.prev[c[(i + k) + 1]]
        BY <2>14, <4>3, <4>4, <4>5
      <4> QED
        BY <1>0, <4>1, <4>2, <4>6 DEF Linked
    <3> QED
      BY <3>1, <3>2
  <2>16. v.next[FakeTail] = NoBlock /\ v.prev[FakeHead] = NoBlock
    BY <1>0, <2>4, <2>6, <2>14, Ends
  <2>17. ASSUME NEW z \in Block \ Listed(d, n - k) PROVE v.next[z] = NoBlock /\ v.prev[z] = NoBlock
    <3>1. z \in Nodes /\ (z \in P \/ z \in Block \ Listed(c, n)) /\ z # FakeHead
      BY <1>2, Ends DEF P
    <3>2. CASE z \notin P
      <4>1. q.next[z] = NoBlock /\ q.prev[z] = NoBlock
        BY <1>0, <3>1, <3>2
      <4>2. z # y
        <5>1. q.prev[y] = c[k] /\ c[k] \in Nodes
          BY <1>0, <2>1 DEF y
        <5> QED
          BY <4>1, <5>1, Ends
      <4> QED
        BY <2>14, <3>1, <3>2, <4>1, <4>2
    <3> QED
      BY <2>14, <3>1, <3>2
  <2>18. Chain(v, d, n - k)
    BY <1>2, <2>13, <2>15, <2>16, <2>17 DEF Chain
  <2> QED
    BY <1>2, <2>9, <2>18
<1> QED
  BY <1>4, <1>5

Distinct(s) == \A i, j \in 1 .. Len(s) : s[i] = s[j] => i = j

\* The list with the blocks s after its first a blocks.
Spliced(c, n, a, s) ==
    [i \in 0 .. n + Len(s) + 1 |->
        IF i <= a THEN c[i] ELSE IF i <= a + Len(s) THEN s[i - a] ELSE c[i - Len(s)]]

Longer(u, S, t, y) ==
    /\ u \in Seq(S) /\ Len(u) = Len(t) + 1 /\ u[Len(t) + 1] = y
    /\ \A i \in 1 .. Len(t) : u[i] = t[i]

LEMMA OneMore ==
    ASSUME NEW S, NEW t \in Seq(S), NEW y \in S
    PROVE  Longer(t \o <<y>>, S, t, y)
  BY DEF Longer

\* The blocks s between the nodes x and y.
Fenced(nodes, x, s, y) ==
    /\ nodes \in Seq(Nodes) /\ Len(nodes) = Len(s) + 2
    /\ nodes[1] = x /\ nodes[Len(s) + 2] = y
    /\ \A i \in 1 .. Len(s) : nodes[i + 1] = s[i]

LEMMA Between ==
    ASSUME NEW x \in Nodes, NEW s \in Seq(Block), NEW y \in Nodes, NEW nodes,
           nodes = <<x>> \o s \o <<y>>
    PROVE  Fenced(nodes, x, s, y)
<1>1. s \in Seq(Nodes)
  BY Ends
<1>2. <<x>> \in Seq(Nodes) /\ <<y>> \in Seq(Nodes) /\ Len(<<x>>) = 1 /\ Len(<<y>>) = 1
  OBVIOUS
<1> DEFINE t == <<x>> \o s
<1>3. t \in Seq(Nodes) /\ Len(t) = Len(s) + 1 /\ t[1] = x /\ \A i \in 1 .. Len(s) : t[i + 1] = s[i]
  BY <1>1, <1>2
<1> HIDE DEF t
<1>4. nodes = t \o <<y>>
  BY DEF t
<1>5. /\ nodes \in Seq(Nodes) /\ Len(nodes) = Len(t) + 1 /\ nodes[Len(t) + 1] = y
      /\ \A i \in 1 .. Len(t) : nodes[i] = t[i]
  <2>1. Longer(t \o <<y>>, Nodes, t, y)
    BY <1>3, OneMore
  <2> QED
    BY <1>4, <2>1 DEF Longer
<1>6. Len(s) \in Nat /\ 1 \in 1 .. Len(t) /\ \A i \in 1 .. Len(s) : i + 1 \in 1 .. Len(t)
  BY <1>3
<1> QED
  BY <1>3, <1>5, <1>6 DEF Fenced

LEMMA BetweenDistinct ==
    ASSUME NEW x \in Nodes, NEW s \in Seq(Block), NEW y \in Nodes, NEW nodes,
           nodes = <<x>> \o s \o <<y>>, Distinct(s), x # y, x \notin ToSet(s), y \notin ToSet(s)
    PROVE  Distinct(nodes)
<1>1. /\ Len(nodes) = Len(s) + 2 /\ Len(s) \in Nat
      /\ nodes[1] = x /\ nodes[Len(s) + 2] = y
      /\ \A i \in 1 .. Len(s) : nodes[i + 1] = s[i]
  BY Between DEF Fenced
<1>2. ASSUME NEW i \in 1 .. Len(nodes)
      PROVE  \/ i = 1 /\ nodes[i] = x
             \/ i = Len(s) + 2 /\ nodes[i] = y
             \/ i - 1 \in 1 .. Len(s) /\ nodes[i] = s[i - 1] /\ nodes[i] \in ToSet(s)
  <2>1. i = 1 \/ i = Len(s) + 2 \/ (i - 1 \in 1 .. Len(s) /\ (i - 1) + 1 = i)
    BY <1>1
  <2>2. DOMAIN s = 1 .. Len(s)
    OBVIOUS
  <2> QED
    BY <1>1, <2>1, <2>2 DEF ToSet
<1> SUFFICES ASSUME NEW i \in 1 .. Len(nodes), NEW j \in 1 .. Len(nodes), nodes[i] = nodes[j]
             PROVE  i = j
  BY DEF Distinct
<1>3. \/ i = 1 /\ nodes[i] = x
      \/ i = Len(s) + 2 /\ nodes[i] = y
      \/ i - 1 \in 1 .. Len(s) /\ nodes[i] = s[i - 1] /\ nodes[i] \in ToSet(s)
  BY <1>2
<1>4. \/ j = 1 /\ nodes[j] = x
      \/ j = Len(s) + 2 /\ nodes[j] = y
      \/ j - 1 \in 1 .. Len(s) /\ nodes[j] = s[j - 1] /\ nodes[j] \in ToSet(s)
  BY <1>2
<1>5. CASE i - 1 \in 1 .. Len(s) /\ j - 1 \in 1 .. Len(s) /\ s[i - 1] = s[j - 1]
  <2>1. i - 1 = j - 1
    BY <1>5 DEF Distinct
  <2>2. i \in Nat /\ j \in Nat
    BY <1>1
  <2> QED
    BY <2>1, <2>2
<1> QED
  BY <1>3, <1>4, <1>5

\* What a splice is, block by block.
Inserted(d, c, n, a, s) ==
    /\ \A i \in 0 .. a : d[i] = c[i]
    /\ \A i \in 1 .. Len(s) : d[a + i] = s[i]
    /\ \A i \in a + 1 .. n + 1 : d[i + Len(s)] = c[i]

LEMMA SplicedParts ==
    ASSUME NEW c, NEW n \in Nat, NEW a \in 0 .. n, NEW s \in Seq(Block), NEW d,
           d = Spliced(c, n, a, s)
    PROVE  Inserted(d, c, n, a, s)
<1>1. Len(s) \in Nat
  OBVIOUS
<1>2. \A i \in 0 .. n + Len(s) + 1 :
        d[i] = IF i <= a THEN c[i] ELSE IF i <= a + Len(s) THEN s[i - a] ELSE c[i - Len(s)]
  BY DEF Spliced
<1>3. \A i \in 0 .. a : i \in 0 .. n + Len(s) + 1 /\ i <= a
  BY <1>1
<1>4. \A i \in 1 .. Len(s) : /\ a + i \in 0 .. n + Len(s) + 1 /\ ~(a + i <= a)
                             /\ a + i <= a + Len(s) /\ (a + i) - a = i
  BY <1>1
<1>5. \A i \in a + 1 .. n + 1 : /\ i + Len(s) \in 0 .. n + Len(s) + 1 /\ ~(i + Len(s) <= a)
                                /\ ~(i + Len(s) <= a + Len(s)) /\ (i + Len(s)) - Len(s) = i
  BY <1>1
<1>6. \A i \in 0 .. a : d[i] = c[i]
  BY <1>2, <1>3
<1>7. \A i \in 1 .. Len(s) : d[a + i] = s[i]
  BY <1>2, <1>4
<1>8. \A i \in a + 1 .. n + 1 : d[i + Len(s)] = c[i]
  BY <1>2, <1>5
<1> QED
  BY <1>6, <1>7, <1>8 DEF Inserted

LEMMA SplicedRow ==
    ASSUME NEW c, NEW n, Row(c, n), NEW a \in 0 .. n, NEW s \in Seq(Block), Distinct(s),
           Listed(c, n) \cap ToSet(s) = {}, NEW d, d = Spliced(c, n, a, s)
    PROVE  Row(d, n + Len(s)) /\ Listed(d, n + Len(s)) = Listed(c, n) \cup ToSet(s)
<1> DEFINE m == Len(s)
<1>1. /\ n \in Nat /\ c[0] = FakeHead /\ c[n + 1] = FakeTail
      /\ \A i \in 1 .. n : c[i] \in Block
      /\ \A i, j \in 1 .. n : c[i] = c[j] => i = j
  BY DEF Row
<1>2. /\ \A i \in 0 .. a : d[i] = c[i]
      /\ \A i \in 1 .. m : d[a + i] = s[i]
      /\ \A i \in a + 1 .. n + 1 : d[i + m] = c[i]
      /\ m \in Nat
  <2>1. n \in Nat
    BY <1>1
  <2> QED
    <3>1. Inserted(d, c, n, a, s)
      BY <2>1, SplicedParts
    <3> QED
      BY <3>1 DEF Inserted
<1>3. DOMAIN s = 1 .. m /\ ToSet(s) = {s[i] : i \in 1 .. m} /\ \A i \in 1 .. m : s[i] \in Block
  BY DEF ToSet
<1>4. \A i, j \in 1 .. m : s[i] = s[j] => i = j
  BY DEF Distinct
<1> HIDE DEF m
<1>5. n + m \in Nat /\ 0 \in 0 .. a /\ n + 1 \in a + 1 .. n + 1 /\ (n + 1) + m = (n + m) + 1
  BY <1>1, <1>2
<1>6. d[0] = FakeHead /\ d[(n + m) + 1] = FakeTail
  BY <1>1, <1>2, <1>5
<1>7. ASSUME NEW i \in 1 .. n + m
      PROVE  \/ i <= a /\ i \in 1 .. n /\ d[i] = c[i]
             \/ a < i /\ i <= a + m /\ i - a \in 1 .. m /\ d[i] = s[i - a]
             \/ a + m < i /\ i - m \in 1 .. n /\ d[i] = c[i - m]
  <2>1. CASE i <= a
    <3>1. i \in 0 .. a /\ i \in 1 .. n
      BY <1>1, <2>1
    <3> QED
      BY <1>2, <2>1, <3>1
  <2>2. CASE a < i /\ i <= a + m
    <3>1. i - a \in 1 .. m /\ a + (i - a) = i
      BY <1>2, <2>2
    <3> QED
      BY <1>2, <2>2, <3>1
  <2>3. CASE a + m < i
    <3>1. i - m \in a + 1 .. n + 1 /\ i - m \in 1 .. n /\ (i - m) + m = i
      BY <1>1, <1>2, <2>3
    <3> QED
      BY <1>2, <2>3, <3>1
  <2> QED
    BY <1>1, <1>2, <2>1, <2>2, <2>3
<1>8. \A i \in 1 .. n + m : d[i] \in Block
  BY <1>1, <1>3, <1>7
<1>9. \A i \in 1 .. n, j \in 1 .. m : c[i] # s[j]
  BY <1>3 DEF Listed
<1>10. ASSUME NEW i \in 1 .. n + m, NEW j \in 1 .. n + m, d[i] = d[j] PROVE i = j
  <2>1. \/ i <= a /\ i \in 1 .. n /\ d[i] = c[i]
        \/ a < i /\ i <= a + m /\ i - a \in 1 .. m /\ d[i] = s[i - a]
        \/ a + m < i /\ i - m \in 1 .. n /\ d[i] = c[i - m]
    BY <1>7
  <2>2. \/ j <= a /\ j \in 1 .. n /\ d[j] = c[j]
        \/ a < j /\ j <= a + m /\ j - a \in 1 .. m /\ d[j] = s[j - a]
        \/ a + m < j /\ j - m \in 1 .. n /\ d[j] = c[j - m]
    BY <1>7
  <2>3. i \in Nat /\ j \in Nat
    BY <1>1, <1>2
  <2>4. CASE i <= a /\ i \in 1 .. n /\ d[i] = c[i]
    BY <1>1, <1>2, <1>9, <1>10, <2>2, <2>3, <2>4
  <2>5. CASE a < i /\ i <= a + m /\ i - a \in 1 .. m /\ d[i] = s[i - a]
    BY <1>2, <1>4, <1>9, <1>10, <2>2, <2>3, <2>5
  <2>6. CASE a + m < i /\ i - m \in 1 .. n /\ d[i] = c[i - m]
    BY <1>1, <1>2, <1>9, <1>10, <2>2, <2>3, <2>6
  <2> QED
    BY <2>1, <2>4, <2>5, <2>6
<1>11. Row(d, n + m)
  BY <1>5, <1>6, <1>8, <1>10 DEF Row
<1>12. Listed(d, n + m) \subseteq Listed(c, n) \cup ToSet(s)
  <2>1. ASSUME NEW i \in 1 .. n + m PROVE d[i] \in Listed(c, n) \cup ToSet(s)
    BY <1>3, <1>7 DEF Listed
  <2> QED
    BY <2>1 DEF Listed
<1>13. ASSUME NEW i \in 1 .. n PROVE c[i] \in Listed(d, n + m)
  <2>1. CASE i <= a
    <3>1. i \in 0 .. a /\ i \in 1 .. n + m
      BY <1>1, <1>2, <2>1
    <3> QED
      BY <1>2, <3>1 DEF Listed
  <2>2. CASE ~(i <= a)
    <3>1. i \in a + 1 .. n + 1 /\ i + m \in 1 .. n + m
      BY <1>1, <1>2, <2>2
    <3> QED
      BY <1>2, <3>1 DEF Listed
  <2> QED
    BY <2>1, <2>2
<1>14. ASSUME NEW i \in 1 .. m PROVE s[i] \in Listed(d, n + m)
  <2>1. a + i \in 1 .. n + m
    BY <1>1, <1>2
  <2> QED
    BY <1>2, <2>1 DEF Listed
<1>15. Listed(c, n) \cup ToSet(s) \subseteq Listed(d, n + m)
  BY <1>3, <1>13, <1>14 DEF Listed
<1> QED
  BY <1>11, <1>12, <1>15 DEF m

\* The blocks of s are put between two neighbours of the list.
LEMMA SpliceChain ==
    ASSUME NEW q, NEW c, NEW n, Chain(q, c, n), NEW a \in 0 .. n,
           NEW s \in Seq(Block), Distinct(s), Listed(c, n) \cap ToSet(s) = {},
           NEW d, d = Spliced(c, n, a, s),
           NEW r, r = [Connect(q, <<c[a]>> \o s \o <<c[a + 1]>>) EXCEPT !.num = @ + Len(s)]
    PROVE  Chain(r, d, n + Len(s)) /\ Listed(d, n + Len(s)) = Listed(c, n) \cup ToSet(s)
<1> DEFINE m == Len(s)
           x == c[a]
           y == c[a + 1]
           nodes == <<x>> \o s \o <<y>>
           p == Connect(q, nodes)
<1>1. /\ n \in Nat /\ q \in QueueType /\ q.num = n
      /\ c[0] = FakeHead /\ c[n + 1] = FakeTail
      /\ \A i \in 1 .. n : c[i] \in Block
      /\ \A i \in 0 .. n + 1 : c[i] \in Nodes
      /\ \A i \in 0 .. n : q.next[c[i]] = c[i + 1] /\ q.prev[c[i + 1]] = c[i]
      /\ q.next[FakeTail] = NoBlock /\ q.prev[FakeHead] = NoBlock
      /\ \A z \in Block \ Listed(c, n) : q.next[z] = NoBlock /\ q.prev[z] = NoBlock
  BY ChainParts
<1>2. \A i, j \in 0 .. n + 1 : c[i] = c[j] => i = j
  BY ChainParts
<1>3. /\ m \in Nat /\ n \in Nat /\ a \in Nat /\ a <= n /\ a \in 0 .. n + 1 /\ a + 1 \in 0 .. n + 1
      /\ 0 \in 0 .. n + 1 /\ n + 1 \in 0 .. n + 1
  BY <1>1
<1>4. \A i \in 0 .. n + 1 : c[i] \notin ToSet(s)
  <2> SUFFICES ASSUME NEW i \in 0 .. n + 1, c[i] \in ToSet(s) PROVE FALSE
    OBVIOUS
  <2>1. ToSet(s) \subseteq Block
    BY DEF ToSet
  <2>2. i \in 1 .. n
    <3>1. i # 0 /\ i # n + 1
      BY <1>1, <2>1, Ends
    <3> QED
      BY <1>1, <3>1
  <2> QED
    BY <2>2 DEF Listed
<1>5. x \in Nodes /\ y \in Nodes /\ x # y /\ x \notin ToSet(s) /\ y \notin ToSet(s)
  BY <1>1, <1>2, <1>3, <1>4
<1> HIDE DEF x, y
<1>6. /\ nodes \in Seq(Nodes) /\ Len(nodes) = m + 2
      /\ nodes[1] = x /\ nodes[m + 2] = y
      /\ \A i \in 1 .. m : nodes[i + 1] = s[i]
  <2>1. Fenced(nodes, x, s, y)
    BY <1>5, Between
  <2> QED
    BY <2>1 DEF Fenced
<1>7. Distinct(nodes)
  BY <1>5, BetweenDistinct
<1> HIDE DEF nodes
<1>8. Joined(p, q, nodes)
  <2>1. Len(nodes) >= 2
    BY <1>3, <1>6
  <2> QED
    BY <1>1, <1>6, <1>7, <2>1, ConnectLinks DEF Distinct
<1>9. /\ p \in QueueType /\ p.num = n
      /\ \A i \in 1 .. m + 1 : p.next[nodes[i]] = nodes[i + 1] /\ p.prev[nodes[i + 1]] = nodes[i]
  <2>1. Len(nodes) - 1 = m + 1
    BY <1>3, <1>6
  <2> QED
    BY <1>1, <1>8, <2>1 DEF Joined, Linked
<1>10. \A i \in 1 .. m : s[i] \in ToSet(s)
  BY DEF ToSet
<1>11. ASSUME NEW z \in Nodes, z # x, z \notin ToSet(s) PROVE p.next[z] = q.next[z]
  <2>1. ASSUME NEW i \in 1 .. Len(nodes) - 1 PROVE z # nodes[i]
    <3>1. i = 1 \/ (i - 1 \in 1 .. m /\ (i - 1) + 1 = i)
      BY <1>3, <1>6
    <3> QED
      BY <1>6, <1>10, <1>11, <3>1
  <2> QED
    BY <1>8, <2>1 DEF Joined
<1>12. ASSUME NEW z \in Nodes, z # y, z \notin ToSet(s) PROVE p.prev[z] = q.prev[z]
  <2>1. ASSUME NEW i \in 2 .. Len(nodes) PROVE z # nodes[i]
    <3>1. i = m + 2 \/ (i - 1 \in 1 .. m /\ (i - 1) + 1 = i)
      BY <1>3, <1>6
    <3> QED
      BY <1>6, <1>10, <1>12, <3>1
  <2> QED
    BY <1>8, <2>1 DEF Joined
<1>13. p.num + m \in Nat /\ r = [p EXCEPT !.num = p.num + m]
  <2>1. p.num + m \in Nat
    BY <1>3, <1>9
  <2>2. r = [p EXCEPT !.num = p.num + m]
    BY Zenon DEF p, nodes, x, y
  <2> QED
    BY <2>1, <2>2
<1>14. r \in QueueType /\ r.num = n + m /\ r.next = p.next /\ r.prev = p.prev
  <2>1. n + m \in Nat /\ p.num = n
    BY <1>3, <1>9
  <2> HIDE DEF p, m
  <2>2. p \in QueueType /\ r = [p EXCEPT !.num = n + m]
    BY <1>9, <1>13, <2>1
  <2> QED
    BY <2>1, <2>2 DEF QueueType
<1>15. Row(c, n)
  BY DEF Chain
<1>16. Row(d, n + m) /\ Listed(d, n + m) = Listed(c, n) \cup ToSet(s)
  BY <1>15, SplicedRow
<1>17. /\ \A i \in 0 .. a : d[i] = c[i]
       /\ \A i \in 1 .. m : d[a + i] = s[i]
       /\ \A i \in a + 1 .. n + 1 : d[i + m] = c[i]
  <2>1. Inserted(d, c, n, a, s)
    BY <1>1, SplicedParts
  <2> QED
    BY <2>1 DEF Inserted
<1> HIDE DEF m, p
<1>18. \A i \in 1 .. m + 2 : d[a + i - 1] = nodes[i]
  <2> SUFFICES ASSUME NEW i \in 1 .. m + 2 PROVE d[a + i - 1] = nodes[i]
    OBVIOUS
  <2>1. CASE i = 1
    <3>1. a + i - 1 = a /\ a \in 0 .. a
      BY <1>3, <2>1
    <3> QED
      BY <1>6, <1>17, <2>1, <3>1 DEF x
  <2>2. CASE i = m + 2
    <3>1. a + i - 1 = (a + 1) + m /\ a + 1 \in a + 1 .. n + 1
      BY <1>3, <2>2
    <3> QED
      BY <1>6, <1>17, <2>2, <3>1 DEF y
  <2>3. CASE i # 1 /\ i # m + 2
    <3>1. i - 1 \in 1 .. m /\ a + i - 1 = a + (i - 1) /\ (i - 1) + 1 = i
      BY <1>3, <2>3
    <3> QED
      BY <1>6, <1>17, <3>1
  <2> QED
    BY <2>1, <2>2, <2>3
<1>19. ASSUME NEW i \in 0 .. n, i # a
       PROVE  p.next[c[i]] = c[i + 1] /\ p.prev[c[i + 1]] = c[i]
  <2>1. i \in 0 .. n + 1 /\ i + 1 \in 0 .. n + 1 /\ i + 1 # a + 1
    BY <1>1, <1>3, <1>19
  <2>2. c[i] \in Nodes /\ c[i + 1] \in Nodes /\ c[i] \notin ToSet(s) /\ c[i + 1] \notin ToSet(s)
    BY <1>1, <1>4, <2>1
  <2>3. c[i] # x /\ c[i + 1] # y
    BY <1>2, <1>3, <1>19, <2>1 DEF x, y
  <2> QED
    BY <1>1, <1>11, <1>12, <2>2, <2>3
<1>20. ASSUME NEW i \in 0 .. n + m PROVE Linked(r, d[i], d[i + 1])
  <2>1. CASE i < a
    <3>1. i \in 0 .. a /\ i + 1 \in 0 .. a /\ i \in 0 .. n /\ i # a
      BY <1>1, <1>3, <2>1
    <3> QED
      BY <1>14, <1>17, <1>19, <3>1 DEF Linked
  <2>2. CASE i >= a /\ i <= a + m
    <3>1. /\ i - a + 1 \in 1 .. m + 1 /\ i - a + 1 \in 1 .. m + 2 /\ (i - a + 1) + 1 \in 1 .. m + 2
          /\ a + (i - a + 1) - 1 = i /\ a + ((i - a + 1) + 1) - 1 = i + 1
      BY <1>3, <2>2
    <3> DEFINE k == i - a + 1
    <3>2. k \in 1 .. m + 1 /\ d[i] = nodes[k] /\ d[i + 1] = nodes[k + 1]
      BY <1>18, <3>1
    <3> HIDE DEF k
    <3> QED
      BY <1>9, <1>14, <3>2 DEF Linked
  <2>3. CASE i > a + m
    <3>1. /\ i - m \in a + 1 .. n + 1 /\ (i - m) + 1 \in a + 1 .. n + 1 /\ (i - m) + m = i
          /\ ((i - m) + 1) + m = i + 1 /\ i - m \in 0 .. n /\ i - m # a
      BY <1>1, <1>3, <2>3
    <3> DEFINE k == i - m
    <3>2. k \in 0 .. n /\ k # a /\ d[i] = c[k] /\ d[i + 1] = c[k + 1]
      BY <1>17, <3>1
    <3> HIDE DEF k
    <3> QED
      BY <1>14, <1>19, <3>2 DEF Linked
  <2> QED
    BY <1>1, <1>3, <2>1, <2>2, <2>3
<1>21. r.next[FakeTail] = NoBlock /\ r.prev[FakeHead] = NoBlock
  <2>1. n + 1 # a /\ 0 # a + 1
    BY <1>1, <1>3
  <2>2. FakeTail # x /\ FakeHead # y /\ FakeTail \notin ToSet(s) /\ FakeHead \notin ToSet(s)
    BY <1>1, <1>2, <1>3, <1>4, <2>1 DEF x, y
  <2> QED
    BY <1>1, <1>11, <1>12, <1>14, <2>2, Ends
<1>22. ASSUME NEW b \in Block \ Listed(d, n + m) PROVE r.next[b] = NoBlock /\ r.prev[b] = NoBlock
  <2>1. b \in Block \ Listed(c, n) /\ b \notin ToSet(s) /\ b \in Nodes
    BY <1>16, Ends
  <2>2. \A i \in 0 .. n + 1 : b # c[i]
    <3> SUFFICES ASSUME NEW i \in 0 .. n + 1, b = c[i] PROVE FALSE
      OBVIOUS
    <3>1. i # 0 /\ i # n + 1
      BY <1>1, <2>1, Ends
    <3>2. i \in 1 .. n
      BY <1>1, <3>1
    <3> QED
      BY <2>1, <3>2 DEF Listed
  <2>3. b # x /\ b # y
    BY <1>3, <2>2 DEF x, y
  <2> QED
    BY <1>1, <1>11, <1>12, <1>14, <2>1, <2>3
<1>23. Chain(r, d, n + m)
  BY <1>14, <1>16, <1>20, <1>21, <1>22 DEF Chain
<1> QED
  BY <1>16, <1>23 DEF m

LEMMA EmptySplice ==
    ASSUME NEW q, NEW c, NEW n, Chain(q, c, n), NEW a \in 0 .. n,
           NEW s \in Seq(Block), Distinct(s), Listed(c, n) \cap ToSet(s) = {},
           NEW d, d = Spliced(c, n, a, s)
    PROVE  /\ Len(s) = 0 => Chain(q, d, n + Len(s))
           /\ Listed(d, n + Len(s)) = Listed(c, n) \cup ToSet(s)
<1>2. Row(c, n) /\ n \in Nat
  BY DEF Chain, Row
<1>3. Row(d, n + Len(s)) /\ Listed(d, n + Len(s)) = Listed(c, n) \cup ToSet(s)
  BY <1>2, SplicedRow
<1> SUFFICES ASSUME Len(s) = 0 PROVE Chain(q, d, n + Len(s))
  BY <1>3
<1>4. n + Len(s) = n
  BY <1>2
<1>5. \A i \in 0 .. n + 1 : d[i] = c[i]
  <2> SUFFICES ASSUME NEW i \in 0 .. n + 1 PROVE d[i] = c[i]
    OBVIOUS
  <2>1. Inserted(d, c, n, a, s)
    BY <1>2, SplicedParts
  <2>2. \A k \in a + 1 .. n + 1 : d[k + Len(s)] = c[k]
    BY <2>1 DEF Inserted
  <2>3. CASE i <= a
    <3>1. i \in 0 .. a
      BY <1>2, <2>3
    <3> QED
      BY <2>1, <3>1 DEF Inserted
  <2>4. CASE ~(i <= a)
    <3>1. i \in a + 1 .. n + 1 /\ i + Len(s) = i
      BY <1>2, <2>4
    <3> QED
      BY <2>2, <3>1
  <2> QED
    BY <2>3, <2>4
<1>6. Chain(q, d, n)
  BY <1>3, <1>4, <1>5, ChainSame
<1> QED
  BY <1>4, <1>6

LEMMA AppendChain ==
    ASSUME NEW q, NEW c, NEW n, Chain(q, c, n),
           NEW s \in Seq(Block), Distinct(s), Listed(c, n) \cap ToSet(s) = {},
           NEW d, d = Spliced(c, n, n, s)
    PROVE  /\ Chain(AppendN(q, s), d, n + Len(s))
           /\ Listed(d, n + Len(s)) = Listed(c, n) \cup ToSet(s)
<1>1. n \in Nat /\ q.prev[FakeTail] = c[n] /\ c[n + 1] = FakeTail
  <2>1. n \in Nat /\ c[n + 1] = FakeTail /\ \A i \in 0 .. n : q.prev[c[i + 1]] = c[i]
    BY ChainParts
  <2>2. n \in 0 .. n
    BY <2>1
  <2> QED
    BY <2>1, <2>2
<1>2. n \in 0 .. n
  BY <1>1
<1>3. /\ Len(s) = 0 => Chain(q, d, n + Len(s))
      /\ Listed(d, n + Len(s)) = Listed(c, n) \cup ToSet(s)
  BY <1>2, EmptySplice
<1>5. CASE s = << >>
  BY <1>3, <1>5 DEF AppendN
<1>4. CASE s # << >>
  <2>1. AppendN(q, s) = [Connect(q, <<c[n]>> \o s \o <<c[n + 1]>>) EXCEPT !.num = @ + Len(s)]
    BY <1>1, <1>4, Zenon DEF AppendN
  <2> QED
    BY <1>2, <2>1, SpliceChain
<1> QED
  BY <1>4, <1>5

LEMMA PrependChain ==
    ASSUME NEW q, NEW c, NEW n, Chain(q, c, n),
           NEW s \in Seq(Block), Distinct(s), Listed(c, n) \cap ToSet(s) = {},
           NEW d, d = Spliced(c, n, 0, s)
    PROVE  /\ Chain(PrependN(q, s), d, n + Len(s))
           /\ Listed(d, n + Len(s)) = Listed(c, n) \cup ToSet(s)
<1>1. n \in Nat /\ q.next[FakeHead] = c[0 + 1] /\ c[0] = FakeHead
  <2>1. n \in Nat /\ c[0] = FakeHead /\ \A i \in 0 .. n : q.next[c[i]] = c[i + 1]
    BY ChainParts
  <2>2. 0 \in 0 .. n
    BY <2>1
  <2> QED
    BY <2>1, <2>2
<1>2. 0 \in 0 .. n
  BY <1>1
<1>3. /\ Len(s) = 0 => Chain(q, d, n + Len(s))
      /\ Listed(d, n + Len(s)) = Listed(c, n) \cup ToSet(s)
  BY <1>2, EmptySplice
<1>5. CASE s = << >>
  BY <1>3, <1>5 DEF PrependN
<1>4. CASE s # << >>
  <2>1. PrependN(q, s) = [Connect(q, <<c[0]>> \o s \o <<c[0 + 1]>>) EXCEPT !.num = @ + Len(s)]
    BY <1>1, <1>4, Zenon DEF PrependN
  <2> QED
    BY <1>2, <2>1, SpliceChain
<1> QED
  BY <1>4, <1>5

\* A new list: the blocks between the fake head and the fake tail.
RowOf(s) == [i \in 0 .. Len(s) + 1 |-> IF i = 0 THEN FakeHead
                                        ELSE IF i = Len(s) + 1 THEN FakeTail ELSE s[i]]

LEMMA QueueOfChain ==
    ASSUME NEW s \in Seq(Block), Distinct(s)
    PROVE  Chain(QueueOf(s), RowOf(s), Len(s)) /\ Listed(RowOf(s), Len(s)) = ToSet(s)
<1> DEFINE n == Len(s)
           c == RowOf(s)
           none == [x \in Nodes |-> NoBlock]
           q == [num |-> n, next |-> none, prev |-> none]
           nodes == <<FakeHead>> \o s \o <<FakeTail>>
           p == Connect(q, nodes)
<1>1. n \in Nat /\ DOMAIN s = 1 .. n /\ \A i \in 1 .. n : s[i] \in Block
  OBVIOUS
<1>2. /\ c[0] = FakeHead /\ c[n + 1] = FakeTail
      /\ \A i \in 1 .. n : c[i] = s[i]
  BY <1>1 DEF RowOf
<1> HIDE DEF c
<1>3. Row(c, n)
  BY <1>1, <1>2 DEF Row, Distinct
<1>4. Listed(c, n) = ToSet(s)
  BY <1>1, <1>2 DEF Listed, ToSet
<1>5. q \in QueueType /\ q.num = n /\ \A z \in Nodes : q.next[z] = NoBlock /\ q.prev[z] = NoBlock
  BY <1>1 DEF QueueType
<1> HIDE DEF q
<1>6. FakeHead \notin ToSet(s) /\ FakeTail \notin ToSet(s) /\ FakeHead # FakeTail
  BY <1>1, Ends DEF ToSet
<1>7. Fenced(nodes, FakeHead, s, FakeTail) /\ Distinct(nodes)
  BY <1>6, Between, BetweenDistinct, Ends
<1> HIDE DEF nodes
<1>8. /\ nodes \in Seq(Nodes) /\ Len(nodes) = n + 2
      /\ nodes[1] = FakeHead /\ nodes[n + 2] = FakeTail
      /\ \A i \in 1 .. n : nodes[i + 1] = s[i]
  BY <1>7 DEF Fenced
<1>9. \A i \in 0 .. n + 1 : nodes[i + 1] = c[i]
  <2> SUFFICES ASSUME NEW i \in 0 .. n + 1 PROVE nodes[i + 1] = c[i]
    OBVIOUS
  <2>1. i = 0 \/ i = n + 1 \/ i \in 1 .. n
    BY <1>1
  <2>2. (n + 1) + 1 = n + 2
    BY <1>1
  <2> QED
    BY <1>2, <1>8, <2>1, <2>2
<1>10. Joined(p, q, nodes)
  <2>1. Len(nodes) >= 2
    BY <1>1, <1>8
  <2> QED
    BY <1>5, <1>7, <1>8, <2>1, ConnectLinks DEF Distinct
<1>11. QueueOf(s) = p
  BY DEF QueueOf, q, nodes
<1> HIDE DEF p, n
<1>12. p \in QueueType /\ p.num = n
  BY <1>5, <1>10 DEF Joined
<1>13. ASSUME NEW i \in 0 .. n PROVE Linked(p, c[i], c[i + 1])
  <2>1. i \in 0 .. n + 1 /\ i + 1 \in 0 .. n + 1 /\ i + 1 \in 1 .. Len(nodes) - 1
    BY <1>1, <1>8
  <2>2. c[i] = nodes[i + 1] /\ c[i + 1] = nodes[(i + 1) + 1]
    BY <1>9, <2>1
  <2> QED
    BY <1>10, <2>1, <2>2 DEF Joined
<1>14. ASSUME NEW i \in 1 .. Len(nodes)
       PROVE  /\ i <= Len(nodes) - 1 => nodes[i] # FakeTail
              /\ i >= 2 => nodes[i] # FakeHead
              /\ nodes[i] \in ToSet(s) \cup {FakeHead, FakeTail}
  <2>1. 1 \in 1 .. Len(nodes) /\ n + 2 \in 1 .. Len(nodes) /\ Len(nodes) - 1 = n + 1
    BY <1>1, <1>8
  <2>2. i <= Len(nodes) - 1 => i # n + 2
    BY <1>1, <1>8
  <2>3. (i <= Len(nodes) - 1 => nodes[i] # FakeTail) /\ (i >= 2 => nodes[i] # FakeHead)
    BY <1>7, <1>8, <2>1, <2>2 DEF Distinct
  <2>4. i = 1 \/ i = n + 2 \/ (i - 1 \in 1 .. n /\ (i - 1) + 1 = i)
    BY <1>1, <1>8
  <2>5. \A k \in 1 .. n : s[k] \in ToSet(s)
    BY <1>1 DEF ToSet
  <2>6. nodes[i] \in ToSet(s) \cup {FakeHead, FakeTail}
    BY <1>8, <2>4, <2>5
  <2> QED
    BY <2>3, <2>6
<1>15. p.next[FakeTail] = NoBlock /\ p.prev[FakeHead] = NoBlock
  <2>1. \A i \in 1 .. Len(nodes) - 1 : FakeTail # nodes[i]
    BY <1>1, <1>8, <1>14
  <2>2. \A i \in 2 .. Len(nodes) : FakeHead # nodes[i]
    BY <1>1, <1>8, <1>14
  <2> QED
    BY <1>5, <1>10, <2>1, <2>2, Ends DEF Joined
<1>16. ASSUME NEW b \in Block \ Listed(c, n) PROVE p.next[b] = NoBlock /\ p.prev[b] = NoBlock
  <2>1. b \notin ToSet(s) \cup {FakeHead, FakeTail} /\ b \in Nodes
    BY <1>4, Ends
  <2>2. \A i \in 1 .. Len(nodes) : b # nodes[i]
    BY <1>14, <2>1
  <2>3. (\A i \in 1 .. Len(nodes) - 1 : b # nodes[i]) /\ (\A i \in 2 .. Len(nodes) : b # nodes[i])
    BY <1>1, <1>8, <2>2
  <2> QED
    BY <1>5, <1>10, <2>1, <2>3 DEF Joined
<1>17. Chain(p, c, n)
  BY <1>3, <1>12, <1>13, <1>15, <1>16 DEF Chain
<1> QED
  BY <1>4, <1>11, <1>17 DEF c, n

-----------------------------------------------------------------------------
(* Who is evicted before whom. *)

Ahead(q, x, y) == \E i, j \in DOMAIN Order(q) : i < j /\ Order(q)[i] = x /\ Order(q)[j] = y

LEMMA OrderOfChain ==
    ASSUME NEW q, NEW c, NEW n, Chain(q, c, n)
    PROVE  DOMAIN Order(q) = 1 .. n /\ \A i \in 1 .. n : Order(q)[i] = c[i]
<1>1. Order(q) = [i \in 1 .. n |-> c[i]]
  BY ChainSound
<1> QED
  BY <1>1

LEMMA AheadIn ==
    ASSUME NEW q, NEW c, NEW n, Chain(q, c, n), NEW x, NEW y
    PROVE  Ahead(q, x, y) <=> \E i, j \in 1 .. n : i < j /\ c[i] = x /\ c[j] = y
<1>1. DOMAIN Order(q) = 1 .. n /\ \A i \in 1 .. n : Order(q)[i] = c[i]
  BY OrderOfChain
<1> QED
  BY <1>1 DEF Ahead

\* What is ahead of something else is in the list, and so is the other.
LEMMA AheadListed ==
    ASSUME NEW q, NEW c, NEW n, Chain(q, c, n), NEW x, NEW y, Ahead(q, x, y)
    PROVE  x \in Listed(c, n) /\ y \in Listed(c, n)
<1>1. \E i, j \in 1 .. n : i < j /\ c[i] = x /\ c[j] = y
  BY AheadIn
<1> QED
  BY <1>1 DEF Listed

\* remove() keeps the order of the other blocks.
LEMMA AheadRemove ==
    ASSUME NEW q, NEW c, NEW n, Chain(q, c, n), NEW k \in 1 .. n,
           NEW x, NEW y, Ahead(q, x, y), x # c[k], y # c[k]
    PROVE  Ahead(RemoveBlock(q, c[k]), x, y)
<1> DEFINE d == Without(c, n, k)
           At(i) == IF i < k THEN i ELSE i - 1
<1>1. n \in Nat
  BY DEF Chain, Row
<1>2. PICK i, j \in 1 .. n : i < j /\ c[i] = x /\ c[j] = y
  BY AheadIn
<1>3. i # k /\ j # k
  BY <1>2
<1>4. \A m \in 0 .. n : d[m] = IF m < k THEN c[m] ELSE c[m + 1]
  BY DEF Without
<1>5. ASSUME NEW m \in 1 .. n, m # k PROVE At(m) \in 1 .. n - 1 /\ d[At(m)] = c[m]
  <2>1. CASE m < k
    <3>1. m \in 1 .. n - 1 /\ m \in 0 .. n
      BY <1>1, <2>1
    <3> QED
      BY <1>4, <2>1, <3>1
  <2>2. CASE ~(m < k)
    <3>1. m - 1 \in 1 .. n - 1 /\ m - 1 \in 0 .. n /\ ~(m - 1 < k) /\ (m - 1) + 1 = m
      BY <1>1, <1>5, <2>2
    <3> QED
      BY <1>4, <2>2, <3>1
  <2> QED
    BY <2>1, <2>2
<1>6. At(i) < At(j)
  BY <1>1, <1>2, <1>3
<1> HIDE DEF At
<1>7. Chain(RemoveBlock(q, c[k]), d, n - 1)
  BY RemoveChain
<1> HIDE DEF d
<1> QED
  BY <1>2, <1>3, <1>5, <1>6, <1>7, AheadIn

\* popleft_n() keeps the order of what it leaves, and takes nothing that is
\* behind a block it leaves.
LEMMA AheadPop ==
    ASSUME NEW q, NEW c, NEW n, Chain(q, c, n), NEW k \in 0 .. n,
           NEW x, NEW y, Ahead(q, x, y), x \notin {c[i] : i \in 1 .. k}
    PROVE  Ahead(PopLeftN(q, k), x, y)
<1> DEFINE d == Beyond(c, n, k)
<1>1. n \in Nat
  BY DEF Chain, Row
<1>2. PICK i, j \in 1 .. n : i < j /\ c[i] = x /\ c[j] = y
  BY AheadIn
<1>3. i > k
  BY <1>1, <1>2
<1>4. \A m \in 1 .. n - k + 1 : d[m] = c[m + k]
  BY <1>1 DEF Beyond
<1>5. ASSUME NEW m \in 1 .. n, m > k PROVE m - k \in 1 .. n - k /\ d[m - k] = c[m]
  <2>1. m - k \in 1 .. n - k /\ m - k \in 1 .. n - k + 1 /\ (m - k) + k = m
    BY <1>1, <1>5
  <2> QED
    BY <1>4, <2>1
<1>6. i - k < j - k /\ j > k
  BY <1>1, <1>2, <1>3
<1>7. Chain(PopLeftN(q, k), d, n - k)
  BY PopChain
<1> HIDE DEF d
<1> QED
  BY <1>2, <1>3, <1>5, <1>6, <1>7, AheadIn

\* A splice keeps the order on both sides of it, and has its own.
LEMMA AheadSpliced ==
    ASSUME NEW q, NEW c, NEW n, Chain(q, c, n), NEW a \in 0 .. n, NEW s \in Seq(Block),
           NEW d, d = Spliced(c, n, a, s), NEW r, Chain(r, d, n + Len(s))
    PROVE  /\ \A x, y : Ahead(q, x, y) => Ahead(r, x, y)
           /\ \A i, j \in 1 .. Len(s) : i < j => Ahead(r, s[i], s[j])
           /\ \A i \in 1 .. a, j \in 1 .. Len(s) : Ahead(r, c[i], s[j])
<1> DEFINE m == Len(s)
           At(i) == IF i <= a THEN i ELSE i + m
<1>1. n \in Nat /\ m \in Nat
  BY DEF Chain, Row
<1>2. Inserted(d, c, n, a, s)
  BY <1>1, SplicedParts
<1>3. /\ \A i \in 0 .. a : d[i] = c[i]
      /\ \A i \in 1 .. m : d[a + i] = s[i]
      /\ \A i \in a + 1 .. n + 1 : d[i + m] = c[i]
  BY <1>2 DEF Inserted
<1> HIDE DEF m
<1>4. ASSUME NEW i \in 1 .. n PROVE At(i) \in 1 .. n + m /\ d[At(i)] = c[i]
  <2>1. CASE i <= a
    <3>1. i \in 0 .. a /\ i \in 1 .. n + m
      BY <1>1, <2>1
    <3> QED
      BY <1>3, <2>1, <3>1
  <2>2. CASE ~(i <= a)
    <3>1. i \in a + 1 .. n + 1 /\ i + m \in 1 .. n + m
      BY <1>1, <2>2
    <3> QED
      BY <1>3, <2>2, <3>1
  <2> QED
    BY <2>1, <2>2
<1>5. \A i, j \in 1 .. n : i < j => At(i) < At(j)
  BY <1>1
<1> HIDE DEF At
<1>6. \A i \in 1 .. m : a + i \in 1 .. n + m /\ d[a + i] = s[i]
  <2>1. \A i \in 1 .. m : a + i \in 1 .. n + m
    BY <1>1
  <2> QED
    BY <1>3, <2>1
<1>7. \A x, y : Ahead(r, x, y) <=> \E i, j \in 1 .. n + m : i < j /\ d[i] = x /\ d[j] = y
  BY AheadIn DEF m
<1>8. ASSUME NEW x, NEW y, Ahead(q, x, y) PROVE Ahead(r, x, y)
  <2>1. PICK i, j \in 1 .. n : i < j /\ c[i] = x /\ c[j] = y
    BY <1>8, AheadIn
  <2>2. At(i) \in 1 .. n + m /\ d[At(i)] = x /\ At(j) \in 1 .. n + m /\ d[At(j)] = y
    BY <1>4, <2>1
  <2>3. At(i) < At(j)
    BY <1>5, <2>1
  <2> QED
    BY <1>7, <2>2, <2>3
<1>9. ASSUME NEW i \in 1 .. m, NEW j \in 1 .. m, i < j PROVE Ahead(r, s[i], s[j])
  <2>1. a + i < a + j
    BY <1>1, <1>9
  <2> QED
    BY <1>6, <1>7, <2>1
<1>10. ASSUME NEW i \in 1 .. a, NEW j \in 1 .. m PROVE Ahead(r, c[i], s[j])
  <2>1. i \in 1 .. n + m /\ i \in 0 .. a /\ i < a + j
    BY <1>1
  <2>2. d[i] = c[i]
    BY <1>3, <2>1
  <2> QED
    BY <1>6, <1>7, <2>1, <2>2
<1> QED
  BY <1>8, <1>9, <1>10 DEF m

-----------------------------------------------------------------------------
(* The folds of the pool, step by step. *)

FoldStep(kind, args, p, i) ==
    IF kind = "touch" THEN TouchOne(p, args[i])
    ELSE IF kind = "take" THEN TakeOne(p, args[i])
    ELSE IF kind = "those" THEN IF args[1][i] \in args[2] THEN Append(p, args[1][i]) ELSE p
    ELSE Insert(p, Key(args[1], args[3][i]), args[2][args[3][i]])

Fold(kind, args, base, k, f) ==
    f = [s \in SUBSET (1 .. k) |->
            IF s = {} THEN base ELSE FoldStep(kind, args, f[s \ {Max(s)}], Max(s))]

LEMMA FoldExists ==
    ASSUME NEW kind, NEW args, NEW base, NEW n \in Nat
    PROVE  \E f : Fold(kind, args, base, n, f)
<1> DEFINE T == {m \in Nat : \E f : Fold(kind, args, base, m, f)}
<1>1. 0 \in T
  <2> DEFINE f == [s \in SUBSET (1 .. 0) |-> base]
  <2>1. Fold(kind, args, base, 0, f)
    <3>1. \A s \in SUBSET (1 .. 0) : s = {}
      OBVIOUS
    <3> QED
      BY <3>1 DEF Fold
  <2> QED
    BY <2>1
<1>2. ASSUME NEW m \in 0 .. n - 1, m \in T PROVE m + 1 \in T
  <2>1. m \in Nat /\ m + 1 \in Nat
    OBVIOUS
  <2>2. PICK f : Fold(kind, args, base, m, f)
    BY <1>2
  <2> DEFINE g == [s \in SUBSET (1 .. m + 1) |->
                      IF m + 1 \in s THEN FoldStep(kind, args, f[s \ {m + 1}], m + 1) ELSE f[s]]
  <2>3. \A s \in SUBSET (1 .. m) :
          f[s] = IF s = {} THEN base ELSE FoldStep(kind, args, f[s \ {Max(s)}], Max(s))
    BY <2>2, Zenon DEF Fold
  <2>4. \A s \in SUBSET (1 .. m) : s \in SUBSET (1 .. m + 1) /\ m + 1 \notin s
    BY <2>1
  <2>5. \A s \in SUBSET (1 .. m) : g[s] = f[s]
    BY <2>4
  <2>6. ASSUME NEW s \in SUBSET (1 .. m + 1)
        PROVE  g[s] = IF s = {} THEN base ELSE FoldStep(kind, args, g[s \ {Max(s)}], Max(s))
    <3>1. CASE m + 1 \in s
      <4>1. Max(s) = m + 1
        <5>1. \A x \in s : m + 1 >= x
          BY <2>1
        <5>2. \A x \in s : (\A y \in s : x >= y) => x = m + 1
          BY <2>1, <3>1
        <5> QED
          BY <3>1, <5>1, <5>2 DEF Max
      <4>2. s \ {m + 1} \in SUBSET (1 .. m) /\ s # {}
        BY <2>1, <3>1
      <4>3. g[s \ {m + 1}] = f[s \ {m + 1}]
        BY <2>5, <4>2
      <4>4. g[s] = FoldStep(kind, args, f[s \ {m + 1}], m + 1)
        BY <3>1
      <4> HIDE DEF g
      <4> QED
        BY <4>1, <4>2, <4>3, <4>4, Zenon
    <3>2. CASE m + 1 \notin s
      <4>1. s \in SUBSET (1 .. m)
        BY <2>1, <3>2
      <4>2. s \ {Max(s)} \in SUBSET (1 .. m)
        BY <4>1
      <4>3. g[s] = f[s] /\ g[s \ {Max(s)}] = f[s \ {Max(s)}]
        BY <2>5, <4>1, <4>2
      <4> HIDE DEF g
      <4> QED
        BY <2>3, <4>1, <4>3, Zenon
    <3> QED
      BY <3>1, <3>2
  <2>7. g = [s \in SUBSET (1 .. m + 1) |-> g[s]]
    OBVIOUS
  <2> HIDE DEF g
  <2>8. Fold(kind, args, base, m + 1, g)
    BY <2>6, <2>7, Zenon DEF Fold
  <2> QED
    BY <2>1, <2>8
<1> HIDE DEF T
<1>3. n \in T
  BY <1>1, <1>2, BoundedInduction
<1> QED
  BY <1>3 DEF T

\* A fold is a chain of steps from the base.
Stepwise(a, kind, args, base, n) ==
    /\ a[0] = base
    /\ \A i \in 1 .. n : a[i] = FoldStep(kind, args, a[i - 1], i)

LEMMA FoldStepwise ==
    ASSUME NEW kind, NEW args, NEW base, NEW n \in Nat, NEW f, Fold(kind, args, base, n, f)
    PROVE  \E a : Stepwise(a, kind, args, base, n) /\ a[n] = f[1 .. n]
<1> DEFINE a == [i \in 0 .. n |-> f[1 .. i]]
<1>1. \A s \in SUBSET (1 .. n) :
        f[s] = IF s = {} THEN base ELSE FoldStep(kind, args, f[s \ {Max(s)}], Max(s))
  BY Zenon DEF Fold
<1>2. \A i \in 0 .. n : a[i] = f[1 .. i]
  OBVIOUS
<1>3. a[0] = base
  <2>1. 1 .. 0 = {} /\ {} \in SUBSET (1 .. n) /\ 0 \in 0 .. n
    OBVIOUS
  <2> HIDE DEF a
  <2> QED
    BY <1>1, <1>2, <2>1
<1>4. ASSUME NEW i \in 1 .. n PROVE a[i] = FoldStep(kind, args, a[i - 1], i)
  <2> DEFINE s == 1 .. i
  <2>1. i \in 0 .. n /\ i - 1 \in 0 .. n /\ s \in SUBSET (1 .. n) /\ s # {} /\ i \in s
    OBVIOUS
  <2>2. s \ {i} = 1 .. i - 1
    OBVIOUS
  <2>3. Max(s) = i
    <3>1. \A x \in s : i >= x
      OBVIOUS
    <3>2. \A x \in s : (\A y \in s : x >= y) => x = i
      OBVIOUS
    <3> HIDE DEF s
    <3> QED
      BY <2>1, <3>1, <3>2 DEF Max
  <2>4. a[i] = f[s] /\ a[i - 1] = f[s \ {i}]
    BY <1>2, <2>1, <2>2
  <2> HIDE DEF a, s
  <2> QED
    BY <1>1, <2>1, <2>3, <2>4, Zenon
<1>5. a[n] = f[1 .. n]
  OBVIOUS
<1> HIDE DEF a
<1>6. Stepwise(a, kind, args, base, n)
  BY <1>3, <1>4 DEF Stepwise
<1> QED
  BY <1>5, <1>6

IterTouch(p, blocks, S, f) ==
    f = [s \in SUBSET S |-> IF s = {} THEN p
            ELSE TouchOne(f[s \ {Max(s)}], blocks[Max(s)])]

LEMMA TouchFrom ==
    ASSUME NEW p, NEW blocks, NEW S, S = DOMAIN blocks, NEW g, IterTouch(p, blocks, S, g)
    PROVE  \E f : IterTouch(p, blocks, S, f) /\ Touch(p, blocks) = f[S]
<1> DEFINE h == CHOOSE f : IterTouch(p, blocks, S, f)
<1>1. IterTouch(p, blocks, S, h)
  BY Zenon
<1>2. Touch(p, blocks) = h[S]
  BY Zenon DEF Touch, FoldLeft, MapThenFoldSet, IterTouch
<1> QED
  BY <1>1, <1>2, Zenon

\* The blocks of a hit are touched one after the other.
TouchRun(a, p, blocks, n) ==
    /\ a[0] = p /\ a[n] = Touch(p, blocks)
    /\ \A i \in 1 .. n : a[i] = TouchOne(a[i - 1], blocks[i])

LEMMA TouchSteps ==
    ASSUME NEW p, NEW blocks, NEW n \in Nat, DOMAIN blocks = 1 .. n
    PROVE  \E a : TouchRun(a, p, blocks, n)
<1> DEFINE S == 1 .. n
           args == blocks
           base == p
<1>1. ASSUME NEW f PROVE Fold("touch", args, base, n, f) <=> IterTouch(p, blocks, S, f)
  <2>1. \A q, i : FoldStep("touch", args, q, i) = TouchOne(q, blocks[i])
    BY DEF FoldStep
  <2>2. Fold("touch", args, base, n, f) =>
            \A s \in SUBSET S : f[s] = IF s = {} THEN base ELSE FoldStep("touch", args, f[s \ {Max(s)}], Max(s))
    BY Zenon DEF Fold
  <2>3. IterTouch(p, blocks, S, f) =>
            \A s \in SUBSET S : f[s] = IF s = {} THEN base ELSE TouchOne(f[s \ {Max(s)}], blocks[Max(s)])
    BY Zenon DEF IterTouch
  <2>4. Fold("touch", args, base, n, f) => f = [s \in SUBSET S |-> f[s]]
    BY DEF Fold
  <2>5. IterTouch(p, blocks, S, f) => f = [s \in SUBSET S |-> f[s]]
    BY DEF IterTouch
  <2> HIDE DEF args
  <2>6. \A s \in SUBSET S : FoldStep("touch", args, f[s \ {Max(s)}], Max(s)) = TouchOne(f[s \ {Max(s)}], blocks[Max(s)])
    BY <2>1, Zenon
  <2>7. ASSUME Fold("touch", args, base, n, f) PROVE IterTouch(p, blocks, S, f)
    <3>1. \A s \in SUBSET S : f[s] = IF s = {} THEN base ELSE TouchOne(f[s \ {Max(s)}], blocks[Max(s)])
      BY <2>2, <2>6, <2>7, Zenon
    <3> QED
      BY <2>4, <2>7, <3>1, Zenon DEF IterTouch
  <2>8. ASSUME IterTouch(p, blocks, S, f) PROVE Fold("touch", args, base, n, f)
    <3>1. \A s \in SUBSET S :
            f[s] = IF s = {} THEN base ELSE FoldStep("touch", args, f[s \ {Max(s)}], Max(s))
      BY <2>3, <2>6, <2>8, Zenon
    <3> QED
      BY <2>5, <2>8, <3>1, Zenon DEF Fold
  <2> QED
    BY <2>7, <2>8
<1>2. \A q, i : FoldStep("touch", args, q, i) = TouchOne(q, blocks[i])
  BY DEF FoldStep
<1> HIDE DEF args, base
<1>3. PICK g : Fold("touch", args, base, n, g)
  BY FoldExists
<1>4. IterTouch(p, blocks, S, g)
  BY <1>1, <1>3
<1>5. PICK f : IterTouch(p, blocks, S, f) /\ Touch(p, blocks) = f[S]
  BY <1>4, TouchFrom
<1>6. Fold("touch", args, base, n, f)
  BY <1>1, <1>5
<1>7. PICK a : Stepwise(a, "touch", args, base, n) /\ a[n] = f[1 .. n]
  BY <1>6, FoldStepwise
<1>8. a[0] = base /\ \A i \in 1 .. n : a[i] = FoldStep("touch", args, a[i - 1], i)
  BY <1>7 DEF Stepwise
<1>9. \A i \in 1 .. n : a[i] = TouchOne(a[i - 1], blocks[i])
  BY <1>2, <1>8, Zenon
<1> QED
  BY <1>5, <1>7, <1>8, <1>9, Zenon DEF base, TouchRun

IterTake(p, k, S, f) ==
    f = [s \in SUBSET S |-> IF s = {} THEN [p EXCEPT !.queue = PopLeftN(@, k)]
            ELSE TakeOne(f[s \ {Max(s)}], NewBlocks(p, k)[Max(s)])]

LEMMA TakeFrom ==
    ASSUME NEW p, NEW k, NEW S, S = DOMAIN NewBlocks(p, k), NEW g, IterTake(p, k, S, g)
    PROVE  \E f : IterTake(p, k, S, f) /\ GetNewBlocks(p, k) = f[S]
<1> DEFINE h == CHOOSE f : IterTake(p, k, S, f)
<1>1. IterTake(p, k, S, h)
  BY Zenon
<1>2. GetNewBlocks(p, k) = h[S]
  BY Zenon DEF GetNewBlocks, FoldLeft, MapThenFoldSet, IterTake
<1> QED
  BY <1>1, <1>2, Zenon

\* The new blocks lose their hashes one after the other.
TakeRun(a, p, k, n) ==
    /\ a[0] = [p EXCEPT !.queue = PopLeftN(@, k)] /\ a[n] = GetNewBlocks(p, k)
    /\ \A i \in 1 .. n : a[i] = TakeOne(a[i - 1], NewBlocks(p, k)[i])

LEMMA TakeSteps ==
    ASSUME NEW p, NEW k, NEW n \in Nat, DOMAIN NewBlocks(p, k) = 1 .. n
    PROVE  \E a : TakeRun(a, p, k, n)
<1> DEFINE S == 1 .. n
           args == NewBlocks(p, k)
           base == [p EXCEPT !.queue = PopLeftN(@, k)]
<1>1. ASSUME NEW f PROVE Fold("take", args, base, n, f) <=> IterTake(p, k, S, f)
  <2>1. \A q, i : FoldStep("take", args, q, i) = TakeOne(q, NewBlocks(p, k)[i])
    BY DEF FoldStep
  <2>2. Fold("take", args, base, n, f) =>
            \A s \in SUBSET S : f[s] = IF s = {} THEN base ELSE FoldStep("take", args, f[s \ {Max(s)}], Max(s))
    BY Zenon DEF Fold
  <2>3. IterTake(p, k, S, f) =>
            \A s \in SUBSET S : f[s] = IF s = {} THEN base ELSE TakeOne(f[s \ {Max(s)}], NewBlocks(p, k)[Max(s)])
    BY Zenon DEF IterTake
  <2>4. Fold("take", args, base, n, f) => f = [s \in SUBSET S |-> f[s]]
    BY DEF Fold
  <2>5. IterTake(p, k, S, f) => f = [s \in SUBSET S |-> f[s]]
    BY DEF IterTake
  <2> HIDE DEF args
  <2>6. \A s \in SUBSET S : FoldStep("take", args, f[s \ {Max(s)}], Max(s)) = TakeOne(f[s \ {Max(s)}], NewBlocks(p, k)[Max(s)])
    BY <2>1, Zenon
  <2>7. ASSUME Fold("take", args, base, n, f) PROVE IterTake(p, k, S, f)
    <3>1. \A s \in SUBSET S : f[s] = IF s = {} THEN base ELSE TakeOne(f[s \ {Max(s)}], NewBlocks(p, k)[Max(s)])
      BY <2>2, <2>6, <2>7, Zenon
    <3> QED
      BY <2>4, <2>7, <3>1, Zenon DEF IterTake
  <2>8. ASSUME IterTake(p, k, S, f) PROVE Fold("take", args, base, n, f)
    <3>1. \A s \in SUBSET S :
            f[s] = IF s = {} THEN base ELSE FoldStep("take", args, f[s \ {Max(s)}], Max(s))
      BY <2>3, <2>6, <2>8, Zenon
    <3> QED
      BY <2>5, <2>8, <3>1, Zenon DEF Fold
  <2> QED
    BY <2>7, <2>8
<1>2. \A q, i : FoldStep("take", args, q, i) = TakeOne(q, NewBlocks(p, k)[i])
  BY DEF FoldStep
<1> HIDE DEF args, base
<1>3. PICK g : Fold("take", args, base, n, g)
  BY FoldExists
<1>4. IterTake(p, k, S, g)
  BY <1>1, <1>3
<1>5. PICK f : IterTake(p, k, S, f) /\ GetNewBlocks(p, k) = f[S]
  BY <1>4, TakeFrom
<1>6. Fold("take", args, base, n, f)
  BY <1>1, <1>5
<1>7. PICK a : Stepwise(a, "take", args, base, n) /\ a[n] = f[1 .. n]
  BY <1>6, FoldStepwise
<1>8. a[0] = base /\ \A i \in 1 .. n : a[i] = FoldStep("take", args, a[i - 1], i)
  BY <1>7 DEF Stepwise
<1>9. \A i \in 1 .. n : a[i] = TakeOne(a[i - 1], NewBlocks(p, k)[i])
  BY <1>2, <1>8, Zenon
<1> QED
  BY <1>5, <1>7, <1>8, <1>9, Zenon DEF base, TakeRun

IterThose(blocks, set, S, f) ==
    f = [s \in SUBSET S |-> IF s = {} THEN << >>
            ELSE IF blocks[Max(s)] \in set THEN Append(f[s \ {Max(s)}], blocks[Max(s)]) ELSE f[s \ {Max(s)}]]

LEMMA ThoseFrom ==
    ASSUME NEW blocks, NEW set, NEW S, S = DOMAIN blocks, NEW g, IterThose(blocks, set, S, g)
    PROVE  \E f : IterThose(blocks, set, S, f) /\ Those(blocks, set) = f[S]
<1> DEFINE h == CHOOSE f : IterThose(blocks, set, S, f)
<1>1. IterThose(blocks, set, S, h)
  BY Zenon
<1>2. Those(blocks, set) = h[S]
  BY Zenon DEF Those, FoldLeft, MapThenFoldSet, IterThose
<1> QED
  BY <1>1, <1>2, Zenon

\* The blocks of a list are looked at one after the other.
ThoseRun(a, blocks, set, n) ==
    /\ a[0] = << >> /\ a[n] = Those(blocks, set)
    /\ \A i \in 1 .. n : a[i] = IF blocks[i] \in set THEN Append(a[i - 1], blocks[i]) ELSE a[i - 1]

LEMMA ThoseSteps ==
    ASSUME NEW blocks, NEW set, NEW n \in Nat, DOMAIN blocks = 1 .. n
    PROVE  \E a : ThoseRun(a, blocks, set, n)
<1> DEFINE S == 1 .. n
           args == <<blocks, set>>
           base == << >>
<1>1. ASSUME NEW f PROVE Fold("those", args, base, n, f) <=> IterThose(blocks, set, S, f)
  <2>1. \A p, i : FoldStep("those", args, p, i) = IF blocks[i] \in set THEN Append(p, blocks[i]) ELSE p
    BY DEF FoldStep
  <2>2. Fold("those", args, base, n, f) =>
            \A s \in SUBSET S : f[s] = IF s = {} THEN base ELSE FoldStep("those", args, f[s \ {Max(s)}], Max(s))
    BY Zenon DEF Fold
  <2>3. IterThose(blocks, set, S, f) =>
            \A s \in SUBSET S : f[s] = IF s = {} THEN base ELSE IF blocks[Max(s)] \in set THEN Append(f[s \ {Max(s)}], blocks[Max(s)]) ELSE f[s \ {Max(s)}]
    BY Zenon DEF IterThose
  <2>4. Fold("those", args, base, n, f) => f = [s \in SUBSET S |-> f[s]]
    BY DEF Fold
  <2>5. IterThose(blocks, set, S, f) => f = [s \in SUBSET S |-> f[s]]
    BY DEF IterThose
  <2> HIDE DEF args
  <2>6. \A s \in SUBSET S : FoldStep("those", args, f[s \ {Max(s)}], Max(s)) = IF blocks[Max(s)] \in set THEN Append(f[s \ {Max(s)}], blocks[Max(s)]) ELSE f[s \ {Max(s)}]
    BY <2>1, Zenon
  <2>7. ASSUME Fold("those", args, base, n, f) PROVE IterThose(blocks, set, S, f)
    <3>1. \A s \in SUBSET S : f[s] = IF s = {} THEN base ELSE IF blocks[Max(s)] \in set THEN Append(f[s \ {Max(s)}], blocks[Max(s)]) ELSE f[s \ {Max(s)}]
      BY <2>2, <2>6, <2>7, Zenon
    <3> QED
      BY <2>4, <2>7, <3>1, Zenon DEF IterThose
  <2>8. ASSUME IterThose(blocks, set, S, f) PROVE Fold("those", args, base, n, f)
    <3>1. \A s \in SUBSET S :
            f[s] = IF s = {} THEN base ELSE FoldStep("those", args, f[s \ {Max(s)}], Max(s))
      BY <2>3, <2>6, <2>8, Zenon
    <3> QED
      BY <2>5, <2>8, <3>1, Zenon DEF Fold
  <2> QED
    BY <2>7, <2>8
<1>2. \A p, i : FoldStep("those", args, p, i) = IF blocks[i] \in set THEN Append(p, blocks[i]) ELSE p
  BY DEF FoldStep
<1> HIDE DEF args, base
<1>3. PICK g : Fold("those", args, base, n, g)
  BY FoldExists
<1>4. IterThose(blocks, set, S, g)
  BY <1>1, <1>3
<1>5. PICK f : IterThose(blocks, set, S, f) /\ Those(blocks, set) = f[S]
  BY <1>4, ThoseFrom
<1>6. Fold("those", args, base, n, f)
  BY <1>1, <1>5
<1>7. PICK a : Stepwise(a, "those", args, base, n) /\ a[n] = f[1 .. n]
  BY <1>6, FoldStepwise
<1>8. a[0] = base /\ \A i \in 1 .. n : a[i] = FoldStep("those", args, a[i - 1], i)
  BY <1>7 DEF Stepwise
<1>9. \A i \in 1 .. n : a[i] = IF blocks[i] \in set THEN Append(a[i - 1], blocks[i]) ELSE a[i - 1]
  BY <1>2, <1>8, Zenon
<1> QED
  BY <1>5, <1>7, <1>8, <1>9, Zenon DEF base, ThoseRun

IterCache(p, text, blocks, from, to, S, f) ==
    f = [s \in SUBSET S |-> IF s = {} THEN p
            ELSE Insert(f[s \ {Max(s)}], Key(text, [k \in 1 .. Monus(to + 1, from) |-> from + k - 1][Max(s)]), blocks[[k \in 1 .. Monus(to + 1, from) |-> from + k - 1][Max(s)]])]

LEMMA CacheFrom ==
    ASSUME NEW p, NEW text, NEW blocks, NEW from, NEW to, NEW S, S = DOMAIN [k \in 1 .. Monus(to + 1, from) |-> from + k - 1], NEW g, IterCache(p, text, blocks, from, to, S, g)
    PROVE  \E f : IterCache(p, text, blocks, from, to, S, f) /\ CacheFullBlocks(p, text, blocks, from, to) = f[S]
<1> DEFINE h == CHOOSE f : IterCache(p, text, blocks, from, to, S, f)
<1>1. IterCache(p, text, blocks, from, to, S, h)
  BY Zenon
<1>2. CacheFullBlocks(p, text, blocks, from, to) = h[S]
  BY Zenon DEF CacheFullBlocks, FoldLeft, MapThenFoldSet, IterCache
<1> QED
  BY <1>1, <1>2, Zenon

\* The full blocks are registered one after the other.
CacheRun(a, p, text, blocks, from, to, n) ==
    /\ a[0] = p /\ a[n] = CacheFullBlocks(p, text, blocks, from, to)
    /\ \A i \in 1 .. n : a[i] = Insert(a[i - 1], Key(text, [k \in 1 .. Monus(to + 1, from) |-> from + k - 1][i]), blocks[[k \in 1 .. Monus(to + 1, from) |-> from + k - 1][i]])

LEMMA CacheSteps ==
    ASSUME NEW p, NEW text, NEW blocks, NEW from, NEW to, NEW n \in Nat, DOMAIN [k \in 1 .. Monus(to + 1, from) |-> from + k - 1] = 1 .. n
    PROVE  \E a : CacheRun(a, p, text, blocks, from, to, n)
<1> DEFINE S == 1 .. n
           args == <<text, blocks, [k \in 1 .. Monus(to + 1, from) |-> from + k - 1]>>
           base == p
<1>1. ASSUME NEW f PROVE Fold("cache", args, base, n, f) <=> IterCache(p, text, blocks, from, to, S, f)
  <2>1. \A q, i : FoldStep("cache", args, q, i) = Insert(q, Key(text, [k \in 1 .. Monus(to + 1, from) |-> from + k - 1][i]), blocks[[k \in 1 .. Monus(to + 1, from) |-> from + k - 1][i]])
    BY DEF FoldStep
  <2>2. Fold("cache", args, base, n, f) =>
            \A s \in SUBSET S : f[s] = IF s = {} THEN base ELSE FoldStep("cache", args, f[s \ {Max(s)}], Max(s))
    BY Zenon DEF Fold
  <2>3. IterCache(p, text, blocks, from, to, S, f) =>
            \A s \in SUBSET S : f[s] = IF s = {} THEN base ELSE Insert(f[s \ {Max(s)}], Key(text, [k \in 1 .. Monus(to + 1, from) |-> from + k - 1][Max(s)]), blocks[[k \in 1 .. Monus(to + 1, from) |-> from + k - 1][Max(s)]])
    BY Zenon DEF IterCache
  <2>4. Fold("cache", args, base, n, f) => f = [s \in SUBSET S |-> f[s]]
    BY DEF Fold
  <2>5. IterCache(p, text, blocks, from, to, S, f) => f = [s \in SUBSET S |-> f[s]]
    BY DEF IterCache
  <2> HIDE DEF args
  <2>6. \A s \in SUBSET S : FoldStep("cache", args, f[s \ {Max(s)}], Max(s)) = Insert(f[s \ {Max(s)}], Key(text, [k \in 1 .. Monus(to + 1, from) |-> from + k - 1][Max(s)]), blocks[[k \in 1 .. Monus(to + 1, from) |-> from + k - 1][Max(s)]])
    BY <2>1, Zenon
  <2>7. ASSUME Fold("cache", args, base, n, f) PROVE IterCache(p, text, blocks, from, to, S, f)
    <3>1. \A s \in SUBSET S : f[s] = IF s = {} THEN base ELSE Insert(f[s \ {Max(s)}], Key(text, [k \in 1 .. Monus(to + 1, from) |-> from + k - 1][Max(s)]), blocks[[k \in 1 .. Monus(to + 1, from) |-> from + k - 1][Max(s)]])
      BY <2>2, <2>6, <2>7, Zenon
    <3> QED
      BY <2>4, <2>7, <3>1, Zenon DEF IterCache
  <2>8. ASSUME IterCache(p, text, blocks, from, to, S, f) PROVE Fold("cache", args, base, n, f)
    <3>1. \A s \in SUBSET S :
            f[s] = IF s = {} THEN base ELSE FoldStep("cache", args, f[s \ {Max(s)}], Max(s))
      BY <2>3, <2>6, <2>8, Zenon
    <3> QED
      BY <2>5, <2>8, <3>1, Zenon DEF Fold
  <2> QED
    BY <2>7, <2>8
<1>2. \A q, i : FoldStep("cache", args, q, i) = Insert(q, Key(text, [k \in 1 .. Monus(to + 1, from) |-> from + k - 1][i]), blocks[[k \in 1 .. Monus(to + 1, from) |-> from + k - 1][i]])
  BY DEF FoldStep
<1> HIDE DEF args, base
<1>3. PICK g : Fold("cache", args, base, n, g)
  BY FoldExists
<1>4. IterCache(p, text, blocks, from, to, S, g)
  BY <1>1, <1>3
<1>5. PICK f : IterCache(p, text, blocks, from, to, S, f) /\ CacheFullBlocks(p, text, blocks, from, to) = f[S]
  BY <1>4, CacheFrom
<1>6. Fold("cache", args, base, n, f)
  BY <1>1, <1>5
<1>7. PICK a : Stepwise(a, "cache", args, base, n) /\ a[n] = f[1 .. n]
  BY <1>6, FoldStepwise
<1>8. a[0] = base /\ \A i \in 1 .. n : a[i] = FoldStep("cache", args, a[i - 1], i)
  BY <1>7 DEF Stepwise
<1>9. \A i \in 1 .. n : a[i] = Insert(a[i - 1], Key(text, [k \in 1 .. Monus(to + 1, from) |-> from + k - 1][i]), blocks[[k \in 1 .. Monus(to + 1, from) |-> from + k - 1][i]])
  BY <1>2, <1>8, Zenon
<1> QED
  BY <1>5, <1>7, <1>8, <1>9, Zenon DEF base, CacheRun

-----------------------------------------------------------------------------
(* The pool. *)

\* Blocks that are not registered come before those that are.
Sorted(hash, c, n) ==
    \A i, j \in 1 .. n : i < j /\ hash[c[i]] # NoHash => hash[c[j]] # NoHash

Shape(p) ==
    /\ p = [queue |-> p.queue, refs |-> p.refs, hash |-> p.hash, index |-> p.index]
    /\ p.refs \in [Block -> Nat]
    /\ p.hash = [b \in Block |-> p.hash[b]]

\* The blocks without references are the free list.
FreeRow(p, c, n) ==
    /\ Chain(p.queue, c, n)
    /\ Listed(c, n) = {b \in Block : p.refs[b] = 0}
    /\ Sorted(p.hash, c, n)

FreeList(p) == \E c, n : FreeRow(p, c, n)

\* What the index says is what the blocks say.
Indexed(p) ==
    /\ DOMAIN p.index = {p.hash[b] : b \in {x \in Block : Registered(p, x)}}
    /\ \A k \in DOMAIN p.index : p.index[k] = {b \in Block : p.hash[b] = k}

LEMMA SortedWithout ==
    ASSUME NEW hash, NEW c, NEW n \in Nat, Sorted(hash, c, n), NEW j \in 1 .. n,
           NEW d, d = Without(c, n, j)
    PROVE  Sorted(hash, d, n - 1)
<1>1. \A i \in 0 .. n : d[i] = IF i < j THEN c[i] ELSE c[i + 1]
  BY DEF Without
<1> SUFFICES ASSUME NEW i \in 1 .. n - 1, NEW k \in 1 .. n - 1, i < k, hash[d[i]] # NoHash
             PROVE  hash[d[k]] # NoHash
  BY DEF Sorted
<1> DEFINE x == IF i < j THEN i ELSE i + 1
           y == IF k < j THEN k ELSE k + 1
<1>2. x \in 1 .. n /\ y \in 1 .. n /\ x < y
  OBVIOUS
<1>3. d[i] = c[x] /\ d[k] = c[y]
  BY <1>1
<1> HIDE DEF x, y
<1> QED
  BY <1>2, <1>3 DEF Sorted

LEMMA SortedBeyond ==
    ASSUME NEW hash, NEW c, NEW n \in Nat, Sorted(hash, c, n), NEW k \in 0 .. n,
           NEW d, d = Beyond(c, n, k)
    PROVE  Sorted(hash, d, n - k)
<1>1. \A i \in 1 .. n - k : d[i] = c[i + k]
  BY DEF Beyond
<1> SUFFICES ASSUME NEW i \in 1 .. n - k, NEW j \in 1 .. n - k, i < j, hash[d[i]] # NoHash
             PROVE  hash[d[j]] # NoHash
  BY DEF Sorted
<1>2. i + k \in 1 .. n /\ j + k \in 1 .. n /\ i + k < j + k
  OBVIOUS
<1> QED
  BY <1>1, <1>2 DEF Sorted

LEMMA SortedHash ==
    ASSUME NEW hash, NEW other, NEW c, NEW n \in Nat, Sorted(hash, c, n),
           \A b \in Listed(c, n) : other[b] = hash[b]
    PROVE  Sorted(other, c, n)
<1>1. \A i \in 1 .. n : other[c[i]] = hash[c[i]]
  BY DEF Listed
<1> QED
  BY <1>1 DEF Sorted

LEMMA SortedPrepend ==
    ASSUME NEW hash, NEW c, NEW n \in Nat, Sorted(hash, c, n), NEW s \in Seq(Block),
           \A i \in 1 .. Len(s) : hash[s[i]] = NoHash, NEW d, d = Spliced(c, n, 0, s)
    PROVE  Sorted(hash, d, n + Len(s))
<1> DEFINE m == Len(s)
<1>1. Inserted(d, c, n, 0, s)
  BY SplicedParts
<1>2. /\ m \in Nat
      /\ \A i \in 1 .. m : d[0 + i] = s[i]
      /\ \A i \in 1 .. n + 1 : d[i + m] = c[i]
  BY <1>1 DEF Inserted
<1> HIDE DEF m
<1> SUFFICES ASSUME NEW i \in 1 .. n + m, NEW j \in 1 .. n + m, i < j, hash[d[i]] # NoHash
             PROVE  hash[d[j]] # NoHash
  BY DEF Sorted, m
<1>3. ~(i <= m)
  <2> SUFFICES ASSUME i <= m PROVE FALSE
    OBVIOUS
  <2>1. i \in 1 .. m /\ 0 + i = i
    BY <1>2
  <2> QED
    BY <1>2, <2>1 DEF m
<1>4. /\ i - m \in 1 .. n /\ i - m \in 1 .. n + 1 /\ (i - m) + m = i
      /\ j - m \in 1 .. n /\ j - m \in 1 .. n + 1 /\ (j - m) + m = j /\ i - m < j - m
  BY <1>2, <1>3
<1>5. d[i] = c[i - m] /\ d[j] = c[j - m]
  BY <1>2, <1>4
<1> QED
  BY <1>4, <1>5 DEF Sorted

LEMMA SortedAppend ==
    ASSUME NEW hash, NEW c, NEW n \in Nat, Sorted(hash, c, n), NEW s \in Seq(Block),
           \A i \in 1 .. Len(s) : hash[s[i]] # NoHash, NEW d, d = Spliced(c, n, n, s)
    PROVE  Sorted(hash, d, n + Len(s))
<1> DEFINE m == Len(s)
<1>1. Inserted(d, c, n, n, s)
  BY SplicedParts
<1>2. /\ m \in Nat
      /\ \A i \in 1 .. m : d[n + i] = s[i]
      /\ \A i \in 0 .. n : d[i] = c[i]
  BY <1>1 DEF Inserted
<1>3. \A i \in 1 .. m : hash[s[i]] # NoHash
  OBVIOUS
<1> HIDE DEF m
<1> SUFFICES ASSUME NEW i \in 1 .. n + m, NEW j \in 1 .. n + m, i < j, hash[d[i]] # NoHash
             PROVE  hash[d[j]] # NoHash
  BY DEF Sorted, m
<1>4. CASE j <= n
  <2>1. i \in 1 .. n /\ j \in 1 .. n /\ i \in 0 .. n /\ j \in 0 .. n
    BY <1>2, <1>4
  <2> QED
    BY <1>2, <2>1 DEF Sorted
<1>5. CASE ~(j <= n)
  <2>1. j - n \in 1 .. m /\ n + (j - n) = j
    BY <1>2, <1>5
  <2> QED
    BY <1>2, <1>3, <2>1
<1> QED
  BY <1>4, <1>5

\* The queue of q has the order of p for what is ahead and not in X and what is
\* behind and not in Y.
Keeps(p, q, X, Y) ==
    \A x, y : Ahead(p.queue, x, y) /\ x \notin X /\ y \notin Y => Ahead(q.queue, x, y)

LEMMA KeepsThrough ==
    ASSUME NEW p, NEW u, NEW q, NEW X, NEW Y, NEW V, NEW W, Keeps(p, u, X, Y), Keeps(u, q, V, W)
    PROVE  Keeps(p, q, X \cup V, Y \cup W)
  BY DEF Keeps

\* q is p after the blocks of B have been given one reference more.
Touched(p, q, B) ==
    /\ Shape(q) /\ FreeList(q) /\ Keeps(p, q, B, B)
    /\ q.hash = p.hash /\ q.index = p.index
    /\ \A b \in Block : q.refs[b] = IF b \in B THEN p.refs[b] + 1 ELSE p.refs[b]

LEMMA TouchOneStep ==
    ASSUME NEW p, Shape(p), FreeList(p), NEW b \in Block, NEW q, q = TouchOne(p, b)
    PROVE  Touched(p, q, {b})
<1> DEFINE queue == IF p.refs[b] = 0 THEN RemoveBlock(p.queue, b) ELSE p.queue
           refs  == [p.refs EXCEPT ![b] = p.refs[b] + 1]
<1>1. /\ p = [queue |-> p.queue, refs |-> p.refs, hash |-> p.hash, index |-> p.index]
      /\ p.refs \in [Block -> Nat] /\ p.hash = [x \in Block |-> p.hash[x]]
  BY DEF Shape
<1>2. q = [p EXCEPT !.queue = queue, !.refs = refs]
  BY DEF TouchOne
<1> HIDE DEF queue, refs
<1>3. q.queue = queue /\ q.refs = refs /\ q.hash = p.hash /\ q.index = p.index
      /\ q = [queue |-> q.queue, refs |-> q.refs, hash |-> q.hash, index |-> q.index]
  BY <1>1, <1>2
<1>4. /\ refs \in [Block -> Nat]
      /\ \A x \in Block : refs[x] = IF x = b THEN p.refs[x] + 1 ELSE p.refs[x]
  BY <1>1 DEF refs
<1>5. Shape(q)
  BY <1>1, <1>3, <1>4 DEF Shape
<1>6. PICK c, n : FreeRow(p, c, n)
  BY DEF FreeList
<1>7. /\ Chain(p.queue, c, n) /\ Listed(c, n) = {x \in Block : p.refs[x] = 0}
      /\ Sorted(p.hash, c, n) /\ n \in Nat
  BY <1>6 DEF FreeRow, Chain, Row
<1>8. FreeList(q)
  <2>1. CASE p.refs[b] = 0
    <3>1. b \in Listed(c, n)
      BY <1>7, <2>1
    <3>2. PICK j \in 1 .. n : b = c[j]
      BY <3>1 DEF Listed
    <3> DEFINE d == Without(c, n, j)
    <3>3. Chain(RemoveBlock(p.queue, b), d, n - 1) /\ Listed(d, n - 1) = Listed(c, n) \ {b}
      BY <1>7, <3>2, RemoveChain
    <3>4. Sorted(p.hash, d, n - 1)
      BY <1>7, SortedWithout
    <3>5. queue = RemoveBlock(p.queue, b)
      BY <2>1 DEF queue
    <3> HIDE DEF d
    <3>6. Listed(d, n - 1) = {x \in Block : refs[x] = 0}
      BY <1>1, <1>4, <1>7, <3>3
    <3>7. FreeRow(q, d, n - 1)
      BY <1>3, <3>3, <3>4, <3>5, <3>6 DEF FreeRow
    <3> QED
      BY <3>7 DEF FreeList
  <2>2. CASE p.refs[b] # 0
    <3>1. queue = p.queue
      BY <2>2 DEF queue
    <3>2. {x \in Block : refs[x] = 0} = {x \in Block : p.refs[x] = 0}
      BY <1>1, <1>4, <2>2
    <3>3. FreeRow(q, c, n)
      BY <1>3, <1>7, <3>1, <3>2 DEF FreeRow
    <3> QED
      BY <3>3 DEF FreeList
  <2> QED
    BY <2>1, <2>2
<1>9. Keeps(p, q, {b}, {b})
  <2> SUFFICES ASSUME NEW x, NEW y, Ahead(p.queue, x, y), x # b, y # b PROVE Ahead(queue, x, y)
    BY <1>3 DEF Keeps
  <2>1. CASE p.refs[b] = 0
    <3>1. PICK j \in 1 .. n : b = c[j]
      BY <1>7, <2>1 DEF Listed
    <3>2. queue = RemoveBlock(p.queue, c[j])
      BY <2>1, <3>1 DEF queue
    <3> QED
      BY <1>7, <3>1, <3>2, AheadRemove
  <2>2. CASE p.refs[b] # 0
    BY <2>2 DEF queue
  <2> QED
    BY <2>1, <2>2
<1> QED
  BY <1>3, <1>4, <1>5, <1>8, <1>9 DEF Touched

LEMMA TouchAll ==
    ASSUME NEW p, Shape(p), FreeList(p), NEW blocks \in Seq(Block), Distinct(blocks)
    PROVE  Touched(p, Touch(p, blocks), ToSet(blocks)) /\ Touchable(p, blocks)
<1> DEFINE n == Len(blocks)
           B(i) == {blocks[j] : j \in 1 .. i}
<1>1. n \in Nat /\ DOMAIN blocks = 1 .. n /\ \A i \in 1 .. n : blocks[i] \in Block
  OBVIOUS
<1>2. \A i, j \in 1 .. n : blocks[i] = blocks[j] => i = j
  BY DEF Distinct
<1> HIDE DEF n
<1>3. PICK a : /\ a[0] = p /\ a[n] = Touch(p, blocks)
               /\ \A i \in 1 .. n : a[i] = TouchOne(a[i - 1], blocks[i])
  <2>1. n \in Nat /\ DOMAIN blocks = 1 .. n
    BY <1>1
  <2>2. PICK a : TouchRun(a, p, blocks, n)
    BY <2>1, TouchSteps
  <2> QED
    BY <2>2 DEF TouchRun
<1> DEFINE T == {i \in Nat : Touched(p, a[i], B(i))}
<1>4. 0 \in T
  <2>1. B(0) = {}
    OBVIOUS
  <2> QED
    <3>1. Keeps(p, p, {}, {})
      BY DEF Keeps
    <3>2. Touched(p, p, {})
      BY <3>1 DEF Touched
    <3> HIDE DEF B
    <3> QED
      BY <1>3, <2>1, <3>2
<1>5. ASSUME NEW i \in 0 .. n - 1, i \in T PROVE i + 1 \in T
  <2>1. i + 1 \in 1 .. n /\ (i + 1) - 1 = i /\ i \in Nat /\ i + 1 \in Nat
    BY <1>1
  <2> DEFINE b == blocks[i + 1]
             q == a[i + 1]
             u == a[i]
  <2>2. b \in Block /\ q = TouchOne(u, b)
    BY <1>1, <1>3, <2>1
  <2>3. Touched(p, u, B(i))
    BY <1>5
  <2>4. B(i + 1) = B(i) \cup {b}
    <3>1. \A j \in 1 .. i + 1 : j \in 1 .. i \/ j = i + 1
      BY <2>1
    <3>2. \A j \in 1 .. i : j \in 1 .. i + 1
      BY <2>1
    <3>3. i + 1 \in 1 .. i + 1
      BY <2>1
    <3> QED
      BY <3>1, <3>2, <3>3
  <2>5. b \notin B(i)
    <3>1. \A j \in 1 .. i : j \in 1 .. n /\ j # i + 1
      BY <1>1, <2>1
    <3> QED
      BY <1>2, <2>1, <3>1
  <2> HIDE DEF b, q, u, B
  <2>6. Shape(u) /\ FreeList(u)
    BY <2>3 DEF Touched
  <2>7. Touched(u, q, {b})
    BY <2>2, <2>6, TouchOneStep
  <2>8. \A x \in Block : q.refs[x] = IF x \in B(i + 1) THEN p.refs[x] + 1 ELSE p.refs[x]
    BY <2>3, <2>4, <2>5, <2>7 DEF Touched
  <2>9. Keeps(p, q, B(i + 1), B(i + 1))
    <3>1. Keeps(p, u, B(i), B(i)) /\ Keeps(u, q, {b}, {b})
      BY <2>3, <2>7 DEF Touched
    <3> QED
      BY <2>4, <3>1, KeepsThrough
  <2>10. Touched(p, q, B(i + 1))
    BY <2>3, <2>7, <2>8, <2>9 DEF Touched
  <2> QED
    BY <2>1, <2>10 DEF q
<1> HIDE DEF T
<1>6. n \in T
  <2>1. n \in 0 .. n
    BY <1>1
  <2> QED
    BY <1>1, <1>4, <1>5, <2>1, BoundedInduction
<1>7. B(n) = ToSet(blocks)
  BY <1>1 DEF ToSet
<1>8. Touchable(p, blocks)
  <2>1. PICK c, k : FreeRow(p, c, k)
    BY DEF FreeList
  <2>2. ASSUME NEW b \in Block, p.refs[b] = 0 PROVE Removable(p.queue, b)
    <3>1. b \in Listed(c, k) /\ Chain(p.queue, c, k)
      BY <2>1, <2>2 DEF FreeRow
    <3> QED
      BY <3>1, ListedRemovable
  <2> QED
    BY <1>1, <2>2 DEF Touchable
<1> QED
  BY <1>3, <1>6, <1>7, <1>8 DEF T

\* With a sound index a hash leads to the blocks that carry it.
LEMMA CachedAre ==
    ASSUME NEW p, Indexed(p), NEW k, k # NoHash
    PROVE  CachedBlocks(p, k) = {b \in Block : p.hash[b] = k}
<1>1. CASE k \in DOMAIN p.index
  BY <1>1 DEF CachedBlocks, Indexed
<1>2. CASE k \notin DOMAIN p.index
  BY <1>2 DEF CachedBlocks, Indexed, Registered
<1> QED
  BY <1>1, <1>2

LEMMA EvictStep ==
    ASSUME NEW p, Shape(p), Indexed(p), NEW b \in Block, NEW q, q = Evict(p, b)
    PROVE  /\ Shape(q) /\ Indexed(q) /\ q.queue = p.queue /\ q.refs = p.refs
           /\ \A x \in Block : q.hash[x] = IF x = b THEN NoHash ELSE p.hash[x]
<1>1. /\ p = [queue |-> p.queue, refs |-> p.refs, hash |-> p.hash, index |-> p.index]
      /\ p.refs \in [Block -> Nat] /\ p.hash = [x \in Block |-> p.hash[x]]
  BY DEF Shape
<1>2. CASE ~Registered(p, b)
  <2>1. q = p
    BY <1>2 DEF Evict
  <2>2. p.hash[b] = NoHash
    BY <1>2 DEF Registered
  <2> QED
    BY <2>1, <2>2
<1>3. CASE Registered(p, b)
  <2> DEFINE h == p.hash[b]
             rest == CachedBlocks(p, h) \ {b}
             hash == [p.hash EXCEPT ![b] = NoHash]
             index == IF rest = {} THEN Restrict(p.index, DOMAIN p.index \ {h})
                      ELSE [p.index EXCEPT ![h] = rest]
  <2>1. q = [p EXCEPT !.hash = hash, !.index = index]
    BY <1>3 DEF Evict
  <2>2. h # NoHash
    BY <1>3 DEF Registered
  <2>3. rest = {x \in Block : x # b /\ p.hash[x] = h}
    BY <2>2, CachedAre
  <2>4. hash = [x \in Block |-> hash[x]] /\ \A x \in Block : hash[x] = IF x = b THEN NoHash ELSE p.hash[x]
    BY <1>1
  <2>5. DOMAIN index = IF rest = {} THEN DOMAIN p.index \ {h} ELSE DOMAIN p.index
    BY DEF Restrict
  <2>6. \A k \in DOMAIN index : index[k] = IF k = h THEN rest ELSE p.index[k]
    BY DEF Restrict
  <2> HIDE DEF h, rest, hash, index
  <2>7. /\ q.queue = p.queue /\ q.refs = p.refs /\ q.hash = hash /\ q.index = index
        /\ q = [queue |-> q.queue, refs |-> q.refs, hash |-> q.hash, index |-> q.index]
    BY <1>1, <2>1
  <2>8. Shape(q)
    BY <1>1, <2>4, <2>7 DEF Shape
  <2>9. DOMAIN p.index = {p.hash[x] : x \in {y \in Block : p.hash[y] # NoHash}}
        /\ \A k \in DOMAIN p.index : p.index[k] = {x \in Block : p.hash[x] = k}
    BY DEF Indexed, Registered
  <2>10. DOMAIN index \subseteq DOMAIN p.index /\ NoHash \notin DOMAIN p.index /\ h \in DOMAIN p.index
    BY <2>2, <2>5, <2>9 DEF h
  <2>11. DOMAIN index = {hash[x] : x \in {y \in Block : hash[y] # NoHash}}
    <3>1. ASSUME NEW k \in DOMAIN index
          PROVE  \E x \in Block : hash[x] # NoHash /\ hash[x] = k
      <4>1. k \in DOMAIN p.index /\ k # NoHash
        BY <2>10
      <4>2. CASE k # h
        <5>1. PICK x \in Block : p.hash[x] = k
          BY <2>9, <4>1
        <5>2. x # b
          BY <4>2, <5>1 DEF h
        <5> QED
          BY <2>4, <4>1, <5>1, <5>2
      <4>3. CASE k = h
        <5>1. rest # {}
          BY <2>5, <4>3
        <5>2. PICK x \in Block : x # b /\ p.hash[x] = h
          BY <2>3, <5>1
        <5> QED
          BY <2>4, <4>1, <4>3, <5>2
      <4> QED
        BY <4>2, <4>3
    <3>2. ASSUME NEW x \in Block, hash[x] # NoHash PROVE hash[x] \in DOMAIN index
      <4>1. x # b /\ hash[x] = p.hash[x] /\ p.hash[x] \in DOMAIN p.index
        BY <2>4, <2>9, <3>2
      <4>2. hash[x] = h => rest # {}
        BY <2>3, <4>1
      <4> QED
        BY <2>5, <4>1, <4>2
    <3> QED
      BY <3>1, <3>2
  <2>12. ASSUME NEW k \in DOMAIN index PROVE index[k] = {x \in Block : hash[x] = k}
    <3>1. k \in DOMAIN p.index /\ k # NoHash
      BY <2>10
    <3>2. CASE k = h
      <4>1. index[k] = rest
        BY <2>6, <3>2
      <4>2. {x \in Block : hash[x] = h} = {x \in Block : x # b /\ p.hash[x] = h}
        BY <2>2, <2>4
      <4> QED
        BY <2>3, <3>2, <4>1, <4>2
    <3>3. CASE k # h
      <4>1. index[k] = {x \in Block : p.hash[x] = k}
        BY <2>6, <2>9, <3>1, <3>3
      <4>2. \A x \in Block : hash[x] = k <=> p.hash[x] = k
        BY <2>4, <3>1, <3>3 DEF h
      <4> QED
        BY <4>1, <4>2
    <3> QED
      BY <3>2, <3>3
  <2>13. Indexed(q)
    BY <2>7, <2>11, <2>12 DEF Indexed, Registered
  <2> QED
    BY <2>4, <2>7, <2>8, <2>13
<1> QED
  BY <1>2, <1>3

\* q is p after the blocks of B have been handed out and lost their hashes.
Given(p, q, B) ==
    /\ \A b \in Block : q.refs[b] = IF b \in B THEN p.refs[b] + 1 ELSE p.refs[b]
    /\ \A b \in Block : q.hash[b] = IF b \in B THEN NoHash ELSE p.hash[b]

Taken(p, q, B) == Shape(q) /\ Indexed(q) /\ q.queue = p.queue /\ Given(p, q, B)

LEMMA TakeOneStep ==
    ASSUME NEW p, Shape(p), Indexed(p), NEW b \in Block, NEW q, q = TakeOne(p, b)
    PROVE  Taken(p, q, {b})
<1> DEFINE u == Evict(p, b)
           refs == [u.refs EXCEPT ![b] = u.refs[b] + 1]
<1>1. /\ Shape(u) /\ Indexed(u) /\ u.queue = p.queue /\ u.refs = p.refs
      /\ \A x \in Block : u.hash[x] = IF x = b THEN NoHash ELSE p.hash[x]
  BY EvictStep
<1>2. q = [u EXCEPT !.refs = refs]
  BY DEF TakeOne
<1> HIDE DEF u
<1>3. /\ u = [queue |-> u.queue, refs |-> u.refs, hash |-> u.hash, index |-> u.index]
      /\ u.refs \in [Block -> Nat] /\ u.hash = [x \in Block |-> u.hash[x]]
  BY <1>1 DEF Shape
<1>4. /\ refs \in [Block -> Nat]
      /\ \A x \in Block : refs[x] = IF x = b THEN u.refs[x] + 1 ELSE u.refs[x]
  BY <1>3
<1> HIDE DEF refs
<1>5. /\ q.queue = u.queue /\ q.refs = refs /\ q.hash = u.hash /\ q.index = u.index
      /\ q = [queue |-> q.queue, refs |-> q.refs, hash |-> q.hash, index |-> q.index]
  BY <1>2, <1>3
<1>6. Shape(q)
  BY <1>3, <1>4, <1>5 DEF Shape
<1>7. Indexed(q)
  BY <1>1, <1>5 DEF Indexed, Registered
<1> QED
  BY <1>1, <1>4, <1>5, <1>6, <1>7 DEF Taken, Given

LEMMA TakeAll ==
    ASSUME NEW p, NEW k \in Nat, NEW new, new = NewBlocks(p, k), DOMAIN new = 1 .. k,
           \A i \in 1 .. k : new[i] \in Block, \A i, j \in 1 .. k : new[i] = new[j] => i = j,
           NEW u, u = [p EXCEPT !.queue = PopLeftN(@, k)], Shape(u), Indexed(u)
    PROVE  Taken(u, GetNewBlocks(p, k), {new[i] : i \in 1 .. k})
<1> DEFINE B(i) == {new[j] : j \in 1 .. i}
<1>1. PICK a : /\ a[0] = u /\ a[k] = GetNewBlocks(p, k)
               /\ \A i \in 1 .. k : a[i] = TakeOne(a[i - 1], new[i])
  <2>1. DOMAIN NewBlocks(p, k) = 1 .. k
    OBVIOUS
  <2>2. PICK a : TakeRun(a, p, k, k)
    BY <2>1, TakeSteps
  <2> QED
    BY <2>2, Zenon DEF TakeRun
<1> DEFINE T == {i \in Nat : Taken(u, a[i], B(i))}
<1>2. 0 \in T
  <2>1. B(0) = {}
    OBVIOUS
  <2>2. Taken(u, u, {})
    BY DEF Taken, Given
  <2> HIDE DEF B
  <2> QED
    BY <1>1, <2>1, <2>2
<1>3. ASSUME NEW i \in 0 .. k - 1, i \in T PROVE i + 1 \in T
  <2>1. i + 1 \in 1 .. k /\ (i + 1) - 1 = i /\ i \in Nat /\ i + 1 \in Nat
    OBVIOUS
  <2> DEFINE b == new[i + 1]
             q == a[i + 1]
             v == a[i]
  <2>2. b \in Block /\ q = TakeOne(v, b)
    BY <1>1, <2>1
  <2>3. Taken(u, v, B(i))
    BY <1>3
  <2>4. B(i + 1) = B(i) \cup {b}
    <3>1. \A j \in 1 .. i + 1 : j \in 1 .. i \/ j = i + 1
      BY <2>1
    <3>2. \A j \in 1 .. i : j \in 1 .. i + 1
      BY <2>1
    <3>3. i + 1 \in 1 .. i + 1
      BY <2>1
    <3> QED
      BY <3>1, <3>2, <3>3
  <2>5. b \notin B(i)
    <3>1. \A j \in 1 .. i : j \in 1 .. k /\ j # i + 1
      BY <2>1
    <3> QED
      BY <2>1, <3>1
  <2> HIDE DEF b, q, v, B
  <2>6. Shape(v) /\ Indexed(v)
    BY <2>3 DEF Taken
  <2>7. Taken(v, q, {b})
    BY <2>2, <2>6, TakeOneStep
  <2>8. \A x \in Block : q.refs[x] = IF x \in B(i + 1) THEN u.refs[x] + 1 ELSE u.refs[x]
    BY <2>3, <2>4, <2>5, <2>7 DEF Taken, Given
  <2>9. \A x \in Block : q.hash[x] = IF x \in B(i + 1) THEN NoHash ELSE u.hash[x]
    BY <2>3, <2>4, <2>5, <2>7 DEF Taken, Given
  <2>10. Taken(u, q, B(i + 1))
    BY <2>3, <2>7, <2>8, <2>9 DEF Taken, Given
  <2> QED
    BY <2>1, <2>10 DEF q
<1> HIDE DEF T
<1>4. k \in T
  <2>1. k \in 0 .. k
    OBVIOUS
  <2> QED
    BY <1>2, <1>3, <2>1, BoundedInduction
<1> QED
  BY <1>1, <1>4 DEF T

\* get_new_blocks, as long as it does not ask for too many: the first blocks of
\* the list, each once, are no longer free and no longer registered.
Fresh(p, new, k) ==
    /\ new \in Seq(Block) /\ Len(new) = k /\ Distinct(new)
    /\ \A b \in ToSet(new) : p.refs[b] = 0

LEMMA GetNew ==
    ASSUME NEW p, Shape(p), FreeList(p), Indexed(p), NEW k \in Nat, k <= p.queue.num,
           NEW new, new = NewBlocks(p, k), NEW q, q = GetNewBlocks(p, k)
    PROVE  /\ Fresh(p, new, k)
           /\ Shape(q) /\ FreeList(q) /\ Indexed(q) /\ Given(p, q, ToSet(new))
           /\ Keeps(p, q, ToSet(new), {})
<1>1. PICK c, n : FreeRow(p, c, n)
  BY DEF FreeList
<1>2. /\ Chain(p.queue, c, n) /\ Listed(c, n) = {b \in Block : p.refs[b] = 0}
      /\ Sorted(p.hash, c, n) /\ n \in Nat /\ p.queue.num = n
      /\ \A i \in 1 .. n : c[i] \in Block
      /\ \A i, j \in 1 .. n : c[i] = c[j] => i = j
  BY <1>1 DEF FreeRow, Chain, Row
<1>3. k \in 0 .. n /\ k \in 0 .. n + 1
  BY <1>2
<1>4. new = [i \in 1 .. k |-> c[i]]
  BY <1>2, <1>3, ChainSound DEF NewBlocks
<1>5. /\ new \in Seq(Block) /\ Len(new) = k /\ DOMAIN new = 1 .. k
      /\ \A i \in 1 .. k : new[i] = c[i] /\ i \in 1 .. n
  <2>1. \A i \in 1 .. k : c[i] \in Block /\ i \in 1 .. n
    BY <1>2, <1>3
  <2>2. new \in [1 .. k -> Block]
    BY <1>4, <2>1
  <2>3. new \in Seq(Block)
    BY <2>2
  <2>4. DOMAIN new = 1 .. k /\ \A i \in 1 .. k : new[i] = c[i]
    BY <1>4
  <2>5. Len(new) = k
    BY <2>3, <2>4
  <2> QED
    BY <2>1, <2>3, <2>4, <2>5
<1>6. \A i, j \in 1 .. k : new[i] = new[j] => i = j
  BY <1>2, <1>5
<1>7. ToSet(new) = {new[i] : i \in 1 .. k} /\ ToSet(new) = {c[i] : i \in 1 .. k}
  BY <1>5 DEF ToSet
<1>8. Fresh(p, new, k)
  <2>1. \A b \in ToSet(new) : b \in Listed(c, n)
    BY <1>5, <1>7 DEF Listed
  <2> QED
    BY <1>2, <1>5, <1>6, <2>1 DEF Fresh, Distinct
<1> DEFINE u == [p EXCEPT !.queue = PopLeftN(@, k)]
           d == Beyond(c, n, k)
<1>9. /\ p = [queue |-> p.queue, refs |-> p.refs, hash |-> p.hash, index |-> p.index]
      /\ p.refs \in [Block -> Nat] /\ p.hash = [x \in Block |-> p.hash[x]]
  BY DEF Shape
<1>10. /\ u.queue = PopLeftN(p.queue, k) /\ u.refs = p.refs /\ u.hash = p.hash /\ u.index = p.index
       /\ u = [queue |-> u.queue, refs |-> u.refs, hash |-> u.hash, index |-> u.index]
  BY <1>9
<1>11. u = [p EXCEPT !.queue = PopLeftN(@, k)]
  OBVIOUS
<1> HIDE DEF u
<1>12. Shape(u) /\ Indexed(u)
  <2>1. Shape(u)
    BY <1>9, <1>10 DEF Shape
  <2>2. Indexed(u)
    <3>1. u.hash = p.hash /\ u.index = p.index
      BY <1>10
    <3> QED
      BY <3>1 DEF Indexed, Registered
  <2> QED
    BY <2>1, <2>2
<1>13. Taken(u, q, ToSet(new))
  <2>1. \A i \in 1 .. k : new[i] \in Block
    BY <1>2, <1>5
  <2> QED
    BY <1>5, <1>6, <1>7, <1>11, <1>12, <2>1, TakeAll
<1>14. Shape(q) /\ Indexed(q) /\ q.queue = u.queue /\ Given(p, q, ToSet(new))
  BY <1>10, <1>13 DEF Taken, Given
<1>15. FreeList(q)
  <2>1. /\ Chain(PopLeftN(p.queue, k), d, n - k)
        /\ Listed(d, n - k) = Listed(c, n) \ {c[i] : i \in 1 .. k}
    BY <1>2, <1>3, PopChain
  <2>2. Sorted(p.hash, d, n - k)
    BY <1>2, <1>3, SortedBeyond
  <2> HIDE DEF d
  <2>3. Listed(d, n - k) = {b \in Block : q.refs[b] = 0}
    <3>1. \A b \in Block : p.refs[b] \in Nat
      BY <1>9
    <3>2. \A b \in Block : q.refs[b] = 0 <=> p.refs[b] = 0 /\ b \notin ToSet(new)
      BY <1>14, <3>1 DEF Given
    <3>3. Listed(d, n - k) = Listed(c, n) \ ToSet(new)
      BY <1>7, <2>1
    <3> QED
      BY <1>2, <3>2, <3>3
  <2>4. \A b \in Listed(d, n - k) : q.hash[b] = p.hash[b]
    BY <1>2, <1>7, <1>14, <2>1 DEF Given
  <2>5. Sorted(q.hash, d, n - k)
    <3>1. n - k \in Nat
      BY <1>2, <1>3
    <3> QED
      BY <2>2, <2>4, <3>1, SortedHash
  <2>6. FreeRow(q, d, n - k)
    BY <1>10, <1>14, <2>1, <2>3, <2>5 DEF FreeRow
  <2> QED
    BY <2>6 DEF FreeList
<1>16. Keeps(p, q, ToSet(new), {})
  <2> SUFFICES ASSUME NEW x, NEW y, Ahead(p.queue, x, y), x \notin ToSet(new)
               PROVE  Ahead(q.queue, x, y)
    BY DEF Keeps
  <2>1. x \notin {c[i] : i \in 1 .. k} /\ Chain(p.queue, c, n)
    BY <1>2, <1>7
  <2>2. Ahead(PopLeftN(p.queue, k), x, y)
    BY <1>3, <2>1, AheadPop
  <2> QED
    BY <1>10, <1>14, <2>2
<1> QED
  BY <1>8, <1>14, <1>15, <1>16

LEMMA KeyNotEmpty ==
    ASSUME NEW text, NEW i \in Nat \ {0}
    PROVE  Key(text, i) # NoHash
<1>1. Key(text, i) = SubSeq(text, 1, i)
  BY DEF Key
<1>2. DOMAIN SubSeq(text, 1, i) = 1 .. i
  OBVIOUS
<1>3. 1 \in 1 .. i /\ 1 \notin DOMAIN << >>
  OBVIOUS
<1> QED
  BY <1>1, <1>2, <1>3 DEF NoHash

LEMMA InsertStep ==
    ASSUME NEW p, Shape(p), Indexed(p), NEW b \in Block, ~Registered(p, b),
           NEW key, key # NoHash, NEW q, q = Insert(p, key, b)
    PROVE  /\ Shape(q) /\ Indexed(q) /\ q.queue = p.queue /\ q.refs = p.refs
           /\ \A x \in Block : q.hash[x] = IF x = b THEN key ELSE p.hash[x]
<1> DEFINE hash == [p.hash EXCEPT ![b] = key]
           index == [k \in DOMAIN p.index \cup {key} |->
                        CachedBlocks(p, k) \cup (IF k = key THEN {b} ELSE {})]
<1>1. /\ p = [queue |-> p.queue, refs |-> p.refs, hash |-> p.hash, index |-> p.index]
      /\ p.refs \in [Block -> Nat] /\ p.hash = [x \in Block |-> p.hash[x]]
  BY DEF Shape
<1>2. p.hash[b] = NoHash
  BY DEF Registered
<1>3. CachedBlocks(p, key) = {x \in Block : p.hash[x] = key}
  BY CachedAre
<1>4. q = [p EXCEPT !.hash = hash, !.index = index]
  BY <1>2, <1>3 DEF Insert
<1>5. hash = [x \in Block |-> hash[x]] /\ \A x \in Block : hash[x] = IF x = b THEN key ELSE p.hash[x]
  BY <1>1
<1>6. DOMAIN index = DOMAIN p.index \cup {key}
  OBVIOUS
<1>7. \A k \in DOMAIN index : index[k] = CachedBlocks(p, k) \cup (IF k = key THEN {b} ELSE {})
  OBVIOUS
<1> HIDE DEF hash, index
<1>8. /\ q.queue = p.queue /\ q.refs = p.refs /\ q.hash = hash /\ q.index = index
      /\ q = [queue |-> q.queue, refs |-> q.refs, hash |-> q.hash, index |-> q.index]
  BY <1>1, <1>4
<1>9. Shape(q)
  BY <1>1, <1>5, <1>8 DEF Shape
<1>10. DOMAIN p.index = {p.hash[x] : x \in {y \in Block : p.hash[y] # NoHash}}
  BY DEF Indexed, Registered
<1>11. DOMAIN index = {hash[x] : x \in {y \in Block : hash[y] # NoHash}}
  <2>1. ASSUME NEW k \in DOMAIN index
        PROVE  \E x \in Block : hash[x] # NoHash /\ hash[x] = k
    <3>1. CASE k = key
      BY <1>5, <3>1
    <3>2. CASE k # key
      <4>1. PICK x \in Block : p.hash[x] # NoHash /\ p.hash[x] = k
        BY <1>6, <1>10, <3>2
      <4> QED
        BY <1>2, <1>5, <4>1
    <3> QED
      BY <3>1, <3>2
  <2>2. ASSUME NEW x \in Block, hash[x] # NoHash PROVE hash[x] \in DOMAIN index
    BY <1>5, <1>6, <1>10, <2>2
  <2> QED
    BY <2>1, <2>2
<1>12. ASSUME NEW k \in DOMAIN index PROVE index[k] = {x \in Block : hash[x] = k}
  <2>1. k # NoHash
    BY <1>6, <1>10
  <2>2. CachedBlocks(p, k) = {x \in Block : p.hash[x] = k}
    BY <2>1, CachedAre
  <2>3. index[k] = {x \in Block : p.hash[x] = k} \cup (IF k = key THEN {b} ELSE {})
    BY <1>7, <2>2
  <2>4. \A x \in Block : hash[x] = k <=> p.hash[x] = k \/ (k = key /\ x = b)
    BY <1>2, <1>5, <2>1
  <2> QED
    BY <2>3, <2>4
<1>13. Indexed(q)
  BY <1>8, <1>11, <1>12 DEF Indexed, Registered
<1> QED
  BY <1>5, <1>8, <1>9, <1>13

\* q is p after the blocks from..to of a table have been registered.
Sealed(p, q, text, blocks, from, to) ==
    /\ Shape(q) /\ Indexed(q) /\ q.queue = p.queue /\ q.refs = p.refs
    /\ \A i \in from .. to : q.hash[blocks[i]] = Key(text, i)
    /\ \A x \in Block : (\A i \in from .. to : blocks[i] # x) => q.hash[x] = p.hash[x]

LEMMA CacheAll ==
    ASSUME NEW p, Shape(p), Indexed(p), NEW text, NEW blocks,
           NEW from \in Nat \ {0}, NEW to \in Nat,
           \A i \in from .. to : blocks[i] \in Block /\ ~Registered(p, blocks[i]),
           \A i, j \in from .. to : blocks[i] = blocks[j] => i = j
    PROVE  Sealed(p, CacheFullBlocks(p, text, blocks, from, to), text, blocks, from, to)
<1> DEFINE n == Monus(to + 1, from)
           seq == [k \in 1 .. n |-> from + k - 1]
<1>1. n \in Nat /\ (n > 0 => from + n - 1 = to) /\ (n = 0 => to < from)
  BY DEF Monus
<1>2. PICK a : /\ a[0] = p /\ a[n] = CacheFullBlocks(p, text, blocks, from, to)
               /\ \A i \in 1 .. n : a[i] = Insert(a[i - 1], Key(text, seq[i]), blocks[seq[i]])
  <2>1. DOMAIN seq = 1 .. n
    OBVIOUS
  <2>2. PICK a : CacheRun(a, p, text, blocks, from, to, n)
    BY <1>1, <2>1, CacheSteps
  <2> QED
    BY <2>2, Zenon DEF CacheRun
<1> HIDE DEF n
<1> DEFINE T == {i \in Nat : Sealed(p, a[i], text, blocks, from, from + i - 1)}
<1>3. 0 \in T
  <2>1. from .. from + 0 - 1 = {}
    OBVIOUS
  <2>2. Sealed(p, p, text, blocks, from, from + 0 - 1)
    BY <2>1 DEF Sealed
  <2> HIDE DEF seq
  <2> QED
    BY <1>2, <2>2
<1>4. ASSUME NEW i \in 0 .. n - 1, i \in T PROVE i + 1 \in T
  <2> DEFINE j == from + i
             q == a[i + 1]
             u == a[i]
             b == blocks[j]
  <2>1. /\ i + 1 \in 1 .. n /\ (i + 1) - 1 = i /\ i \in Nat /\ i + 1 \in Nat
        /\ j \in from .. to /\ j \in Nat \ {0} /\ seq[i + 1] = j
        /\ from + (i + 1) - 1 = j /\ from + i - 1 = j - 1
    BY <1>1
  <2>2. q = Insert(u, Key(text, j), b) /\ b \in Block
    BY <1>2, <2>1
  <2>3. Sealed(p, u, text, blocks, from, j - 1)
    BY <1>4, <2>1
  <2> HIDE DEF q, u, j, seq, T, n
  <2>4. \A k \in from .. j - 1 : k \in from .. to /\ k # j /\ k \in from .. j
    BY <2>1
  <2>5. \A k \in from .. j - 1 : blocks[k] # b
    BY <2>1, <2>4
  <2>6. ~Registered(u, b) /\ Shape(u) /\ Indexed(u)
    BY <2>1, <2>2, <2>3, <2>5 DEF Sealed, Registered
  <2>7. Key(text, j) # NoHash
    BY <2>1, KeyNotEmpty
  <2> HIDE DEF b
  <2>8. /\ Shape(q) /\ Indexed(q) /\ q.queue = u.queue /\ q.refs = u.refs
        /\ \A x \in Block : q.hash[x] = IF x = b THEN Key(text, j) ELSE u.hash[x]
    BY <2>2, <2>6, <2>7, InsertStep
  <2>9. ASSUME NEW k \in from .. j PROVE q.hash[blocks[k]] = Key(text, k)
    <3>1. CASE k = j
      BY <2>2, <2>8, <3>1 DEF b
    <3>2. CASE k # j
      <4>1. k \in from .. j - 1
        BY <2>1, <3>2
      <4>2. blocks[k] # b /\ blocks[k] \in Block /\ u.hash[blocks[k]] = Key(text, k)
        BY <2>3, <2>4, <2>5, <4>1 DEF Sealed
      <4> QED
        BY <2>8, <4>2
    <3> QED
      BY <3>1, <3>2
  <2>10. ASSUME NEW x \in Block, \A k \in from .. j : blocks[k] # x PROVE q.hash[x] = p.hash[x]
    <3>1. j \in from .. j
      BY <2>1
    <3>2. x # b /\ \A k \in from .. j - 1 : blocks[k] # x
      BY <2>4, <2>10, <3>1 DEF b
    <3> QED
      BY <2>3, <2>8, <3>2 DEF Sealed
  <2>11. Sealed(p, q, text, blocks, from, j)
    BY <2>3, <2>8, <2>9, <2>10 DEF Sealed
  <2>12. Sealed(p, a[i + 1], text, blocks, from, from + (i + 1) - 1)
    BY <2>1, <2>11 DEF q
  <2> QED
    BY <2>1, <2>12 DEF T
<1> HIDE DEF T, seq
<1>5. n \in T
  <2>1. n \in 0 .. n
    BY <1>1
  <2> QED
    BY <1>1, <1>3, <1>4, <2>1, BoundedInduction
<1>6. Sealed(p, a[n], text, blocks, from, from + n - 1)
  BY <1>5 DEF T
<1>7. from .. from + n - 1 = from .. to
  BY <1>1
<1> QED
  BY <1>2, <1>6, <1>7 DEF Sealed

\* A list whose blocks were not among them is left as it was.
LEMMA CacheFree ==
    ASSUME NEW p, FreeList(p), NEW q, NEW text, NEW blocks, NEW from, NEW to,
           Sealed(p, q, text, blocks, from, to), \A i \in from .. to : p.refs[blocks[i]] # 0
    PROVE  FreeList(q)
<1>1. PICK c, n : FreeRow(p, c, n)
  BY DEF FreeList
<1>2. /\ Chain(p.queue, c, n) /\ Listed(c, n) = {b \in Block : p.refs[b] = 0}
      /\ Sorted(p.hash, c, n) /\ n \in Nat
  BY <1>1 DEF FreeRow, Chain, Row
<1>3. \A b \in Listed(c, n) : q.hash[b] = p.hash[b]
  BY <1>2 DEF Sealed
<1>4. Sorted(q.hash, c, n)
  BY <1>2, <1>3, SortedHash
<1>5. q.queue = p.queue /\ q.refs = p.refs
  BY DEF Sealed
<1>6. FreeRow(q, c, n)
  BY <1>2, <1>4, <1>5 DEF FreeRow
<1> QED
  BY <1>6 DEF FreeList

\* Of the first i blocks of the list those in the set are in s in their order.
InOrder(s, blocks, i, set) ==
    \A j, k \in 1 .. i : j < k /\ blocks[j] \in set /\ blocks[k] \in set =>
        \E u, v \in 1 .. Len(s) : u < v /\ s[u] = blocks[j] /\ s[v] = blocks[k]

\* s has the blocks of the first i of the list that are in the set, once each.
Some(s, blocks, i, set) ==
    /\ s \in Seq(Block) /\ Distinct(s) /\ InOrder(s, blocks, i, set)
    /\ ToSet(s) = {blocks[j] : j \in 1 .. i} \cap set

LEMMA OneMoreBlock ==
    ASSUME NEW s \in Seq(Block), Distinct(s), NEW b \in Block, b \notin ToSet(s)
    PROVE  /\ Append(s, b) \in Seq(Block) /\ Distinct(Append(s, b))
           /\ ToSet(Append(s, b)) = ToSet(s) \cup {b}
<1> DEFINE t == Append(s, b)
           n == Len(s)
<1>1. /\ t \in Seq(Block) /\ Len(t) = n + 1 /\ t[n + 1] = b /\ n \in Nat
      /\ \A i \in 1 .. n : t[i] = s[i]
  OBVIOUS
<1>2. DOMAIN s = 1 .. n /\ DOMAIN t = 1 .. n + 1
  BY <1>1
<1> HIDE DEF t, n
<1>3. ToSet(s) = {s[i] : i \in 1 .. n} /\ ToSet(t) = {t[i] : i \in 1 .. n + 1}
  BY <1>2 DEF ToSet
<1>4. \A i \in 1 .. n + 1 : i \in 1 .. n \/ i = n + 1
  BY <1>1
<1>5. (\A i \in 1 .. n : i \in 1 .. n + 1) /\ n + 1 \in 1 .. n + 1
  BY <1>1
<1>6. ToSet(t) = ToSet(s) \cup {b}
  <2>1. ASSUME NEW i \in 1 .. n + 1 PROVE t[i] \in ToSet(s) \cup {b}
    BY <1>1, <1>3, <1>4
  <2>2. ASSUME NEW i \in 1 .. n PROVE s[i] \in ToSet(t)
    BY <1>1, <1>3, <1>5
  <2>3. b \in ToSet(t)
    BY <1>1, <1>3, <1>5
  <2> QED
    BY <1>3, <2>1, <2>2, <2>3
<1>7. \A i \in 1 .. n : s[i] \in ToSet(s)
  BY <1>3
<1>8. ASSUME NEW i \in 1 .. n + 1, NEW j \in 1 .. n + 1, t[i] = t[j] PROVE i = j
  <2>1. CASE i \in 1 .. n /\ j \in 1 .. n
    BY <1>1, <1>8, <2>1 DEF Distinct, n
  <2>2. CASE i = n + 1
    BY <1>1, <1>4, <1>7, <1>8, <2>2
  <2>3. CASE j = n + 1
    BY <1>1, <1>4, <1>7, <1>8, <2>3
  <2> QED
    BY <1>4, <2>1, <2>2, <2>3
<1>9. Distinct(t)
  BY <1>1, <1>8 DEF Distinct
<1> QED
  BY <1>1, <1>6, <1>9 DEF t

LEMMA InOrderMore ==
    ASSUME NEW i \in Nat, NEW set, NEW blocks, blocks[i + 1] \in Block,
           NEW s \in Seq(Block), ToSet(s) = {blocks[j] : j \in 1 .. i} \cap set,
           InOrder(s, blocks, i, set)
    PROVE  InOrder(Append(s, blocks[i + 1]), blocks, i + 1, set)
<1> DEFINE b == blocks[i + 1]
           t == Append(s, b)
           n == Len(s)
<1>1. /\ Len(t) = n + 1 /\ t[n + 1] = b /\ n \in Nat /\ DOMAIN s = 1 .. n
      /\ \A k \in 1 .. n : t[k] = s[k] /\ k \in 1 .. n + 1
  OBVIOUS
<1> HIDE DEF t, n
<1> SUFFICES ASSUME NEW j \in 1 .. i + 1, NEW k \in 1 .. i + 1, j < k,
                    blocks[j] \in set, blocks[k] \in set
             PROVE  \E u, v \in 1 .. Len(t) : u < v /\ t[u] = blocks[j] /\ t[v] = blocks[k]
  BY DEF InOrder, t
<1>2. j \in 1 .. i
  OBVIOUS
<1>3. CASE k \in 1 .. i
  <2>1. PICK u, v \in 1 .. n : u < v /\ s[u] = blocks[j] /\ s[v] = blocks[k]
    BY <1>2, <1>3 DEF InOrder, n
  <2> QED
    BY <1>1, <2>1
<1>4. CASE k = i + 1
  <2>1. blocks[j] \in ToSet(s)
    BY <1>2
  <2>2. PICK u \in 1 .. n : s[u] = blocks[j]
    BY <1>1, <2>1 DEF ToSet
  <2>3. u < n + 1 /\ n + 1 \in 1 .. n + 1
    BY <1>1
  <2> QED
    BY <1>1, <1>4, <2>2, <2>3
<1> QED
  BY <1>3, <1>4

LEMMA ThoseOf ==
    ASSUME NEW blocks \in Seq(Block), Distinct(blocks), NEW set
    PROVE  /\ Those(blocks, set) \in Seq(Block) /\ Distinct(Those(blocks, set))
           /\ ToSet(Those(blocks, set)) = ToSet(blocks) \cap set
           /\ InOrder(Those(blocks, set), blocks, Len(blocks), set)
<1> DEFINE n == Len(blocks)
<1>1. n \in Nat /\ DOMAIN blocks = 1 .. n /\ \A i \in 1 .. n : blocks[i] \in Block
  OBVIOUS
<1>2. \A i, j \in 1 .. n : blocks[i] = blocks[j] => i = j
  BY DEF Distinct
<1> HIDE DEF n
<1>3. PICK a : /\ a[0] = << >> /\ a[n] = Those(blocks, set)
               /\ \A i \in 1 .. n : a[i] = IF blocks[i] \in set THEN Append(a[i - 1], blocks[i]) ELSE a[i - 1]
  <2>1. n \in Nat /\ DOMAIN blocks = 1 .. n
    BY <1>1
  <2>2. PICK a : ThoseRun(a, blocks, set, n)
    BY <2>1, ThoseSteps
  <2> QED
    BY <2>2 DEF ThoseRun
<1> DEFINE T == {i \in Nat : Some(a[i], blocks, i, set)}
<1>4. 0 \in T
  <2>1. Some(<< >>, blocks, 0, set)
    BY DEF Some, Distinct, ToSet, InOrder
  <2> QED
    BY <1>3, <2>1
<1>5. ASSUME NEW i \in 0 .. n - 1, i \in T PROVE i + 1 \in T
  <2> DEFINE b == blocks[i + 1]
             s == a[i]
             B(k) == {blocks[j] : j \in 1 .. k}
  <2>1. i + 1 \in 1 .. n /\ (i + 1) - 1 = i /\ i \in Nat /\ i + 1 \in Nat
    BY <1>1
  <2>2. a[i + 1] = IF b \in set THEN Append(s, b) ELSE s
    BY <1>3, <2>1
  <2>3. Some(s, blocks, i, set)
    BY <1>5
  <2>4. B(i + 1) = B(i) \cup {b}
    <3>1. \A j \in 1 .. i + 1 : j \in 1 .. i \/ j = i + 1
      BY <2>1
    <3>2. \A j \in 1 .. i : j \in 1 .. i + 1
      BY <2>1
    <3>3. i + 1 \in 1 .. i + 1
      BY <2>1
    <3> QED
      BY <3>1, <3>2, <3>3
  <2>5. b \notin B(i) /\ b \in Block
    <3>1. \A j \in 1 .. i : j \in 1 .. n /\ j # i + 1
      BY <1>1, <2>1
    <3> QED
      BY <1>1, <1>2, <2>1, <3>1
  <2>6. s \in Seq(Block) /\ Distinct(s) /\ ToSet(s) = B(i) \cap set /\ InOrder(s, blocks, i, set)
    BY <2>3 DEF Some
  <2>9. B(i) = {blocks[j] : j \in 1 .. i}
    OBVIOUS
  <2> HIDE DEF s, B
  <2>7. CASE b \in set
    <3>1. b \notin ToSet(s)
      BY <2>5, <2>6
    <3>2. /\ Append(s, b) \in Seq(Block) /\ Distinct(Append(s, b))
          /\ ToSet(Append(s, b)) = ToSet(s) \cup {b}
      BY <2>5, <2>6, <3>1, OneMoreBlock
    <3>5. InOrder(Append(s, b), blocks, i + 1, set)
      <4>1. ToSet(s) = {blocks[j] : j \in 1 .. i} \cap set
        BY <2>6, <2>9
      <4> QED
        BY <2>1, <2>5, <2>6, <4>1, InOrderMore
    <3> DEFINE t == Append(s, b)
    <3> HIDE DEF b
    <3> HIDE DEF t
    <3>3. t \in Seq(Block) /\ Distinct(t) /\ ToSet(t) = B(i + 1) \cap set /\ a[i + 1] = t
      BY <2>2, <2>4, <2>6, <2>7, <3>2 DEF t
    <3>4. InOrder(t, blocks, i + 1, set)
      BY <3>5 DEF t
    <3> QED
      BY <2>1, <3>3, <3>4 DEF Some, B
  <2>8. CASE b \notin set
    <3>1. ToSet(s) = B(i + 1) \cap set /\ a[i + 1] = s
      BY <2>2, <2>4, <2>6, <2>8
    <3>2. InOrder(s, blocks, i + 1, set)
      <4>1. \A j \in 1 .. i + 1 : blocks[j] \in set => j \in 1 .. i
        BY <2>1, <2>8
      <4> QED
        BY <2>6, <4>1 DEF InOrder
    <3> QED
      BY <2>1, <2>6, <3>1, <3>2 DEF Some, B
  <2> QED
    BY <2>7, <2>8
<1> HIDE DEF T
<1>6. n \in T
  <2>1. n \in 0 .. n
    BY <1>1
  <2> QED
    BY <1>1, <1>4, <1>5, <2>1, BoundedInduction
<1>7. {blocks[j] : j \in 1 .. n} = ToSet(blocks)
  BY <1>1 DEF ToSet
<1>8. Some(Those(blocks, set), blocks, n, set)
  BY <1>3, <1>6 DEF T
<1> QED
  BY <1>7, <1>8 DEF Some, n

\* q is p after a request has given its blocks back.
Freed(p, q, B) ==
    /\ Shape(q) /\ FreeList(q) /\ Indexed(q)
    /\ q.hash = p.hash
    /\ \A b \in Block : q.refs[b] = IF b \in B THEN p.refs[b] - 1 ELSE p.refs[b]

\* What was free comes before a registered block that is freed now, and these
\* keep the order in which they are freed.
Ranked(p, q, blocks) ==
    /\ Keeps(p, q, {}, {})
    /\ \A x \in Block, y \in ToSet(blocks) :
          p.refs[x] = 0 /\ q.refs[y] = 0 /\ Registered(p, y) => Ahead(q.queue, x, y)
    /\ \A i, j \in 1 .. Len(blocks) :
          i < j /\ q.refs[blocks[i]] = 0 /\ Registered(p, blocks[i])
                /\ q.refs[blocks[j]] = 0 /\ Registered(p, blocks[j])
             => Ahead(q.queue, blocks[i], blocks[j])

LEMMA FreeAll ==
    ASSUME NEW p, Shape(p), FreeList(p), Indexed(p), NEW blocks \in Seq(Block), Distinct(blocks),
           \A b \in ToSet(blocks) : p.refs[b] # 0
    PROVE  /\ Freed(p, FreeBlocks(p, blocks), ToSet(blocks))
           /\ Ranked(p, FreeBlocks(p, blocks), blocks)
<1> DEFINE refs   == [b \in Block |-> IF b \in ToSet(blocks) THEN p.refs[b] - 1 ELSE p.refs[b]]
           unused == {b \in Block : refs[b] = 0}
           hashed == {b \in Block : Registered(p, b)}
           s      == Those(blocks, unused \ hashed)
           t      == Those(blocks, unused \cap hashed)
           queue  == AppendN(PrependN(p.queue, s), t)
           q      == FreeBlocks(p, blocks)
<1>1. /\ p = [queue |-> p.queue, refs |-> p.refs, hash |-> p.hash, index |-> p.index]
      /\ p.refs \in [Block -> Nat] /\ p.hash = [b \in Block |-> p.hash[b]]
  BY DEF Shape
<1>2. q = [p EXCEPT !.refs = refs, !.queue = queue]
  BY DEF FreeBlocks
<1>3. ToSet(blocks) \subseteq Block
  BY DEF ToSet
<1>4. /\ \A b \in Block : refs[b] = IF b \in ToSet(blocks) THEN p.refs[b] - 1 ELSE p.refs[b]
      /\ refs \in [Block -> Nat]
  BY <1>1
<1>5. /\ unused = {b \in Block : refs[b] = 0}
      /\ hashed = {b \in Block : p.hash[b] # NoHash}
  BY DEF Registered
<1> HIDE DEF refs, unused, hashed
<1>6. /\ s \in Seq(Block) /\ Distinct(s) /\ ToSet(s) = ToSet(blocks) \cap (unused \ hashed)
  BY ThoseOf
<1>7. /\ t \in Seq(Block) /\ Distinct(t) /\ ToSet(t) = ToSet(blocks) \cap (unused \cap hashed)
      /\ InOrder(t, blocks, Len(blocks), unused \cap hashed)
  BY ThoseOf
<1> HIDE DEF s, t
<1>8. PICK c, n : FreeRow(p, c, n)
  BY DEF FreeList
<1>9. /\ Chain(p.queue, c, n) /\ Listed(c, n) = {b \in Block : p.refs[b] = 0}
      /\ Sorted(p.hash, c, n) /\ n \in Nat
  BY <1>8 DEF FreeRow, Chain, Row
<1> DEFINE d == Spliced(c, n, 0, s)
           m == n + Len(s)
           e == Spliced(d, m, m, t)
           k == m + Len(t)
<1>10. Len(s) \in Nat /\ Len(t) \in Nat /\ DOMAIN s = 1 .. Len(s) /\ DOMAIN t = 1 .. Len(t)
  BY <1>6, <1>7
<1>11. Listed(c, n) \cap ToSet(blocks) = {}
  BY <1>9
<1>12. /\ Chain(PrependN(p.queue, s), d, m) /\ Listed(d, m) = Listed(c, n) \cup ToSet(s)
  <2>1. Listed(c, n) \cap ToSet(s) = {}
    BY <1>6, <1>11
  <2> QED
    BY <1>6, <1>9, <2>1, PrependChain
<1>13. Sorted(p.hash, d, m)
  <2>1. \A i \in 1 .. Len(s) : s[i] \in ToSet(s)
    BY <1>10 DEF ToSet
  <2>2. \A i \in 1 .. Len(s) : p.hash[s[i]] = NoHash
    BY <1>3, <1>5, <1>6, <2>1
  <2> QED
    BY <1>6, <1>9, <2>2, SortedPrepend
<1>14. m \in Nat
  BY <1>9, <1>10
<1>22. \A x, y : Ahead(p.queue, x, y) => Ahead(PrependN(p.queue, s), x, y)
  <2>1. 0 \in 0 .. n /\ d = Spliced(c, n, 0, s) /\ Chain(PrependN(p.queue, s), d, n + Len(s))
    BY <1>9, <1>12
  <2> HIDE DEF d, m, e, k, queue, q
  <2> QED
    BY <1>6, <1>9, <2>1, AheadSpliced, SMTT(60)
<1> HIDE DEF d, m
<1>15. /\ Chain(queue, e, k) /\ Listed(e, k) = Listed(d, m) \cup ToSet(t)
  <2>1. Listed(d, m) \cap ToSet(t) = {}
    BY <1>6, <1>7, <1>11, <1>12
  <2> QED
    BY <1>7, <1>12, <2>1, AppendChain
<1>16. Sorted(p.hash, e, k)
  <2>1. \A i \in 1 .. Len(t) : t[i] \in ToSet(t)
    BY <1>10 DEF ToSet
  <2>2. \A i \in 1 .. Len(t) : p.hash[t[i]] # NoHash
    BY <1>3, <1>5, <1>7, <2>1
  <2> QED
    BY <1>7, <1>13, <1>14, <2>2, SortedAppend
<1>23. /\ \A x, y : Ahead(PrependN(p.queue, s), x, y) => Ahead(queue, x, y)
       /\ \A i, j \in 1 .. Len(t) : i < j => Ahead(queue, t[i], t[j])
       /\ \A i \in 1 .. m, j \in 1 .. Len(t) : Ahead(queue, d[i], t[j])
  <2>1. m \in 0 .. m /\ e = Spliced(d, m, m, t) /\ Chain(queue, e, m + Len(t))
    BY <1>14, <1>15
  <2> HIDE DEF e, k, queue, q
  <2> QED
    BY <1>7, <1>12, <2>1, AheadSpliced, SMTT(60)
<1> HIDE DEF e, k, queue, q
<1>17. /\ q.queue = queue /\ q.refs = refs /\ q.hash = p.hash /\ q.index = p.index
       /\ q = [queue |-> q.queue, refs |-> q.refs, hash |-> q.hash, index |-> q.index]
  BY <1>1, <1>2
<1>18. Shape(q)
  BY <1>1, <1>4, <1>17 DEF Shape
<1>19. Indexed(q)
  <2>1. q.hash = p.hash /\ q.index = p.index
    BY <1>17
  <2> QED
    BY <2>1 DEF Indexed, Registered
<1>20. Listed(e, k) = {b \in Block : q.refs[b] = 0}
  <2>1. Listed(e, k) = Listed(c, n) \cup (ToSet(blocks) \cap unused)
    BY <1>6, <1>7, <1>12, <1>15
  <2>2. \A b \in Block : b \notin ToSet(blocks) => (refs[b] = 0 <=> p.refs[b] = 0)
    BY <1>4
  <2>3. Listed(e, k) = {b \in Block : refs[b] = 0}
    BY <1>3, <1>5, <1>9, <1>11, <2>1, <2>2
  <2> QED
    BY <1>17, <2>3
<1>21. FreeList(q)
  <2>1. FreeRow(q, e, k)
    BY <1>15, <1>16, <1>17, <1>20 DEF FreeRow
  <2> QED
    BY <2>1 DEF FreeList
<1>24. ASSUME NEW b \in ToSet(blocks), q.refs[b] = 0, Registered(p, b)
       PROVE  b \in unused \cap hashed /\ \E j \in 1 .. Len(t) : b = t[j]
  <2>1. b \in unused \cap hashed
    BY <1>3, <1>5, <1>17, <1>24 DEF Registered
  <2> QED
    BY <1>7, <1>10, <2>1 DEF ToSet
<1>25. Ranked(p, q, blocks)
  <2>1. Keeps(p, q, {}, {})
    BY <1>17, <1>22, <1>23 DEF Keeps
  <2>2. ASSUME NEW x \in Block, NEW y \in ToSet(blocks),
               p.refs[x] = 0, q.refs[y] = 0, Registered(p, y)
        PROVE  Ahead(q.queue, x, y)
    <3>1. PICK j \in 1 .. Len(t) : y = t[j]
      BY <1>24, <2>2
    <3>2. x \in Listed(d, m)
      BY <1>9, <1>12, <2>2
    <3>3. PICK i \in 1 .. m : x = d[i]
      BY <3>2 DEF Listed
    <3> QED
      BY <1>17, <1>23, <3>1, <3>3
  <2>3. ASSUME NEW i \in 1 .. Len(blocks), NEW j \in 1 .. Len(blocks), i < j,
               q.refs[blocks[i]] = 0, Registered(p, blocks[i]),
               q.refs[blocks[j]] = 0, Registered(p, blocks[j])
        PROVE  Ahead(q.queue, blocks[i], blocks[j])
    <3>1. blocks[i] \in ToSet(blocks) /\ blocks[j] \in ToSet(blocks)
      BY DEF ToSet
    <3>2. blocks[i] \in unused \cap hashed /\ blocks[j] \in unused \cap hashed
      BY <1>24, <2>3, <3>1
    <3>3. PICK u, v \in 1 .. Len(t) : u < v /\ t[u] = blocks[i] /\ t[v] = blocks[j]
      BY <1>7, <2>3, <3>2 DEF InOrder
    <3> QED
      BY <1>17, <1>23, <3>3
  <2> QED
    BY <2>1, <2>2, <2>3 DEF Ranked
<1>26. Freed(p, q, ToSet(blocks))
  BY <1>4, <1>17, <1>18, <1>19, <1>21 DEF Freed
<1> QED
  BY <1>25, <1>26 DEF q

-----------------------------------------------------------------------------
(* Tokens and blocks. *)

LEMMA DivMod ==
    ASSUME NEW n \in Nat, NEW d \in Nat \ {0}
    PROVE  n \div d \in Nat /\ n % d \in 0 .. d - 1 /\ n = d * (n \div d) + (n % d)
  OBVIOUS

LEMMA DivUnique ==
    ASSUME NEW n \in Nat, NEW d \in Nat \ {0}, NEW q \in Nat, NEW r \in 0 .. d - 1,
           n = d * q + r
    PROVE  n \div d = q
  OBVIOUS

LEMMA TimesMonotone ==
    ASSUME NEW x \in Nat, NEW a \in Nat, NEW b \in Nat, a <= b
    PROVE  x * a <= x * b
  OBVIOUS

LEMMA DivMonotone ==
    ASSUME NEW d \in Nat \ {0}, NEW a \in Nat, NEW b \in Nat, a <= b
    PROVE  a \div d <= b \div d
<1> SUFFICES ASSUME (b \div d) + 1 <= a \div d PROVE FALSE
  BY DivMod
<1>1. b \div d \in Nat /\ a \div d \in Nat
  BY DivMod
<1>2. d * ((b \div d) + 1) <= d * (a \div d)
  BY <1>1, TimesMonotone
<1>3. d * ((b \div d) + 1) = d * (b \div d) + d
  BY <1>1
<1>4. b = d * (b \div d) + (b % d) /\ b % d \in 0 .. d - 1
  BY DivMod
<1>5. a = d * (a \div d) + (a % d) /\ a % d \in 0 .. d - 1
  BY DivMod
<1> QED
  BY <1>1, <1>2, <1>3, <1>4, <1>5

\* The blocks that n tokens fill.
Filled(n) == n \div BlockSize

LEMMA Sizes ==
    BlockSize \in Nat \ {0} /\ MaxLen \in Nat /\ Lookahead \in Nat
        /\ IsFiniteSet(Block) /\ IsFiniteSet(Req)
  BY BlockPoolAssumption

LEMMA BlocksOf ==
    ASSUME NEW n \in Nat
    PROVE  /\ Filled(n) \in Nat /\ CeilDiv(n) \in Nat
           /\ CeilDiv(n + 1) = Filled(n) + 1
           /\ Filled(n) <= CeilDiv(n)
           /\ Filled(n * BlockSize) = n /\ CeilDiv(n * BlockSize) = n
           /\ n * BlockSize \in Nat
<1> DEFINE d == BlockSize
           r == n % d
           q == Filled(n)
<1>1. d \in Nat \ {0}
  BY Sizes
<1> HIDE DEF d
<1>2. q \in Nat /\ r \in 0 .. d - 1 /\ n = d * q + r
  BY <1>1, DivMod DEF Filled, d
<1> HIDE DEF r, q
<1>3. CeilDiv(n) \in Nat
  <2>1. n + d - 1 \in Nat
    BY <1>1
  <2> QED
    BY <1>1, <2>1, DivMod DEF CeilDiv, d
<1>4. CeilDiv(n + 1) = q + 1
  <2>1. d * (q + 1) = d * q + d
    BY <1>1, <1>2
  <2>2. n + d \in Nat /\ n + d = d * (q + 1) + r /\ q + 1 \in Nat
    BY <1>1, <1>2, <2>1
  <2>3. (n + d) \div d = q + 1
    BY <1>1, <1>2, <2>2, DivUnique
  <2>4. (n + 1) + d - 1 = n + d
    BY <1>1
  <2> QED
    BY <2>3, <2>4 DEF CeilDiv, d
<1>5. q <= CeilDiv(n)
  <2>1. n + d - 1 \in Nat /\ n <= n + d - 1
    BY <1>1
  <2>2. n \div d <= (n + d - 1) \div d
    BY <1>1, <2>1, DivMonotone
  <2> QED
    BY <2>2 DEF CeilDiv, Filled, d, q
<1>6. n * d \in Nat /\ n * d = d * n + 0 /\ 0 \in 0 .. d - 1
  BY <1>1
<1>7. (n * d) \div d = n
  BY <1>1, <1>6, DivUnique
<1>8. (n * d + d - 1) \div d = n
  <2>1. n * d + d - 1 = d * n + (d - 1) /\ d - 1 \in 0 .. d - 1 /\ n * d + d - 1 \in Nat
    BY <1>1, <1>6
  <2> QED
    BY <1>1, <2>1, DivUnique
<1> QED
  BY <1>2, <1>3, <1>4, <1>5, <1>6, <1>7, <1>8 DEF q, d, Filled, CeilDiv

LEMMA BlocksMonotone ==
    ASSUME NEW m \in Nat, NEW n \in Nat, m <= n
    PROVE  Filled(m) <= Filled(n) /\ CeilDiv(m) <= CeilDiv(n)
<1>1. Filled(m) <= Filled(n)
  BY Sizes, DivMonotone DEF Filled
<1>2. m + BlockSize - 1 \in Nat /\ n + BlockSize - 1 \in Nat
      /\ m + BlockSize - 1 <= n + BlockSize - 1
  BY Sizes
<1>3. CeilDiv(m) <= CeilDiv(n)
  <2> DEFINE a == m + BlockSize - 1
             b == n + BlockSize - 1
  <2>1. a \in Nat /\ b \in Nat /\ a <= b
    BY <1>2
  <2> HIDE DEF a, b
  <2>2. a \div BlockSize <= b \div BlockSize
    BY <2>1, Sizes, DivMonotone
  <2> QED
    BY <2>2 DEF CeilDiv, a, b
<1> QED
  BY <1>1, <1>3

-----------------------------------------------------------------------------
(* The counter of the free queue is the number of blocks without references. *)

Idle(p) == {b \in Block : p.refs[b] = 0}

LEMMA FreeCount ==
    ASSUME NEW p, FreeList(p)
    PROVE  p.queue.num = Cardinality(Idle(p)) /\ IsFiniteSet(Idle(p)) /\ p.queue.num \in Nat
<1>1. PICK c, n : FreeRow(p, c, n)
  BY DEF FreeList
<1>2. /\ Listed(c, n) = Idle(p) /\ n \in Nat /\ p.queue.num = n
      /\ \A i, j \in 1 .. n : c[i] = c[j] => i = j
  BY <1>1 DEF FreeRow, Chain, Row, Idle
<1> DEFINE f == [i \in 1 .. n |-> c[i]]
<1>3. f \in Bijection(1 .. n, Listed(c, n))
  <2>1. f \in [1 .. n -> Listed(c, n)] /\ \A i \in 1 .. n : f[i] = c[i]
    BY DEF Listed
  <2> HIDE DEF f
  <2>2. \A i, j \in 1 .. n : f[i] = f[j] => i = j
    BY <1>2, <2>1
  <2>3. \A b \in Listed(c, n) : \E i \in 1 .. n : f[i] = b
    BY <2>1 DEF Listed
  <2> QED
    BY <2>1, <2>2, <2>3 DEF Bijection, Injection, Surjection, IsInjective
<1>4. ExistsBijection(1 .. n, Listed(c, n))
  BY <1>3 DEF ExistsBijection
<1>5. IsFiniteSet(1 .. n) /\ Cardinality(1 .. n) = n
  BY <1>2, FS_Interval
<1> QED
  BY <1>2, <1>4, <1>5, FS_Bijection

\* u is t after s.
Joint(u, s, t) ==
    /\ u \in Seq(Block) /\ Len(u) = Len(s) + Len(t)
    /\ \A i \in 1 .. Len(s) : u[i] = s[i]
    /\ \A i \in 1 .. Len(t) : u[Len(s) + i] = t[i]

LEMMA ConcatJoint ==
    ASSUME NEW s \in Seq(Block), NEW t \in Seq(Block)
    PROVE  Joint(s \o t, s, t)
  BY DEF Joint

LEMMA JointParts ==
    ASSUME NEW s \in Seq(Block), NEW t \in Seq(Block), NEW u, Joint(u, s, t)
    PROVE  /\ ToSet(u) = ToSet(s) \cup ToSet(t)
           /\ Distinct(s) /\ Distinct(t) /\ ToSet(s) \cap ToSet(t) = {} => Distinct(u)
<1> DEFINE m == Len(s)
           n == Len(t)
<1>1. /\ u \in Seq(Block) /\ Len(u) = m + n /\ m \in Nat /\ n \in Nat
      /\ \A i \in 1 .. m : u[i] = s[i]
      /\ \A i \in 1 .. n : u[m + i] = t[i]
  <2>1. u \in Seq(Block) /\ Len(u) = Len(s) + Len(t) /\ \A i \in 1 .. Len(s) : u[i] = s[i]
    BY DEF Joint
  <2>2. \A i \in 1 .. Len(t) : u[Len(s) + i] = t[i]
    BY DEF Joint
  <2>3. Len(s) \in Nat /\ Len(t) \in Nat
    OBVIOUS
  <2>4. u \in Seq(Block) /\ Len(u) = m + n /\ m \in Nat /\ n \in Nat
    BY <2>1, <2>3
  <2>5. \A i \in 1 .. n : u[m + i] = t[i]
    BY <2>2
  <2> QED
    BY <2>1, <2>4, <2>5
<1>2. DOMAIN s = 1 .. m /\ DOMAIN t = 1 .. n /\ DOMAIN u = 1 .. m + n
  BY <1>1
<1> HIDE DEF m, n
<1>3. /\ ToSet(s) = {s[i] : i \in 1 .. m} /\ ToSet(t) = {t[i] : i \in 1 .. n}
      /\ ToSet(u) = {u[i] : i \in 1 .. m + n}
  BY <1>2 DEF ToSet
<1>4. ASSUME NEW i \in 1 .. m + n
      PROVE  \/ i \in 1 .. m /\ u[i] = s[i] /\ u[i] \in ToSet(s)
             \/ i - m \in 1 .. n /\ i > m /\ u[i] = t[i - m] /\ u[i] \in ToSet(t)
  <2>1. CASE i <= m
    <3>1. i \in 1 .. m
      BY <1>1, <2>1
    <3> QED
      BY <1>1, <1>3, <3>1
  <2>2. CASE i > m
    <3>1. i - m \in 1 .. n /\ m + (i - m) = i
      BY <1>1, <2>2
    <3> QED
      BY <1>1, <1>3, <2>2, <3>1
  <2> QED
    BY <1>1, <2>1, <2>2
<1>5. ToSet(u) = ToSet(s) \cup ToSet(t)
  <2>1. ASSUME NEW i \in 1 .. m PROVE s[i] \in ToSet(u)
    <3>1. i \in 1 .. m + n
      BY <1>1
    <3> QED
      BY <1>1, <1>3, <3>1
  <2>2. ASSUME NEW i \in 1 .. n PROVE t[i] \in ToSet(u)
    <3>1. m + i \in 1 .. m + n
      BY <1>1
    <3> QED
      BY <1>1, <1>3, <3>1
  <2>3. \A i \in 1 .. m + n : u[i] \in ToSet(s) \cup ToSet(t)
    BY <1>4
  <2> QED
    BY <1>3, <2>1, <2>2, <2>3
<1>6. ASSUME Distinct(s), Distinct(t), ToSet(s) \cap ToSet(t) = {} PROVE Distinct(u)
  <2> SUFFICES ASSUME NEW i \in 1 .. m + n, NEW j \in 1 .. m + n, u[i] = u[j] PROVE i = j
    BY <1>1 DEF Distinct
  <2>1. \/ i \in 1 .. m /\ u[i] = s[i] /\ u[i] \in ToSet(s)
        \/ i - m \in 1 .. n /\ i > m /\ u[i] = t[i - m] /\ u[i] \in ToSet(t)
    BY <1>4
  <2>2. \/ j \in 1 .. m /\ u[j] = s[j] /\ u[j] \in ToSet(s)
        \/ j - m \in 1 .. n /\ j > m /\ u[j] = t[j - m] /\ u[j] \in ToSet(t)
    BY <1>4
  <2>3. i - m = j - m => i = j
    BY <1>1
  <2>4. \A x, y \in 1 .. m : s[x] = s[y] => x = y
    BY <1>6 DEF Distinct, m
  <2>5. \A x, y \in 1 .. n : t[x] = t[y] => x = y
    BY <1>6 DEF Distinct, n
  <2> QED
    BY <1>6, <2>1, <2>2, <2>3, <2>4, <2>5
<1> QED
  BY <1>5, <1>6

LEMMA JointEmpty ==
    ASSUME NEW s \in Seq(Block), NEW t \in Seq(Block), NEW u, Joint(u, s, t)
    PROVE  /\ s = << >> => u = t
           /\ t = << >> => u = s
<1>1. u \in Seq(Block) /\ Len(u) = Len(s) + Len(t)
      /\ (\A i \in 1 .. Len(s) : u[i] = s[i]) /\ (\A i \in 1 .. Len(t) : u[Len(s) + i] = t[i])
  BY DEF Joint
<1>2. ASSUME s = << >> PROVE u = t
  <2>1. Len(s) = 0
    BY <1>2
  <2>2. Len(u) = Len(t) /\ \A i \in 1 .. Len(t) : u[i] = t[i]
    BY <1>1, <2>1
  <2> QED
    BY <1>1, <2>2
<1>3. ASSUME t = << >> PROVE u = s
  <2>1. Len(t) = 0
    BY <1>3
  <2>2. Len(u) = Len(s)
    BY <1>1, <2>1
  <2> QED
    BY <1>1, <2>2
<1> QED
  BY <1>2, <1>3

-----------------------------------------------------------------------------
(* The invariant. *)

Holders(b) == {r \in Req : b \in ToSet(table[r])}

\* Tables name a block once, and its references are counted.
TableInv ==
    /\ table \in [Req -> Seq(Block)] /\ cached \in [Req -> Nat]
    /\ \A r \in Req : Distinct(table[r]) /\ cached[r] <= Len(table[r])
    /\ \A b \in Block : pool.refs[b] = Cardinality(Holders(b))

\* The cached blocks of a request are registered for its text; the blocks after
\* them are not registered, and nobody else has them.
SealInv ==
    \A r \in Req :
        /\ \A i \in 1 .. cached[r] : pool.hash[table[r][i]] = Key(request[r].text, i)
        /\ \A i \in cached[r] + 1 .. Len(table[r]) :
              /\ ~Registered(pool, table[r][i])
              /\ \A s \in Req : table[r][i] \in ToSet(table[s]) => s = r

PoolInv == Shape(pool) /\ FreeList(pool) /\ Indexed(pool)

LEMMA HeldBlocks ==
    ASSUME TableInv, NEW b \in Block
    PROVE  /\ IsFiniteSet(Holders(b)) /\ pool.refs[b] \in Nat
           /\ pool.refs[b] = 0 <=> Holders(b) = {}
<1>1. IsFiniteSet(Holders(b))
  BY Sizes, FS_Subset DEF Holders
<1> QED
  BY <1>1, FS_CardinalityType, FS_EmptySet DEF TableInv

-----------------------------------------------------------------------------
(* allocate_slots. *)

\* The hit of a request: blocks registered for its text, of a request that has
\* no blocks yet.
HitOK(r, hit) ==
    /\ hit \in Seq(Block) /\ Distinct(hit)
    /\ \A i \in 1 .. Len(hit) : pool.hash[hit[i]] = Key(request[r].text, i)
    /\ hit # << >> => table[r] = << >>

\* A hit leaves enough blocks for what is allocated after it.
LEMMA EnoughFree ==
    ASSUME PoolInv, NEW hit \in Seq(Block), NEW u, Touched(pool, u, ToSet(hit)),
           NEW k \in Nat,
           k + Cardinality({b \in ToSet(hit) : pool.refs[b] = 0}) <= pool.queue.num
    PROVE  k <= u.queue.num
<1> DEFINE F == Idle(pool)
           H == ToSet(hit)
<1>1. H \subseteq Block
  BY DEF ToSet
<1>2. \A b \in Block : pool.refs[b] \in Nat
  BY DEF PoolInv, Shape
<1>3. pool.queue.num = Cardinality(F) /\ IsFiniteSet(F)
  BY FreeCount DEF PoolInv
<1>4. u.queue.num = Cardinality(Idle(u))
  BY FreeCount DEF Touched
<1>5. Idle(u) = F \ H
  BY <1>2 DEF Touched, Idle
<1>6. {b \in ToSet(hit) : pool.refs[b] = 0} = F \cap H
  BY <1>1 DEF Idle
<1> HIDE DEF F
<1>7. k + Cardinality(F \cap H) <= pool.queue.num
  BY <1>6
<1> HIDE DEF H
<1>8. Cardinality(F \ H) = Cardinality(F) - Cardinality(F \cap H)
  BY <1>3, FS_Difference
<1>9. Cardinality(F) \in Nat /\ Cardinality(F \cap H) \in Nat
  BY <1>3, FS_Intersection, FS_CardinalityType
<1> QED
  BY <1>3, <1>4, <1>5, <1>8, <1>9, <1>7

\* What allocate_slots does to the pool: the blocks are those of the hit or of
\* the table, and then new ones; all of them are counted once more, but for the
\* ones that were in the table; those up to `to` are registered, the new ones
\* after it are not, and nothing else changes its registration.
Grown(r, hit, new, blocks, q, text, to) ==
    LET known == Len(hit) + cached[r]
        more  == ToSet(hit) \cup ToSet(new)
    IN  /\ Shape(q) /\ FreeList(q) /\ Indexed(q) /\ Keeps(pool, q, more, ToSet(hit))
        /\ \A b \in Block : q.refs[b] = IF b \in more THEN pool.refs[b] + 1 ELSE pool.refs[b]
        /\ \A b \in ToSet(new) : pool.refs[b] = 0 /\ b \notin ToSet(hit)
        /\ \A i \in known + 1 .. to : q.hash[blocks[i]] = Key(text, i)
        /\ \A i \in known + 1 .. Len(blocks) : i > to => q.hash[blocks[i]] = NoHash
        /\ \A i \in 1 .. known : q.hash[blocks[i]] = pool.hash[blocks[i]]
        /\ \A b \in Block : b \notin ToSet(blocks) => q.hash[b] = pool.hash[b]

\* The blocks of a request after an allocation.
Extended(r, hit, new, blocks) ==
    /\ blocks \in Seq(Block) /\ Distinct(blocks)
    /\ Len(blocks) = Len(hit) + Len(table[r]) + Len(new)
    /\ ToSet(blocks) = ToSet(hit) \cup ToSet(table[r]) \cup ToSet(new)
    /\ \A i \in 1 .. Len(hit) : blocks[i] = hit[i]
    /\ \A i \in 1 .. Len(table[r]) : blocks[Len(hit) + i] = table[r][i]
    /\ \A i \in 1 .. Len(new) : blocks[Len(hit) + Len(table[r]) + i] = new[i]

LEMMA ExtendedBlocks ==
    ASSUME TableInv, NEW r \in Req, NEW hit, HitOK(r, hit), NEW new \in Seq(Block), Distinct(new),
           \A b \in ToSet(new) : pool.refs[b] = 0 /\ b \notin ToSet(hit),
           NEW blocks, blocks = (hit \o table[r]) \o new
    PROVE  Extended(r, hit, new, blocks)
<1> DEFINE t == table[r]
           base == hit \o t
<1>1. t \in Seq(Block) /\ Distinct(t) /\ hit \in Seq(Block) /\ Distinct(hit)
  BY DEF TableInv, HitOK
<1>2. ToSet(new) \cap ToSet(t) = {}
  <2> SUFFICES ASSUME NEW b \in ToSet(new), b \in ToSet(t) PROVE FALSE
    OBVIOUS
  <2>1. b \in Block
    BY <1>1 DEF ToSet
  <2>2. r \in Holders(b)
    BY DEF Holders
  <2> QED
    BY <2>1, <2>2, HeldBlocks
<1>3. hit = << >> \/ t = << >>
  BY DEF HitOK
<1> HIDE DEF t
<1>4. Joint(base, hit, t)
  BY <1>1, ConcatJoint
<1>5. base \in Seq(Block) /\ Len(base) = Len(hit) + Len(t)
      /\ (\A i \in 1 .. Len(hit) : base[i] = hit[i]) /\ (\A i \in 1 .. Len(t) : base[Len(hit) + i] = t[i])
  BY <1>4 DEF Joint
<1>6. ToSet(base) = ToSet(hit) \cup ToSet(t)
  BY <1>1, <1>4, JointParts
<1>7. Distinct(base)
  <2>1. ToSet(hit) \cap ToSet(t) = {}
    BY <1>3 DEF ToSet
  <2> QED
    BY <1>1, <1>4, <2>1, JointParts
<1>8. blocks = base \o new
  BY DEF t
<1> HIDE DEF base
<1>9. Joint(blocks, base, new)
  BY <1>5, <1>8, ConcatJoint
<1>10. ToSet(blocks) = ToSet(base) \cup ToSet(new) /\ Distinct(blocks)
  <2>1. ToSet(base) \cap ToSet(new) = {}
    BY <1>2, <1>6
  <2> QED
    BY <1>5, <1>7, <1>9, <2>1, JointParts
<1>11. blocks \in Seq(Block) /\ Len(blocks) = Len(base) + Len(new)
       /\ (\A i \in 1 .. Len(base) : blocks[i] = base[i])
       /\ (\A i \in 1 .. Len(new) : blocks[Len(base) + i] = new[i])
  BY <1>9 DEF Joint
<1>12. Len(hit) \in Nat /\ Len(t) \in Nat /\ Len(new) \in Nat
  BY <1>1
<1>13. \A i \in 1 .. Len(hit) : blocks[i] = hit[i]
  <2>1. \A i \in 1 .. Len(hit) : i \in 1 .. Len(base)
    BY <1>5, <1>12
  <2> QED
    BY <1>5, <1>11, <2>1
<1>14. \A i \in 1 .. Len(t) : blocks[Len(hit) + i] = t[i]
  <2>1. \A i \in 1 .. Len(t) : Len(hit) + i \in 1 .. Len(base)
    BY <1>5, <1>12
  <2> QED
    BY <1>5, <1>11, <2>1
<1>15. \A i \in 1 .. Len(new) : blocks[Len(hit) + Len(t) + i] = new[i]
  BY <1>5, <1>11
<1>16. Len(blocks) = Len(hit) + Len(t) + Len(new)
       /\ ToSet(blocks) = ToSet(hit) \cup ToSet(t) \cup ToSet(new)
  BY <1>5, <1>6, <1>10, <1>11
<1> QED
  BY <1>10, <1>11, <1>13, <1>14, <1>15, <1>16 DEF Extended, t

\* The blocks that allocate_slots registers have no registration yet and are in use.
LEMMA OpenBlocks ==
    ASSUME TableInv, SealInv, NEW r \in Req, NEW hit, HitOK(r, hit), NEW new, NEW blocks,
           new \in Seq(Block), Extended(r, hit, new, blocks), NEW v,
           \A b \in Block : v.refs[b] = IF b \in ToSet(hit) \cup ToSet(new)
                                        THEN pool.refs[b] + 1 ELSE pool.refs[b],
           \A b \in Block : v.hash[b] = IF b \in ToSet(new) THEN NoHash ELSE pool.hash[b],
           \A b \in ToSet(new) : pool.refs[b] = 0 /\ b \notin ToSet(hit),
           NEW i \in Len(hit) + cached[r] + 1 .. Len(blocks)
    PROVE  blocks[i] \in Block /\ v.hash[blocks[i]] = NoHash /\ v.refs[blocks[i]] # 0
<1> DEFINE t == table[r]
           h == Len(hit)
           m == Len(t)
<1>1. t \in Seq(Block) /\ m \in Nat /\ h \in Nat /\ cached[r] \in Nat /\ cached[r] <= m
      /\ DOMAIN t = 1 .. m /\ DOMAIN hit = 1 .. h
  BY DEF TableInv, HitOK
<1>2. /\ blocks \in Seq(Block) /\ Len(blocks) = h + m + Len(new)
      /\ \A j \in 1 .. m : blocks[h + j] = t[j]
      /\ \A j \in 1 .. Len(new) : blocks[h + m + j] = new[j]
      /\ ToSet(blocks) = ToSet(hit) \cup ToSet(t) \cup ToSet(new)
  BY DEF Extended
<1>3. i \in 1 .. Len(blocks) /\ blocks[i] \in Block /\ Len(blocks) \in Nat
  <2>1. Len(blocks) \in Nat
    BY <1>2
  <2>2. i \in 1 .. Len(blocks)
    BY <1>1, <2>1
  <2> QED
    BY <1>2, <2>1, <2>2
<1>4. pool.refs[blocks[i]] \in Nat
  BY <1>3, HeldBlocks
<1> HIDE DEF h, m
<1>5. CASE blocks[i] \in ToSet(new)
  BY <1>3, <1>4, <1>5
<1>6. CASE blocks[i] \notin ToSet(new)
  <2>1. i <= h + m
    <3> SUFFICES ASSUME i > h + m PROVE FALSE
      BY <1>1, <1>3
    <3>1. Len(new) \in Int
      BY <1>1, <1>2, <1>3
    <3>2. i - (h + m) \in 1 .. Len(new) /\ h + m + (i - (h + m)) = i
      BY <1>1, <1>2, <1>3, <3>1
    <3>3. blocks[i] = new[i - (h + m)]
      BY <1>2, <3>2
    <3>4. i - (h + m) \in DOMAIN new
      BY <3>2
    <3> QED
      BY <1>6, <3>3, <3>4 DEF ToSet
  <2>2. hit = << >>
    <3> SUFFICES ASSUME t = << >> PROVE FALSE
      BY DEF HitOK
    <3>1. m = 0 /\ cached[r] = 0
      BY <1>1 DEF m
    <3> QED
      BY <1>1, <2>1, <3>1 DEF h
  <2>3. h = 0
    BY <2>2 DEF h
  <2>4. i \in cached[r] + 1 .. m /\ i \in 1 .. m /\ blocks[i] = t[i]
    <3>1. i \in cached[r] + 1 .. m /\ i \in 1 .. m /\ h + i = i
      BY <1>1, <2>1, <2>3 DEF h
    <3> QED
      BY <1>2, <3>1
  <2>5. ~Registered(pool, t[i])
    BY <2>4 DEF SealInv, m
  <2>6. blocks[i] \in ToSet(t)
    BY <1>1, <2>4 DEF ToSet
  <2>7. pool.refs[blocks[i]] # 0
    <3>1. r \in Holders(blocks[i])
      BY <2>6 DEF Holders
    <3> QED
      BY <1>3, <3>1, HeldBlocks
  <2>8. blocks[i] \notin ToSet(hit)
    BY <2>2 DEF ToSet
  <2> QED
    BY <1>3, <1>6, <2>4, <2>5, <2>7, <2>8 DEF Registered
<1> QED
  BY <1>5, <1>6

LEMMA KeptHashes ==
    ASSUME TableInv, SealInv, NEW r \in Req, NEW hit, HitOK(r, hit), NEW new \in Seq(Block),
           \A b \in ToSet(new) : pool.refs[b] = 0 /\ b \notin ToSet(hit), NEW blocks,
           Extended(r, hit, new, blocks), NEW i \in 1 .. Len(hit) + cached[r]
    PROVE  blocks[i] \in Block /\ blocks[i] \notin ToSet(new) /\ i \in 1 .. Len(blocks)
<1> DEFINE t == table[r]
           h == Len(hit)
           m == Len(t)
<1>1. t \in Seq(Block) /\ m \in Nat /\ h \in Nat /\ cached[r] \in Nat /\ cached[r] <= m
      /\ DOMAIN t = 1 .. m /\ DOMAIN hit = 1 .. h /\ Len(new) \in Nat
  BY DEF TableInv, HitOK
<1>2. /\ blocks \in Seq(Block) /\ Len(blocks) = h + m + Len(new)
      /\ \A j \in 1 .. h : blocks[j] = hit[j]
      /\ \A j \in 1 .. m : blocks[h + j] = t[j]
  BY DEF Extended
<1> HIDE DEF h, m
<1>3. i \in 1 .. Len(blocks)
  BY <1>1, <1>2 DEF h
<1>4. blocks[i] \in Block
  BY <1>2, <1>3
<1>5. i \in 1 .. h \/ (i - h \in 1 .. m /\ h + (i - h) = i)
  BY <1>1 DEF h
<1>6. CASE i \in 1 .. h
  <2>1. blocks[i] \in ToSet(hit)
    BY <1>1, <1>2, <1>6 DEF ToSet
  <2> QED
    BY <1>3, <1>4, <2>1
<1>7. CASE i - h \in 1 .. m /\ h + (i - h) = i
  <2>0. i - h \in DOMAIN t /\ blocks[i] = t[i - h]
    BY <1>1, <1>2, <1>7
  <2>1. blocks[i] \in ToSet(t)
    BY <2>0 DEF ToSet
  <2>2. r \in Holders(blocks[i])
    BY <2>1 DEF Holders
  <2>3. pool.refs[blocks[i]] # 0
    BY <1>4, <2>2, HeldBlocks
  <2> QED
    BY <1>3, <1>4, <2>3
<1> QED
  BY <1>5, <1>6, <1>7

\* The allocation of k blocks after a hit, with the pool after each of its
\* steps: the hit is touched, the new blocks are taken, the full ones registered.
Allocating(r, hit, k, u, new, v, blocks) ==
    /\ u = Touch(pool, hit)
    /\ new = NewBlocks(u, k) /\ v = GetNewBlocks(u, k)
    /\ blocks = (hit \o table[r]) \o new

Allocates(r, hit, k, u, new, v, blocks, text, to) ==
    LET known == Len(hit) + cached[r]
    IN  /\ Touchable(pool, hit) /\ Available(u, k) /\ MayCache(v, blocks, known + 1, to)
        /\ new \in Seq(Block) /\ Len(new) = k /\ Distinct(new)
        /\ Extended(r, hit, new, blocks)
        /\ Grown(r, hit, new, blocks, CacheFullBlocks(v, text, blocks, known + 1, to), text, to)

LEMMA Allocation ==
    ASSUME PoolInv, TableInv, SealInv, NEW r \in Req, NEW hit, HitOK(r, hit), NEW k \in Nat,
           k + Cardinality({b \in ToSet(hit) : pool.refs[b] = 0}) <= pool.queue.num,
           NEW u, NEW new, NEW v, NEW blocks, Allocating(r, hit, k, u, new, v, blocks),
           NEW text, NEW to \in Nat, to <= Len(hit) + Len(table[r]) + k
    PROVE  Allocates(r, hit, k, u, new, v, blocks, text, to)
<1> DEFINE known == Len(hit) + cached[r]
           q == CacheFullBlocks(v, text, blocks, known + 1, to)
<1>1. u = Touch(pool, hit) /\ new = NewBlocks(u, k) /\ v = GetNewBlocks(u, k)
      /\ blocks = (hit \o table[r]) \o new
  BY DEF Allocating
<1>2. /\ hit \in Seq(Block) /\ Distinct(hit) /\ Len(hit) \in Nat
      /\ table[r] \in Seq(Block) /\ Len(table[r]) \in Nat
      /\ cached[r] \in Nat /\ cached[r] <= Len(table[r])
  BY DEF HitOK, TableInv
<1>3. known \in Nat
  BY <1>2
<1>4. Touched(pool, u, ToSet(hit)) /\ Touchable(pool, hit)
  BY <1>1, <1>2, TouchAll DEF PoolInv
<1>5. Shape(u) /\ FreeList(u) /\ Indexed(u)
  <2>1. Shape(u) /\ FreeList(u) /\ u.hash = pool.hash /\ u.index = pool.index
    BY <1>4 DEF Touched
  <2> QED
    BY <2>1 DEF PoolInv, Indexed, Registered
<1>6. k <= u.queue.num
  BY <1>2, <1>4, EnoughFree
<1>7. /\ Fresh(u, new, k)
      /\ Shape(v) /\ FreeList(v) /\ Indexed(v) /\ Given(u, v, ToSet(new))
      /\ Keeps(u, v, ToSet(new), {})
  BY <1>1, <1>5, <1>6, GetNew
<1>8. new \in Seq(Block) /\ Len(new) = k /\ Distinct(new) /\ ToSet(new) \subseteq Block
  BY <1>7 DEF Fresh, ToSet
<1>9. \A b \in Block : pool.refs[b] \in Nat
  BY DEF PoolInv, Shape
<1>10. \A b \in ToSet(new) : pool.refs[b] = 0 /\ b \notin ToSet(hit)
  BY <1>4, <1>7, <1>8, <1>9 DEF Fresh, Touched
<1>11. Extended(r, hit, new, blocks)
  BY <1>1, <1>8, <1>10, ExtendedBlocks
<1>12. \A b \in Block : v.refs[b] = IF b \in ToSet(hit) \cup ToSet(new)
                                    THEN pool.refs[b] + 1 ELSE pool.refs[b]
  BY <1>4, <1>7, <1>10 DEF Touched, Given
<1>13. \A b \in Block : v.hash[b] = IF b \in ToSet(new) THEN NoHash ELSE pool.hash[b]
  BY <1>4, <1>7 DEF Touched, Given
<1>14. /\ blocks \in Seq(Block) /\ Len(blocks) = Len(hit) + Len(table[r]) + k /\ Len(blocks) \in Nat
       /\ ToSet(blocks) = ToSet(hit) \cup ToSet(table[r]) \cup ToSet(new)
       /\ DOMAIN blocks = 1 .. Len(blocks)
       /\ \A i, j \in 1 .. Len(blocks) : blocks[i] = blocks[j] => i = j
  BY <1>8, <1>11 DEF Extended, Distinct
<1> HIDE DEF known, q
<1>15. \A i \in known + 1 .. Len(blocks) :
          blocks[i] \in Block /\ v.hash[blocks[i]] = NoHash /\ v.refs[blocks[i]] # 0
  BY <1>8, <1>10, <1>11, <1>12, <1>13, OpenBlocks DEF known
<1>16. \A i \in 1 .. known :
          blocks[i] \in Block /\ blocks[i] \notin ToSet(new) /\ i \in 1 .. Len(blocks)
  BY <1>8, <1>10, <1>11, KeptHashes DEF known
<1>17. \A i \in known + 1 .. to : i \in known + 1 .. Len(blocks) /\ i \in 1 .. Len(blocks)
  BY <1>3, <1>14
<1>18. MayCache(v, blocks, known + 1, to)
  BY <1>15, <1>17 DEF MayCache, Registered
<1>19. Sealed(v, q, text, blocks, known + 1, to)
  <2>1. \A i \in known + 1 .. to : blocks[i] \in Block /\ ~Registered(v, blocks[i])
    BY <1>15, <1>17 DEF Registered
  <2>2. \A i, j \in known + 1 .. to : blocks[i] = blocks[j] => i = j
    BY <1>14, <1>17
  <2>3. known + 1 \in Nat \ {0}
    BY <1>3
  <2> QED
    BY <1>7, <2>1, <2>2, <2>3, CacheAll DEF q
<1>20. FreeList(q)
  <2>1. \A i \in known + 1 .. to : v.refs[blocks[i]] # 0
    BY <1>15, <1>17
  <2> QED
    BY <1>7, <1>19, <2>1, CacheFree
<1>21. /\ Shape(q) /\ Indexed(q) /\ q.refs = v.refs
       /\ \A i \in known + 1 .. to : q.hash[blocks[i]] = Key(text, i)
       /\ \A x \in Block : (\A i \in known + 1 .. to : blocks[i] # x) => q.hash[x] = v.hash[x]
  BY <1>19 DEF Sealed
<1>22. ASSUME NEW i \in known + 1 .. Len(blocks), i > to PROVE q.hash[blocks[i]] = NoHash
  <2>1. i \in 1 .. Len(blocks)
    BY <1>3, <1>14
  <2>2. \A j \in known + 1 .. to : j # i
    BY <1>3, <1>22
  <2>3. \A j \in known + 1 .. to : blocks[j] # blocks[i]
    BY <1>14, <1>17, <2>1, <2>2
  <2> QED
    BY <1>15, <1>21, <2>3
<1>23. ASSUME NEW i \in 1 .. known PROVE q.hash[blocks[i]] = pool.hash[blocks[i]]
  <2>1. \A j \in known + 1 .. to : j # i
    BY <1>3
  <2>2. \A j \in known + 1 .. to : blocks[j] # blocks[i]
    BY <1>14, <1>16, <1>17, <2>1
  <2> QED
    BY <1>13, <1>16, <1>21, <2>2
<1>24. ASSUME NEW b \in Block, b \notin ToSet(blocks) PROVE q.hash[b] = pool.hash[b]
  <2>1. \A j \in known + 1 .. to : blocks[j] # b
    BY <1>14, <1>17, <1>24 DEF ToSet
  <2>2. b \notin ToSet(new)
    BY <1>14, <1>24
  <2> QED
    BY <1>13, <1>21, <2>1, <2>2
<1>27. Keeps(pool, q, ToSet(hit) \cup ToSet(new), ToSet(hit))
  <2>1. Keeps(pool, u, ToSet(hit), ToSet(hit))
    BY <1>4 DEF Touched
  <2>2. Keeps(pool, v, ToSet(hit) \cup ToSet(new), ToSet(hit) \cup {})
    BY <1>7, <2>1, KeepsThrough
  <2>3. q.queue = v.queue
    BY <1>19 DEF Sealed
  <2> QED
    BY <2>2, <2>3 DEF Keeps
<1>25. Grown(r, hit, new, blocks, q, text, to)
  BY <1>10, <1>12, <1>20, <1>21, <1>22, <1>23, <1>24, <1>27 DEF Grown, known
<1>26. Available(u, k)
  BY <1>6 DEF Available
<1> QED
  BY <1>4, <1>8, <1>11, <1>18, <1>25, <1>26 DEF Allocates, known, q

-----------------------------------------------------------------------------
(* Texts and requests. *)

LEMMA TextLength ==
    ASSUME NEW text
    PROVE  text \in Texts <=> text \in Seq(Content) /\ Len(text) <= CeilDiv(MaxLen)
<1>1. CeilDiv(MaxLen) \in Nat
  BY BlocksOf, Sizes
<1> DEFINE top == CeilDiv(MaxLen)
<1> HIDE DEF top
<1>2. ASSUME text \in Texts PROVE text \in Seq(Content) /\ Len(text) <= top
  <2>1. PICK n \in 0 .. top : text \in [1 .. n -> Content]
    BY <1>2 DEF Texts, top
  <2>2. text \in Seq(Content) /\ Len(text) = n
    BY <2>1
  <2> QED
    BY <2>2, <1>1 DEF top
<1>3. ASSUME text \in Seq(Content), Len(text) <= top PROVE text \in Texts
  <2>1. Len(text) \in 0 .. top /\ text \in [1 .. Len(text) -> Content]
    BY <1>1, <1>3 DEF top
  <2> QED
    BY <2>1 DEF Texts, top
<1> QED
  BY <1>2, <1>3 DEF top

LEMMA EmptyText == << >> \in Texts
<1> DEFINE e == << >>
<1>1. e \in Seq(Content) /\ Len(e) = 0
  OBVIOUS
<1>2. CeilDiv(MaxLen) \in Nat
  BY BlocksOf, Sizes
<1> HIDE DEF e
<1>3. e \in Seq(Content) /\ Len(e) <= CeilDiv(MaxLen)
  BY <1>1, <1>2
<1>4. e \in Texts
  BY <1>3, TextLength
<1> QED
  BY <1>4 DEF e

\* The hash of a block tells its place.
LEMMA KeyOf ==
    ASSUME NEW text \in Texts, NEW i \in 0 .. Len(text)
    PROVE  Key(text, i) \in Texts /\ Len(Key(text, i)) = i
<1>1. text \in Seq(Content) /\ Len(text) \in Nat /\ Len(text) <= CeilDiv(MaxLen)
  BY TextLength
<1>2. CeilDiv(MaxLen) \in Nat
  BY BlocksOf, Sizes
<1>3. Key(text, i) \in Seq(Content) /\ Len(Key(text, i)) = i
  BY <1>1 DEF Key
<1> QED
  BY <1>1, <1>2, <1>3, TextLength

\* The hash of a prefix depends on that prefix only.
LEMMA SameKey ==
    ASSUME NEW s \in Seq(Content), NEW t \in Seq(Content), NEW i \in 0 .. Len(s), i <= Len(t),
           \A j \in 1 .. i : s[j] = t[j]
    PROVE  Key(s, i) = Key(t, i)
<1>1. i \in 0 .. Len(t) /\ Len(s) \in Nat /\ Len(t) \in Nat
  OBVIOUS
<1> DEFINE u == SubSeq(s, 1, i)
           v == SubSeq(t, 1, i)
<1>2. u \in Seq(Content) /\ Len(u) = i /\ \A j \in 1 .. i : u[j] = s[j]
  BY <1>1
<1>3. v \in Seq(Content) /\ Len(v) = i /\ \A j \in 1 .. i : v[j] = t[j]
  BY <1>1
<1> HIDE DEF u, v
<1>4. u = v
  BY <1>2, <1>3
<1> QED
  BY <1>4 DEF Key, u, v

LEMMA Extending ==
    ASSUME NEW text \in Texts, NEW n \in Nat, n <= MaxLen, NEW more \in Extensions(text, n)
    PROVE  /\ more \in Texts /\ Len(more) >= Len(text) /\ Len(more) >= CeilDiv(n)
           /\ \A i \in 0 .. Len(text) : Key(more, i) = Key(text, i)
<1>1. text \in Seq(Content) /\ Len(text) \in Nat /\ Len(text) <= CeilDiv(MaxLen)
  BY TextLength
<1>2. CeilDiv(n) \in Nat /\ CeilDiv(MaxLen) \in Nat /\ CeilDiv(n) <= CeilDiv(MaxLen)
  BY BlocksOf, BlocksMonotone, Sizes
<1> DEFINE m == Monus(CeilDiv(n), Len(text))
<1>3. m \in Nat /\ Len(text) + m >= CeilDiv(n) /\ Len(text) + m <= CeilDiv(MaxLen)
  BY <1>1, <1>2 DEF Monus
<1>4. PICK tail \in [1 .. m -> Content] : more = text \o tail
  BY DEF Extensions
<1> HIDE DEF m
<1>5. tail \in Seq(Content) /\ Len(tail) = m
  BY <1>3, <1>4
<1>6. /\ more \in Seq(Content) /\ Len(more) = Len(text) + m
      /\ \A i \in 1 .. Len(text) : more[i] = text[i]
  <2> DEFINE u == text \o tail
  <2>1. u \in Seq(Content) /\ Len(u) = Len(text) + Len(tail)
    BY <1>1, <1>5
  <2>2. ASSUME NEW i \in 1 .. Len(text) PROVE u[i] = text[i]
    <3>1. i \in 1 .. Len(text) + Len(tail)
      BY <1>1, <1>3, <1>5
    <3> QED
      BY <1>1, <1>5, <3>1
  <2> QED
    BY <1>4, <1>5, <2>1, <2>2
<1>7. more \in Texts
  BY <1>3, <1>6, TextLength
<1>8. ASSUME NEW i \in 0 .. Len(text) PROVE Key(more, i) = Key(text, i)
  <2>1. i <= Len(more)
    BY <1>1, <1>3, <1>6
  <2>2. \A j \in 1 .. i : text[j] = more[j]
    BY <1>1, <1>6
  <2> QED
    BY <1>1, <1>6, <2>1, <2>2, SameKey
<1> QED
  BY <1>1, <1>3, <1>6, <1>7, <1>8

\* A text that is cut and goes on differently keeps the hashes before the cut.
LEMMA Rewriting ==
    ASSUME NEW text \in Texts, NEW n \in Nat, n <= MaxLen,
           NEW more \in Extensions(SubSeq(text, 1, Lesser(Len(text), CeilDiv(n))), n)
    PROVE  /\ more \in Texts /\ Len(more) >= CeilDiv(n)
           /\ \A i \in 0 .. Len(text) : i <= CeilDiv(n) => Key(more, i) = Key(text, i)
<1>1. text \in Seq(Content) /\ Len(text) \in Nat /\ Len(text) <= CeilDiv(MaxLen)
  BY TextLength
<1>2. CeilDiv(n) \in Nat /\ CeilDiv(MaxLen) \in Nat
  BY BlocksOf, Sizes
<1> DEFINE m == Lesser(Len(text), CeilDiv(n))
           cut == SubSeq(text, 1, m)
<1>3. m \in 0 .. Len(text) /\ \A i \in 0 .. Len(text) : i <= CeilDiv(n) => i \in 0 .. m
  BY <1>1, <1>2 DEF Lesser
<1> HIDE DEF m
<1>4. /\ cut \in Texts /\ Len(cut) = m
  BY <1>3, KeyOf DEF Key
<1>5. \A j \in 1 .. m : cut[j] = text[j]
  BY <1>1, <1>3
<1>6. more \in Extensions(cut, n)
  BY DEF m
<1> HIDE DEF cut
<1>7. /\ more \in Texts /\ Len(more) >= CeilDiv(n)
      /\ \A i \in 0 .. m : Key(more, i) = Key(cut, i)
  BY <1>4, <1>6, Extending
<1>8. ASSUME NEW i \in 0 .. m PROVE Key(cut, i) = Key(text, i)
  <2>1. cut \in Seq(Content) /\ i \in 0 .. Len(cut) /\ i <= Len(text)
    BY <1>1, <1>3, <1>4, TextLength
  <2>2. \A j \in 1 .. i : cut[j] = text[j]
    BY <1>3, <1>5
  <2> QED
    BY <1>1, <2>1, <2>2, SameKey
<1> QED
  BY <1>3, <1>7, <1>8

\* A request of the scheduler, with its blocks and the number that are cached.
RequestType ==
    [status : {"none", "waiting", "running"}, text : Texts, tokens : Nat, computed : Nat,
     busy : BOOLEAN, due : Nat]

LEMMA NobodyType == Nobody \in RequestType
<1> DEFINE e == << >>
<1>1. Nobody = [status |-> "none", text |-> e, tokens |-> 0, computed |-> 0,
                busy |-> FALSE, due |-> 0]
  BY DEF Nobody
<1>2. e \in Texts
  BY EmptyText
<1> HIDE DEF e
<1> QED
  BY <1>1, <1>2 DEF RequestType

RequestOK(q, blocks, sealed) ==
    /\ q.tokens + q.due <= MaxLen
    /\ CeilDiv(q.tokens) <= Len(q.text) /\ CeilDiv(q.computed) <= Len(q.text)
    /\ sealed <= Filled(q.tokens) /\ sealed <= Filled(q.computed)
    /\ Len(blocks) <= CeilDiv(MaxLen)
    /\ q.status = "none" => ~q.busy
    /\ q.status # "none" => q.tokens > 0
    /\ q.status # "running" => blocks = << >> /\ q.computed = 0
    /\ q.status = "running" =>
          q.due = Monus(q.computed + 1, q.tokens) /\ CeilDiv(q.computed) <= Len(blocks)

RequestInv ==
    /\ request \in [Req -> RequestType]
    /\ \A r \in Req : RequestOK(request[r], table[r], cached[r])

HashInv == \A b \in Block : pool.hash[b] \in Texts

IInv == error = NoError /\ PoolInv /\ TableInv /\ SealInv /\ RequestInv /\ HashInv

-----------------------------------------------------------------------------
(* A hit, and what allocate_slots leaves of the invariant. *)

LEMMA HitLengthOf ==
    ASSUME IInv, NEW r \in Req, request[r].tokens > 0
    PROVE  HitLength(r) \in 0 .. Filled(request[r].tokens - 1)
<1> DEFINE q == request[r]
           max == Filled(q.tokens - 1)
           C(i) == CachedBlocks(pool, Key(q.text, i))
           OK(n) == (\A i \in 1 .. n : C(i) # {}) /\ (n < max => C(n + 1) = {})
           T == {n \in 0 .. max : n < max => C(n + 1) = {}}
<1>1. q \in RequestType
  BY DEF IInv, RequestInv
<1>2. max \in Nat
  <2>1. q.tokens - 1 \in Nat
    BY <1>1 DEF RequestType
  <2> QED
    BY <2>1, BlocksOf
<1> HIDE DEF q, max, C
<1>3. T \in SUBSET Nat /\ max \in T
  BY <1>2
<1>4. PICK n \in T : \A m \in T : n <= m
  BY <1>3, LeastNatural
<1>5. ASSUME NEW i \in 1 .. n PROVE C(i) # {}
  <2>1. n \in 0 .. max
    BY <1>4
  <2>2. i - 1 \in 0 .. max /\ i - 1 < n /\ (i - 1) + 1 = i /\ i - 1 < max
    BY <1>2, <2>1
  <2>3. i - 1 \notin T
    BY <1>4, <2>2
  <2> QED
    BY <2>2, <2>3
<1>6. n \in 0 .. max /\ OK(n)
  BY <1>4, <1>5
<1> DEFINE run == CHOOSE k \in 0 .. max : OK(k)
<1> HIDE DEF OK
<1>7. run \in 0 .. max
  BY <1>6
<1> HIDE DEF run
<1>8. Monus(run, 1) \in 0 .. max
  BY <1>2, <1>7 DEF Monus
<1>9. HitLength(r) = IF useEagle THEN Monus(run, 1) ELSE run
  BY DEF HitLength, run, OK, C, max, q, Filled
<1> QED
  BY <1>7, <1>8, <1>9 DEF max, q

LEMMA HitsAreOK ==
    ASSUME IInv, NEW r \in Req, request[r].status = "waiting", NEW hit \in Hits(r)
    PROVE  /\ HitOK(r, hit) /\ Len(hit) \in Nat
           /\ Len(hit) <= Filled(request[r].tokens - 1)
<1> DEFINE q == request[r]
           n == HitLength(r)
<1>1. q \in RequestType /\ RequestOK(q, table[r], cached[r]) /\ q.tokens \in Nat /\ q.text \in Texts
  BY DEF IInv, RequestInv, RequestType
<1>2. q.tokens > 0 /\ table[r] = << >>
  BY <1>1 DEF RequestOK
<1>3. n \in 0 .. Filled(q.tokens - 1)
  BY <1>2, HitLengthOf
<1>4. Filled(q.tokens - 1) \in Nat /\ Filled(q.tokens - 1) <= CeilDiv(q.tokens) /\ CeilDiv(q.tokens) \in Nat
  <2>1. q.tokens - 1 \in Nat /\ q.tokens - 1 <= q.tokens
    BY <1>1, <1>2
  <2>2. Filled(q.tokens - 1) <= Filled(q.tokens) /\ Filled(q.tokens) <= CeilDiv(q.tokens)
    BY <1>1, <2>1, BlocksMonotone, BlocksOf
  <2>3. Filled(q.tokens - 1) \in Nat /\ Filled(q.tokens) \in Nat /\ CeilDiv(q.tokens) \in Nat
    BY <1>1, <2>1, BlocksOf
  <2> QED
    BY <2>2, <2>3
<1>5. Len(q.text) \in Nat /\ CeilDiv(q.tokens) <= Len(q.text)
  BY <1>1, TextLength DEF RequestOK
<1>6. hit \in [1 .. n -> Block]
      /\ \A i \in 1 .. n : hit[i] \in CachedBlocks(pool, Key(q.text, i))
  BY DEF Hits
<1> HIDE DEF n
<1>7. hit \in Seq(Block) /\ Len(hit) = n /\ n \in Nat
  BY <1>3, <1>4, <1>6
<1> HIDE DEF q
<1>8. ASSUME NEW i \in 1 .. n
      PROVE  pool.hash[hit[i]] = Key(q.text, i) /\ Len(Key(q.text, i)) = i
  <2>1. i \in Nat \ {0} /\ i \in 0 .. Len(q.text)
    BY <1>3, <1>4, <1>5
  <2>2. Key(q.text, i) # NoHash
    BY <2>1, KeyNotEmpty
  <2>3. Indexed(pool)
    BY DEF IInv, PoolInv
  <2>4. CachedBlocks(pool, Key(q.text, i)) = {b \in Block : pool.hash[b] = Key(q.text, i)}
    BY <2>2, <2>3, CachedAre
  <2>5. Len(Key(q.text, i)) = i
    BY <1>1, <2>1, KeyOf
  <2> QED
    BY <1>6, <2>4, <2>5
<1>9. Distinct(hit)
  <2> SUFFICES ASSUME NEW i \in 1 .. n, NEW j \in 1 .. n, hit[i] = hit[j] PROVE i = j
    BY <1>7 DEF Distinct
  <2> QED
    BY <1>8
<1> QED
  BY <1>2, <1>3, <1>4, <1>7, <1>8, <1>9 DEF HitOK, q

LEMMA NoHit ==
    ASSUME NEW r
    PROVE  HitOK(r, << >>) /\ Len(<< >>) = 0
<1>1. << >> \in Seq(Block) /\ Len(<< >>) = 0
  OBVIOUS
<1> QED
  BY <1>1 DEF HitOK, Distinct

\* The blocks of a request grow: what holds before the step, and what it does.
Growing(r, hit, new, blocks, text, to) ==
    /\ HitOK(r, hit) /\ new \in Seq(Block) /\ Extended(r, hit, new, blocks)
    /\ Grown(r, hit, new, blocks, pool', text, to)
    /\ to \in Nat /\ to <= Len(blocks)
    /\ \A i \in 1 .. Len(hit) + cached[r] : Key(text, i) = Key(request[r].text, i)

Grows(r, hit, blocks, text, to) ==
    /\ table' = [table EXCEPT ![r] = blocks]
    /\ cached' = [cached EXCEPT ![r] = IF to > Len(hit) + cached[r] THEN to
                                      ELSE Len(hit) + cached[r]]
    /\ request'[r].text = text
    /\ \A s \in Req : s # r => request'[s].text = request[s].text

\* Where the blocks of a request were before they grew.
LEMMA Origin ==
    ASSUME TableInv, NEW r \in Req, NEW hit, NEW new \in Seq(Block), NEW blocks,
           HitOK(r, hit), Extended(r, hit, new, blocks), NEW i \in 1 .. Len(blocks)
    PROVE  \/ i \in 1 .. Len(hit) /\ blocks[i] = hit[i]
           \/ hit = << >> /\ Len(hit) = 0 /\ i \in 1 .. Len(table[r]) /\ blocks[i] = table[r][i]
           \/ i > Len(hit) + Len(table[r]) /\ blocks[i] \in ToSet(new)
<1> DEFINE h == Len(hit)
           m == Len(table[r])
           n == Len(new)
<1>1. h \in Nat /\ m \in Nat /\ n \in Nat /\ Len(blocks) = h + m + n /\ DOMAIN new = 1 .. n
  BY DEF HitOK, TableInv, Extended
<1>2. /\ \A j \in 1 .. h : blocks[j] = hit[j]
      /\ \A j \in 1 .. m : blocks[h + j] = table[r][j]
      /\ \A j \in 1 .. n : blocks[h + m + j] = new[j]
  BY DEF Extended
<1>3. (hit = << >> /\ h = 0) \/ m = 0
  BY DEF HitOK
<1> HIDE DEF h, m, n
<1>4. CASE i <= h
  <2>1. i \in 1 .. h
    BY <1>1, <1>4
  <2> QED
    BY <1>2, <2>1 DEF h
<1>5. CASE i > h /\ i <= h + m
  <2>1. i - h \in 1 .. m /\ h + (i - h) = i /\ m # 0
    BY <1>1, <1>5
  <2>2. hit = << >> /\ h = 0 /\ i - h = i
    BY <1>1, <1>3, <2>1
  <2> QED
    BY <1>2, <2>1, <2>2 DEF h, m
<1>6. CASE i > h + m
  <2>1. i - (h + m) \in 1 .. n /\ h + m + (i - (h + m)) = i
    BY <1>1, <1>6
  <2>2. blocks[i] = new[i - (h + m)] /\ i - (h + m) \in DOMAIN new
    BY <1>1, <1>2, <2>1
  <2>3. blocks[i] \in ToSet(new)
    BY <2>2 DEF ToSet
  <2> QED
    BY <1>6, <2>3 DEF h, m
<1> QED
  BY <1>1, <1>4, <1>5, <1>6

\* What other requests hold keeps its registration and is not given to r
\* unless it is registered.
LEMMA OthersKeep ==
    ASSUME TableInv, SealInv, NEW r \in Req, NEW hit, NEW new, NEW blocks, NEW text, NEW to,
           Growing(r, hit, new, blocks, text, to), NEW s \in Req, s # r, NEW i \in 1 .. Len(table[s])
    PROVE  /\ table[s][i] \in Block
           /\ pool'.hash[table[s][i]] = pool.hash[table[s][i]]
           /\ ~Registered(pool, table[s][i]) => table[s][i] \notin ToSet(blocks)
           /\ table[s][i] \in ToSet(blocks) =>
                 \E j \in 1 .. Len(hit) + cached[r] : table[s][i] = blocks[j]
<1> DEFINE x == table[s][i]
           known == Len(hit) + cached[r]
<1>1. /\ HitOK(r, hit) /\ new \in Seq(Block) /\ Extended(r, hit, new, blocks)
      /\ Grown(r, hit, new, blocks, pool', text, to)
  BY DEF Growing
<1>2. /\ table[s] \in Seq(Block) /\ table[r] \in Seq(Block) /\ cached[s] \in Nat /\ cached[r] \in Nat
      /\ cached[r] <= Len(table[r]) /\ Len(hit) \in Nat /\ Len(table[s]) \in Nat /\ Len(table[r]) \in Nat
  BY <1>1 DEF TableInv, HitOK
<1>3. x \in Block /\ x \in ToSet(table[s])
  BY <1>2 DEF ToSet
<1>4. x \notin ToSet(new)
  <2>1. s \in Holders(x)
    BY <1>3 DEF Holders
  <2>2. pool.refs[x] # 0
    BY <1>3, <2>1, HeldBlocks
  <2> QED
    BY <1>1, <2>2 DEF Grown
<1>5. ASSUME x \in ToSet(blocks)
      PROVE  Registered(pool, x) /\ \E j \in 1 .. known : x = blocks[j]
  <2>1. PICK j \in 1 .. Len(blocks) : x = blocks[j]
    <3>1. blocks \in Seq(Block)
      BY <1>1 DEF Extended
    <3>2. DOMAIN blocks = 1 .. Len(blocks)
      BY <3>1
    <3> QED
      BY <1>5, <3>2 DEF ToSet
  <2>2. CASE j \in 1 .. Len(hit) /\ blocks[j] = hit[j]
    <3>1. pool.hash[x] = Key(request[r].text, j)
      BY <1>1, <2>1, <2>2 DEF HitOK
    <3>2. Key(request[r].text, j) # NoHash
      BY <1>2, <2>2, KeyNotEmpty
    <3>3. j \in 1 .. known
      BY <1>2, <2>2
    <3> QED
      BY <2>1, <3>1, <3>2, <3>3 DEF Registered
  <2>3. CASE Len(hit) = 0 /\ j \in 1 .. Len(table[r]) /\ blocks[j] = table[r][j]
    <3>1. j \in 1 .. cached[r]
      <4> SUFFICES ASSUME j \notin 1 .. cached[r] PROVE FALSE
        OBVIOUS
      <4>1. j \in cached[r] + 1 .. Len(table[r])
        BY <1>2, <2>3
      <4>2. s = r
        BY <1>3, <2>1, <2>3, <4>1 DEF SealInv
      <4> QED
        BY <4>2
    <3>2. pool.hash[x] = Key(request[r].text, j)
      BY <2>1, <2>3, <3>1 DEF SealInv
    <3>3. Key(request[r].text, j) # NoHash
      BY <1>2, <2>3, KeyNotEmpty
    <3>4. j \in 1 .. known
      BY <1>2, <2>3, <3>1
    <3> QED
      BY <2>1, <3>2, <3>3, <3>4 DEF Registered
  <2> QED
    BY <1>1, <1>4, <2>1, <2>2, <2>3, Origin
<1>6. pool'.hash[x] = pool.hash[x]
  <2>1. CASE x \in ToSet(blocks)
    <3>1. PICK j \in 1 .. known : x = blocks[j]
      BY <1>5, <2>1
    <3> QED
      BY <1>1, <3>1 DEF Grown
  <2>2. CASE x \notin ToSet(blocks)
    BY <1>1, <1>3, <2>2 DEF Grown
  <2> QED
    BY <2>1, <2>2
<1> QED
  BY <1>3, <1>5, <1>6

LEMMA GrownTables ==
    ASSUME TableInv, NEW r \in Req, NEW hit, NEW new, NEW blocks, NEW text, NEW to,
           Growing(r, hit, new, blocks, text, to), Grows(r, hit, blocks, text, to)
    PROVE  TableInv'
<1> DEFINE known == Len(hit) + cached[r]
           more == ToSet(hit) \cup ToSet(new)
<1>1. /\ HitOK(r, hit) /\ new \in Seq(Block) /\ Extended(r, hit, new, blocks)
      /\ Grown(r, hit, new, blocks, pool', text, to) /\ to \in Nat /\ to <= Len(blocks)
  BY DEF Growing
<1>2. /\ table \in [Req -> Seq(Block)] /\ cached \in [Req -> Nat]
      /\ cached[r] \in Nat /\ cached[r] <= Len(table[r]) /\ Len(hit) \in Nat /\ Len(table[r]) \in Nat
      /\ Len(new) \in Nat
  BY <1>1 DEF TableInv, HitOK
<1>3. /\ blocks \in Seq(Block) /\ Distinct(blocks) /\ Len(blocks) = Len(hit) + Len(table[r]) + Len(new)
      /\ ToSet(blocks) = more \cup ToSet(table[r])
  BY <1>1 DEF Extended
<1>4. known \in Nat /\ known <= Len(blocks)
  BY <1>2, <1>3
<1> DEFINE k == IF to > known THEN to ELSE known
<1>5. k \in Nat /\ k <= Len(blocks)
  BY <1>1, <1>4
<1> HIDE DEF known, k
<1>6. /\ table' = [table EXCEPT ![r] = blocks] /\ cached' = [cached EXCEPT ![r] = k]
  BY DEF Grows, k, known
<1>7. table' \in [Req -> Seq(Block)] /\ cached' \in [Req -> Nat]
  BY <1>2, <1>3, <1>5, <1>6
<1>8. ASSUME NEW s \in Req PROVE Distinct(table'[s]) /\ cached'[s] <= Len(table'[s])
  <2>1. CASE s = r
    <3>1. table'[s] = blocks /\ cached'[s] = k
      BY <1>2, <1>6, <2>1
    <3> QED
      BY <1>3, <1>5, <3>1
  <2>2. CASE s # r
    <3>1. table'[s] = table[s] /\ cached'[s] = cached[s]
      BY <1>2, <1>6, <2>2
    <3> QED
      BY <3>1 DEF TableInv
  <2> QED
    BY <2>1, <2>2
<1>9. ASSUME NEW b \in Block PROVE pool'.refs[b] = Cardinality(Holders(b)')
  <2>1. /\ \A s \in Req : s # r => (b \in ToSet(table'[s]) <=> b \in ToSet(table[s]))
        /\ b \in ToSet(table'[r]) <=> b \in more \/ b \in ToSet(table[r])
    <3>1. \A s \in Req : table'[s] = IF s = r THEN blocks ELSE table[s]
      BY <1>2, <1>6
    <3> QED
      BY <1>3, <3>1
  <2>2. pool.refs[b] = Cardinality(Holders(b)) /\ IsFiniteSet(Holders(b))
    BY HeldBlocks DEF TableInv
  <2>3. CASE b \in more
    <3>1. r \notin Holders(b)
      <4>1. CASE b \in ToSet(hit)
        <5>1. hit # << >>
          BY <4>1 DEF ToSet
        <5>2. table[r] = << >>
          BY <1>1, <5>1 DEF HitOK
        <5> QED
          BY <5>2 DEF Holders, ToSet
      <4>2. CASE b \in ToSet(new)
        <5>1. pool.refs[b] = 0
          BY <1>1, <4>2 DEF Grown
        <5> QED
          BY <5>1, HeldBlocks
      <4> QED
        BY <2>3, <4>1, <4>2
    <3>2. Holders(b)' = Holders(b) \cup {r}
      BY <2>1, <2>3 DEF Holders
    <3>3. Cardinality(Holders(b) \cup {r}) = Cardinality(Holders(b)) + 1
      BY <2>2, <3>1, FS_AddElement
    <3>4. pool'.refs[b] = pool.refs[b] + 1
      BY <1>1, <2>3 DEF Grown
    <3> QED
      BY <2>2, <3>2, <3>3, <3>4
  <2>4. CASE b \notin more
    <3>1. Holders(b)' = Holders(b)
      BY <2>1, <2>4 DEF Holders
    <3>2. pool'.refs[b] = pool.refs[b]
      BY <1>1, <2>4 DEF Grown
    <3> QED
      BY <2>2, <3>1, <3>2
  <2> QED
    BY <2>3, <2>4
<1> QED
  BY <1>7, <1>8, <1>9 DEF TableInv

LEMMA GrownSeals ==
    ASSUME TableInv, SealInv, NEW r \in Req, NEW hit, NEW new, NEW blocks, NEW text, NEW to,
           Growing(r, hit, new, blocks, text, to), Grows(r, hit, blocks, text, to)
    PROVE  SealInv'
<1> DEFINE h == Len(hit)
           known == h + cached[r]
           k == IF to > known THEN to ELSE known
<1>1. /\ HitOK(r, hit) /\ new \in Seq(Block) /\ Extended(r, hit, new, blocks)
      /\ Grown(r, hit, new, blocks, pool', text, to) /\ to \in Nat /\ to <= Len(blocks)
      /\ \A i \in 1 .. known : Key(text, i) = Key(request[r].text, i)
  BY DEF Growing
<1>2. /\ table \in [Req -> Seq(Block)] /\ cached \in [Req -> Nat]
      /\ cached[r] \in Nat /\ cached[r] <= Len(table[r]) /\ h \in Nat /\ Len(table[r]) \in Nat
  BY <1>1 DEF TableInv, HitOK
<1>3. /\ blocks \in Seq(Block) /\ Len(blocks) \in Nat /\ DOMAIN blocks = 1 .. Len(blocks)
  BY <1>1 DEF Extended
<1>4. /\ \A s \in Req : table'[s] = IF s = r THEN blocks ELSE table[s]
      /\ \A s \in Req : cached'[s] = IF s = r THEN k ELSE cached[s]
      /\ request'[r].text = text
      /\ \A s \in Req : s # r => request'[s].text = request[s].text
  BY <1>2 DEF Grows
<1>5. known \in Nat /\ k \in Nat /\ k >= known /\ k >= to /\ (k = to \/ k = known)
  BY <1>1, <1>2
<1>6. /\ \A i \in known + 1 .. to : pool'.hash[blocks[i]] = Key(text, i)
      /\ \A i \in known + 1 .. Len(blocks) : i > to => pool'.hash[blocks[i]] = NoHash
      /\ \A i \in 1 .. known : pool'.hash[blocks[i]] = pool.hash[blocks[i]]
      /\ \A b \in ToSet(new) : pool.refs[b] = 0 /\ b \notin ToSet(hit)
  BY <1>1 DEF Grown
<1>7. known <= Len(blocks)
  BY <1>1, <1>2 DEF Extended
<1> HIDE DEF known, k
<1>8. ASSUME NEW i \in 1 .. k PROVE pool'.hash[blocks[i]] = Key(text, i)
  <2>1. CASE i \in known + 1 .. to
    BY <1>6, <2>1
  <2>2. CASE i \in 1 .. known
    <3>1. i \in 1 .. Len(blocks)
      BY <1>3, <1>5, <1>7, <2>2
    <3>2. CASE i \in 1 .. h /\ blocks[i] = hit[i]
      <4>1. pool.hash[hit[i]] = Key(request[r].text, i)
        BY <1>1, <3>2 DEF HitOK
      <4> QED
        BY <1>1, <1>6, <2>2, <3>2, <4>1
    <3>3. CASE h = 0 /\ i \in 1 .. Len(table[r]) /\ blocks[i] = table[r][i]
      <4>1. i \in 1 .. cached[r]
        BY <1>2, <2>2, <3>3 DEF known
      <4>2. pool.hash[table[r][i]] = Key(request[r].text, i)
        BY <4>1 DEF SealInv
      <4> QED
        BY <1>1, <1>6, <2>2, <3>3, <4>2
    <3>4. ~(i > h + Len(table[r]))
      BY <1>2, <2>2 DEF known
    <3> QED
      BY <1>1, <3>1, <3>2, <3>3, <3>4, Origin
  <2>3. i \in 1 .. known \/ i \in known + 1 .. to
    BY <1>1, <1>5
  <2> QED
    BY <2>1, <2>2, <2>3
<1>9. ASSUME NEW i \in k + 1 .. Len(blocks)
      PROVE  /\ pool'.hash[blocks[i]] = NoHash
             /\ \A s \in Req : blocks[i] \in ToSet(table'[s]) => s = r
  <2>1. i \in known + 1 .. Len(blocks) /\ i > to /\ i \in 1 .. Len(blocks) /\ i > known
    BY <1>1, <1>3, <1>5
  <2>2. pool'.hash[blocks[i]] = NoHash
    BY <1>6, <2>1
  <2>3. ASSUME NEW s \in Req, s # r, blocks[i] \in ToSet(table'[s]) PROVE FALSE
    <3>0. blocks[i] \in ToSet(table[s]) /\ blocks[i] \in Block
      BY <1>3, <1>4, <2>1, <2>3
    <3>1. CASE i \in 1 .. h
      BY <1>2, <2>1, <3>1 DEF known
    <3>2. CASE h = 0 /\ i \in 1 .. Len(table[r]) /\ blocks[i] = table[r][i]
      <4>1. i \in cached[r] + 1 .. Len(table[r])
        BY <1>2, <2>1, <3>2 DEF known
      <4>2. s = r
        BY <3>0, <3>2, <4>1 DEF SealInv
      <4> QED
        BY <2>3, <4>2
    <3>3. CASE blocks[i] \in ToSet(new)
      <4>1. s \in Holders(blocks[i])
        BY <3>0 DEF Holders
      <4> QED
        BY <1>6, <3>0, <3>3, <4>1, HeldBlocks
    <3> QED
      BY <1>1, <2>1, <3>1, <3>2, <3>3, Origin
  <2> QED
    BY <2>2, <2>3
<1>10. ASSUME NEW s \in Req
       PROVE  /\ \A i \in 1 .. cached'[s] : pool'.hash[table'[s][i]] = Key(request'[s].text, i)
              /\ \A i \in cached'[s] + 1 .. Len(table'[s]) :
                    /\ pool'.hash[table'[s][i]] = NoHash
                    /\ \A x \in Req : table'[s][i] \in ToSet(table'[x]) => x = s
  <2>1. CASE s = r
    <3>1. cached'[s] = k /\ table'[s] = blocks /\ request'[s].text = text
      BY <1>4, <2>1
    <3> QED
      BY <1>8, <1>9, <2>1, <3>1
  <2>2. CASE s # r
    <3>1. cached'[s] = cached[s] /\ table'[s] = table[s] /\ request'[s].text = request[s].text
      BY <1>4, <2>2
    <3>2. cached[s] \in Nat /\ cached[s] <= Len(table[s]) /\ Len(table[s]) \in Nat
      BY DEF TableInv
    <3>3. ASSUME NEW i \in 1 .. Len(table[s])
          PROVE  /\ pool'.hash[table[s][i]] = pool.hash[table[s][i]]
                 /\ ~Registered(pool, table[s][i]) => table[s][i] \notin ToSet(blocks)
      BY <2>2, OthersKeep
    <3>4. ASSUME NEW i \in 1 .. cached[s] PROVE pool'.hash[table[s][i]] = Key(request[s].text, i)
      <4>1. i \in 1 .. Len(table[s])
        BY <3>2
      <4> QED
        BY <3>3, <4>1 DEF SealInv
    <3>5. ASSUME NEW i \in cached[s] + 1 .. Len(table[s])
          PROVE  /\ pool'.hash[table[s][i]] = NoHash
                 /\ \A x \in Req : table[s][i] \in ToSet(table'[x]) => x = s
      <4>1. i \in 1 .. Len(table[s])
        BY <3>2
      <4>2. pool.hash[table[s][i]] = NoHash /\ table[s][i] \notin ToSet(blocks)
        BY <3>3, <4>1 DEF SealInv, Registered
      <4>3. \A x \in Req : table[s][i] \in ToSet(table[x]) => x = s
        BY DEF SealInv
      <4>4. \A x \in Req : table[s][i] \in ToSet(table'[x]) => x # r /\ table'[x] = table[x]
        BY <1>4, <4>2
      <4> QED
        BY <3>3, <4>1, <4>2, <4>3, <4>4
    <3> QED
      BY <3>1, <3>4, <3>5
  <2> QED
    BY <2>1, <2>2
<1> QED
  BY <1>10 DEF SealInv, Registered

LEMMA GrownHashes ==
    ASSUME TableInv, HashInv, NEW r \in Req, NEW hit, NEW new, NEW blocks, NEW text \in Texts,
           NEW to, Growing(r, hit, new, blocks, text, to), to <= Len(text)
    PROVE  HashInv'
<1> DEFINE known == Len(hit) + cached[r]
<1>1. /\ HitOK(r, hit) /\ Extended(r, hit, new, blocks) /\ to \in Nat
      /\ Grown(r, hit, new, blocks, pool', text, to)
  BY DEF Growing
<1>2. known \in Nat /\ Len(text) \in Nat
  BY <1>1, TextLength DEF HitOK, TableInv
<1>3. /\ \A i \in known + 1 .. to : pool'.hash[blocks[i]] = Key(text, i)
      /\ \A i \in known + 1 .. Len(blocks) : i > to => pool'.hash[blocks[i]] = NoHash
      /\ \A i \in 1 .. known : pool'.hash[blocks[i]] = pool.hash[blocks[i]]
      /\ \A b \in Block : b \notin ToSet(blocks) => pool'.hash[b] = pool.hash[b]
  BY <1>1 DEF Grown
<1>4. blocks \in Seq(Block) /\ Len(blocks) \in Nat /\ DOMAIN blocks = 1 .. Len(blocks)
  BY <1>1 DEF Extended
<1> HIDE DEF known
<1>5. << >> \in Texts
  BY EmptyText
<1>6. ASSUME NEW b \in Block PROVE pool'.hash[b] \in Texts
  <2>1. CASE b \notin ToSet(blocks)
    BY <1>3, <2>1 DEF HashInv
  <2>2. CASE b \in ToSet(blocks)
    <3>1. PICK i \in 1 .. Len(blocks) : b = blocks[i]
      BY <1>4, <2>2 DEF ToSet
    <3>2. CASE i \in 1 .. known
      BY <1>3, <3>1, <3>2 DEF HashInv
    <3>3. CASE i \in known + 1 .. to
      <4>1. i \in 0 .. Len(text)
        BY <1>1, <1>2, <3>3
      <4>2. Key(text, i) \in Texts
        BY <4>1, KeyOf
      <4> QED
        BY <1>3, <3>1, <3>3, <4>2
    <3>4. CASE i \in known + 1 .. Len(blocks) /\ i > to
      BY <1>3, <1>5, <3>1, <3>4 DEF NoHash
    <3> QED
      BY <1>1, <1>2, <1>4, <3>2, <3>3, <3>4
  <2> QED
    BY <2>1, <2>2
<1> QED
  BY <1>6 DEF HashInv

\* What a call of allocate_slots starts from.
Room(r, hit, start, n, slots, text) ==
    /\ HitOK(r, hit) /\ request[r].status # "none" /\ request[r].tokens < MaxLen
    /\ start \in Nat /\ n \in Nat \ {0} /\ start + n < MaxLen /\ slots \in Slots(start + n)
    /\ Len(hit) + cached[r] <= Filled(start) /\ Len(hit) + cached[r] <= Filled(request[r].tokens)
    /\ text \in Texts /\ Len(text) >= CeilDiv(start + n) /\ Len(text) >= Len(request[r].text)
    /\ \A i \in 1 .. Len(hit) + cached[r] : Key(text, i) = Key(request[r].text, i)
    /\ \A i \in 0 .. Len(request[r].text) : Key(text, i) = Key(request[r].text, i)
    /\ \/ start = Len(hit) * BlockSize
       \/ Len(hit) = 0 /\ start = request[r].computed

LEMMA RoomOf ==
    ASSUME IInv, NEW r \in Req, NEW hit, NEW start, NEW n, NEW slots, NEW text,
           Room(r, hit, start, n, slots, text), NEW k, NEW to,
           k = Monus(CeilDiv(slots), Len(hit) + Len(table[r])),
           to = Filled(Commit(r, start + n))
    PROVE  /\ k \in Nat /\ to \in Nat
           /\ to <= Len(hit) + Len(table[r]) + k /\ to <= Len(text)
           /\ CeilDiv(start + n) <= Len(hit) + Len(table[r]) + k
           /\ Len(hit) + Len(table[r]) + k <= CeilDiv(MaxLen)
           /\ to <= Filled(request[r].tokens) /\ to <= Filled(start + n)
           /\ Len(hit) + cached[r] <= Filled(start + n)
           /\ start + n \in Nat
<1> DEFINE end == start + n
           tokens == request[r].tokens
           h == Len(hit)
           m == Len(table[r])
<1>1. /\ HitOK(r, hit) /\ tokens < MaxLen /\ start \in Nat /\ n \in Nat \ {0} /\ end < MaxLen
      /\ slots \in Slots(end) /\ h + cached[r] <= Filled(start)
      /\ text \in Texts /\ Len(text) >= CeilDiv(end) /\ Len(text) >= Len(request[r].text)
  BY DEF Room
<1>2. /\ request[r] \in RequestType /\ RequestOK(request[r], table[r], cached[r])
  BY DEF IInv, RequestInv
<1>3. tokens \in Nat /\ end \in Nat /\ start <= end
  BY <1>1, <1>2 DEF RequestType
<1>4. h \in Nat /\ m \in Nat /\ cached[r] \in Nat /\ cached[r] <= m
  BY <1>1 DEF IInv, TableInv, HitOK
<1>5. m <= CeilDiv(MaxLen) /\ CeilDiv(tokens) <= Len(request[r].text)
  BY <1>2 DEF RequestOK
<1>6. Len(text) \in Nat /\ Len(request[r].text) \in Nat
  <2>1. request[r].text \in Texts
    BY <1>2 DEF RequestType
  <2> QED
    BY <1>1, <2>1, TextLength
<1>7. hit = << >> \/ m = 0
  BY <1>1 DEF HitOK
<1>8. hit = << >> => h = 0
  OBVIOUS
<1> HIDE DEF end, tokens, h, m
<1>9. slots \in Nat /\ end <= slots /\ slots <= MaxLen
  <2>1. PICK look \in {0, Lookahead} : slots = Lesser(end + look, MaxLen)
    BY <1>1 DEF Slots
  <2>2. look \in Nat /\ MaxLen \in Nat
    BY <2>1, Sizes
  <2> QED
    BY <1>1, <1>3, <2>1, <2>2 DEF Lesser
<1>10. MaxLen \in Nat
  BY Sizes
<1>11. /\ CeilDiv(slots) \in Nat /\ CeilDiv(end) \in Nat /\ CeilDiv(MaxLen) \in Nat
       /\ Filled(start) \in Nat /\ Filled(end) \in Nat /\ Filled(tokens) \in Nat /\ CeilDiv(tokens) \in Nat
  BY <1>1, <1>3, <1>9, <1>10, BlocksOf
<1>12. /\ CeilDiv(end) <= CeilDiv(slots) /\ CeilDiv(slots) <= CeilDiv(MaxLen)
       /\ Filled(start) <= Filled(end)
  BY <1>1, <1>3, <1>9, <1>10, BlocksMonotone
<1>13. Filled(end) <= CeilDiv(end) /\ Filled(tokens) <= CeilDiv(tokens)
  BY <1>3, BlocksOf
<1>14. /\ Commit(r, start + n) \in Nat /\ Commit(r, start + n) <= end /\ Commit(r, start + n) <= tokens
  BY <1>3 DEF Commit, Lesser, end, tokens
<1>15. to \in Nat /\ to <= Filled(end) /\ to <= Filled(tokens)
  BY <1>3, <1>14, BlocksOf, BlocksMonotone
<1>16. k = Monus(CeilDiv(slots), h + m)
  BY DEF h, m
<1>17. k \in Nat /\ CeilDiv(slots) <= h + m + k /\ (h + m + k = CeilDiv(slots) \/ k = 0)
  <2> DEFINE x == CeilDiv(slots)
  <2>1. x \in Nat /\ k = Monus(x, h + m)
    BY <1>11, <1>16
  <2> HIDE DEF x
  <2>2. k \in Nat /\ x <= h + m + k /\ (h + m + k = x \/ k = 0)
    BY <1>4, <2>1 DEF Monus
  <2> QED
    BY <2>2 DEF x
<1>18. h <= CeilDiv(MaxLen)
  BY <1>1, <1>4, <1>11, <1>12, <1>13
<1>19. h + m + k <= CeilDiv(MaxLen)
  <2>1. h + m <= CeilDiv(MaxLen)
    BY <1>4, <1>5, <1>7, <1>8, <1>11, <1>18
  <2> QED
    BY <1>4, <1>11, <1>12, <1>17, <2>1
<1>20. to <= h + m + k /\ CeilDiv(end) <= h + m + k
  BY <1>4, <1>11, <1>12, <1>13, <1>15, <1>17
<1>21. to <= Len(text)
  BY <1>1, <1>6, <1>11, <1>13, <1>15
<1>22. h + cached[r] <= Filled(end)
  BY <1>1, <1>4, <1>11, <1>12
<1> QED
  BY <1>3, <1>15, <1>17, <1>19, <1>20, <1>21, <1>22 DEF end, tokens, h, m

\* A call of allocate_slots does not fail; the request runs, with what it got.
Granted(r, hit, start, n, slots, text) ==
    \E new, blocks :
        LET to == Filled(Commit(r, start + n))
        IN  /\ Len(blocks) = Len(hit) + Len(table[r]) + Monus(CeilDiv(slots), Len(hit) + Len(table[r]))
            /\ Growing(r, hit, new, blocks, text, to)
            /\ Grows(r, hit, blocks, text, to)
            /\ rows' = Written([b \in Block |-> IF b \in ToSet(new) THEN NoRows ELSE rows[b]],
                               text, blocks, start, start + n)
            /\ request' = [request EXCEPT
                  ![r] = [status |-> "running", text |-> text, tokens |-> request[r].tokens,
                          computed |-> start + n, busy |-> TRUE,
                          due |-> Monus(start + n + 1, request[r].tokens)]]
            /\ error' = NoError

LEMMA AllocateGrants ==
    ASSUME IInv, NEW r \in Req, NEW hit, NEW start, NEW n, NEW slots, NEW text,
           Room(r, hit, start, n, slots, text), AllocateSlots(r, hit, start, n, slots, text)
    PROVE  Granted(r, hit, start, n, slots, text)
<1> DEFINE base    == hit \o table[r]
           known   == Len(hit) + cached[r]
           k       == Monus(CeilDiv(slots), Len(base))
           u       == Touch(pool, hit)
           new     == NewBlocks(u, k)
           v       == GetNewBlocks(u, k)
           blocks  == base \o new
           to      == Filled(Commit(r, start + n))
           q       == CacheFullBlocks(v, text, blocks, known + 1, to)
<1>1. PoolInv /\ TableInv /\ SealInv /\ RequestInv /\ error = NoError
  BY DEF IInv
<1>2. HitOK(r, hit) /\ hit \in Seq(Block) /\ table[r] \in Seq(Block)
  BY <1>1 DEF Room, HitOK, TableInv
<1>3. Len(base) = Len(hit) + Len(table[r])
  BY <1>2
<1>4. /\ k \in Nat /\ to \in Nat /\ to <= Len(hit) + Len(table[r]) + k
  BY <1>3, RoomOf
<1>5. k + Cardinality({b \in ToSet(hit) : pool.refs[b] = 0}) <= pool.queue.num
  <2>1. ToAllocate(r, hit, slots) <= pool.queue.num
    BY DEF AllocateSlots, Fits
  <2> QED
    BY <1>3, <2>1 DEF ToAllocate
<1>6. Allocating(r, hit, k, u, new, v, blocks)
  BY DEF Allocating
<1>7. /\ Fits(r, hit, slots)
      /\ IF ~Touchable(pool, hit) THEN Fail("remove")
         ELSE IF ~Available(u, k) THEN Fail("no free blocks")
         ELSE IF ~MayCache(v, blocks, known + 1, to) THEN Fail("assertion")
         ELSE /\ CacheBlocks(r, v, text, blocks, known, Commit(r, start + n))
              /\ table' = [table EXCEPT ![r] = blocks]
              /\ rows' = Written([b \in Block |-> IF b \in ToSet(new) THEN NoRows ELSE rows[b]],
                                 text, blocks, start, start + n)
              /\ request' = [request EXCEPT
                    ![r] = [status |-> "running", text |-> text, tokens |-> request[r].tokens,
                            computed |-> start + n, busy |-> TRUE,
                            due |-> Monus(start + n + 1, request[r].tokens)]]
              /\ error' = error
  BY DEF AllocateSlots, Filled
<1> HIDE DEF k, u, new, v, blocks, to, base
<1>8. Allocates(r, hit, k, u, new, v, blocks, text, to)
  BY <1>1, <1>2, <1>4, <1>5, <1>6, Allocation
<1>9. /\ Touchable(pool, hit) /\ Available(u, k) /\ MayCache(v, blocks, known + 1, to)
      /\ new \in Seq(Block) /\ Len(new) = k /\ Extended(r, hit, new, blocks)
      /\ Grown(r, hit, new, blocks, q, text, to)
  BY <1>8 DEF Allocates
<1>10. /\ CacheBlocks(r, v, text, blocks, known, Commit(r, start + n))
       /\ table' = [table EXCEPT ![r] = blocks]
       /\ rows' = Written([b \in Block |-> IF b \in ToSet(new) THEN NoRows ELSE rows[b]],
                          text, blocks, start, start + n)
       /\ request' = [request EXCEPT
             ![r] = [status |-> "running", text |-> text, tokens |-> request[r].tokens,
                     computed |-> start + n, busy |-> TRUE,
                     due |-> Monus(start + n + 1, request[r].tokens)]]
       /\ error' = error
  BY <1>7, <1>9
<1>11. /\ pool' = q
       /\ cached' = [cached EXCEPT ![r] = IF to > known THEN to ELSE known]
  BY <1>10 DEF CacheBlocks, q, to, Filled
<1> HIDE DEF q
<1>12. request \in [Req -> RequestType]
  BY <1>1 DEF RequestInv
<1>13. Len(blocks) = Len(hit) + Len(table[r]) + k
  BY <1>9 DEF Extended
<1>14. Growing(r, hit, new, blocks, text, to)
  BY <1>2, <1>4, <1>9, <1>11, <1>13 DEF Growing, Room
<1>15. Grows(r, hit, blocks, text, to)
  <2>1. request'[r].text = text /\ \A s \in Req : s # r => request'[s].text = request[s].text
    BY <1>10, <1>12
  <2> QED
    BY <1>10, <1>11, <2>1 DEF Grows
<1>16. Len(blocks) = Len(hit) + Len(table[r]) + Monus(CeilDiv(slots), Len(hit) + Len(table[r]))
  BY <1>3, <1>13 DEF k
<1> HIDE DEF known
<1> QED
  BY <1>1, <1>10, <1>14, <1>15, <1>16 DEF Granted, to

LEMMA AllocateKeeps ==
    ASSUME IInv, NEW r \in Req, NEW hit, NEW start, NEW n, NEW slots, NEW text,
           Room(r, hit, start, n, slots, text), AllocateSlots(r, hit, start, n, slots, text)
    PROVE  IInv'
<1> DEFINE to == Filled(Commit(r, start + n))
           q == request[r]
           k == Monus(CeilDiv(slots), Len(hit) + Len(table[r]))
<1>1. PoolInv /\ TableInv /\ SealInv /\ RequestInv /\ HashInv
  BY DEF IInv
<1>2. Granted(r, hit, start, n, slots, text)
  BY AllocateGrants
<1>3. PICK new, blocks :
        /\ Len(blocks) = Len(hit) + Len(table[r]) + k
        /\ Growing(r, hit, new, blocks, text, to)
        /\ Grows(r, hit, blocks, text, to)
        /\ request' = [request EXCEPT
              ![r] = [status |-> "running", text |-> text, tokens |-> q.tokens,
                      computed |-> start + n, busy |-> TRUE,
                      due |-> Monus(start + n + 1, q.tokens)]]
        /\ error' = NoError
  BY <1>2 DEF Granted
<1>4. /\ k \in Nat /\ to \in Nat /\ to <= Len(text)
      /\ CeilDiv(start + n) <= Len(hit) + Len(table[r]) + k
      /\ Len(hit) + Len(table[r]) + k <= CeilDiv(MaxLen)
      /\ to <= Filled(q.tokens) /\ to <= Filled(start + n)
      /\ Len(hit) + cached[r] <= Filled(start + n)
      /\ start + n \in Nat
  BY RoomOf
<1>5. /\ text \in Texts /\ Len(text) >= CeilDiv(start + n) /\ Len(text) >= Len(q.text)
      /\ q.tokens < MaxLen /\ start + n < MaxLen /\ Len(hit) + cached[r] <= Filled(q.tokens)
  BY DEF Room
<1> HIDE DEF to, k
<1>6. PoolInv'
  BY <1>3 DEF Growing, Grown, PoolInv
<1>7. TableInv'
  BY <1>1, <1>3, GrownTables
<1>8. SealInv'
  BY <1>1, <1>3, GrownSeals
<1>9. HashInv'
  BY <1>1, <1>3, <1>4, <1>5, GrownHashes
<1>10. q \in RequestType /\ RequestOK(q, table[r], cached[r])
  BY <1>1 DEF RequestInv
<1>11. q.tokens \in Nat /\ q.text \in Texts /\ Len(q.text) \in Nat /\ Len(text) \in Nat
  <2>1. q.tokens \in Nat /\ q.text \in Texts
    BY <1>10 DEF RequestType
  <2> QED
    BY <1>5, <2>1, TextLength
<1> DEFINE z == [status |-> "running", text |-> text, tokens |-> q.tokens, computed |-> start + n,
                 busy |-> TRUE, due |-> Monus(start + n + 1, q.tokens)]
<1>12. Monus(start + n + 1, q.tokens) \in Nat /\ q.tokens + Monus(start + n + 1, q.tokens) <= MaxLen
  BY <1>4, <1>5, <1>11, Sizes DEF Monus
<1>13. z \in RequestType
  BY <1>4, <1>5, <1>11, <1>12 DEF RequestType
<1>14. request \in [Req -> RequestType] /\ request' = [request EXCEPT ![r] = z]
  BY <1>1, <1>3 DEF RequestInv
<1>15. /\ table \in [Req -> Seq(Block)] /\ cached \in [Req -> Nat]
       /\ table' = [table EXCEPT ![r] = blocks]
       /\ cached' = [cached EXCEPT ![r] = IF to > Len(hit) + cached[r] THEN to
                                         ELSE Len(hit) + cached[r]]
  BY <1>1, <1>3 DEF TableInv, Grows
<1>16. RequestOK(z, blocks, cached'[r])
  <2>1. z.tokens + z.due <= MaxLen
    BY <1>12
  <2>2. CeilDiv(z.tokens) <= Len(z.text)
    <3>1. CeilDiv(q.tokens) <= Len(q.text) /\ CeilDiv(q.tokens) \in Nat
      BY <1>10, <1>11, BlocksOf DEF RequestOK
    <3> QED
      BY <1>5, <1>11, <3>1
  <2>3. CeilDiv(z.computed) <= Len(z.text)
    BY <1>5
  <2>4. cached'[r] <= Filled(z.tokens) /\ cached'[r] <= Filled(z.computed)
    <3>1. cached'[r] = IF to > Len(hit) + cached[r] THEN to ELSE Len(hit) + cached[r]
      BY <1>15
    <3> QED
      BY <1>4, <1>5, <3>1
  <2>5. Len(blocks) <= CeilDiv(MaxLen) /\ CeilDiv(z.computed) <= Len(blocks)
    BY <1>3, <1>4
  <2>6. z.tokens > 0
    <3>1. q.status # "none"
      BY DEF Room
    <3> QED
      BY <1>10, <3>1 DEF RequestOK
  <2>7. z.status = "running" /\ z.due = Monus(z.computed + 1, z.tokens)
    OBVIOUS
  <2> HIDE DEF z
  <2> QED
    BY <2>1, <2>2, <2>3, <2>4, <2>5, <2>6, <2>7 DEF RequestOK
<1> HIDE DEF z, q
<1>17. RequestInv'
  <2>1. request' \in [Req -> RequestType]
    BY <1>13, <1>14
  <2>2. ASSUME NEW s \in Req PROVE RequestOK(request'[s], table'[s], cached'[s])
    <3>1. CASE s = r
      <4>1. request'[s] = z /\ table'[s] = blocks /\ cached'[s] = cached'[r]
        BY <1>14, <1>15, <3>1
      <4> QED
        BY <1>16, <4>1
    <3>2. CASE s # r
      <4>1. request'[s] = request[s] /\ table'[s] = table[s] /\ cached'[s] = cached[s]
        BY <1>14, <1>15, <3>2
      <4> QED
        BY <1>1, <4>1 DEF RequestInv
    <3> QED
      BY <3>1, <3>2
  <2> QED
    BY <2>1, <2>2 DEF RequestInv
<1> QED
  BY <1>3, <1>6, <1>7, <1>8, <1>9, <1>17 DEF IInv

-----------------------------------------------------------------------------
(* The steps. *)

\* A step of one request.
LEMMA OneRequest ==
    ASSUME RequestInv, TableInv, NEW r \in Req, NEW z \in RequestType,
           request' = [request EXCEPT ![r] = z], RequestOK(z, table'[r], cached'[r]),
           \A s \in Req : s # r => table'[s] = table[s] /\ cached'[s] = cached[s]
    PROVE  RequestInv'
<1>1. request \in [Req -> RequestType]
  BY DEF RequestInv
<1>2. request' \in [Req -> RequestType]
      /\ \A s \in Req : request'[s] = IF s = r THEN z ELSE request[s]
  BY <1>1
<1>3. ASSUME NEW s \in Req PROVE RequestOK(request'[s], table'[s], cached'[s])
  <2>1. CASE s = r
    BY <1>2, <2>1
  <2>2. CASE s # r
    <3>1. request'[s] = request[s] /\ table'[s] = table[s] /\ cached'[s] = cached[s]
      BY <1>2, <2>2
    <3> QED
      BY <3>1 DEF RequestInv
  <2> QED
    BY <2>1, <2>2
<1> QED
  BY <1>2, <1>3 DEF RequestInv

\* A step that leaves the pool and the blocks alone, and of each text what the
\* cached blocks are registered for.
LEMMA SameBlocks ==
    ASSUME PoolInv, TableInv, SealInv, HashInv, UNCHANGED <<pool, table, cached>>,
           \A s \in Req : \A i \in 1 .. cached[s] : Key(request'[s].text, i) = Key(request[s].text, i)
    PROVE  PoolInv' /\ TableInv' /\ SealInv' /\ HashInv'
<1>1. PoolInv' /\ HashInv'
  BY DEF PoolInv, HashInv
<1>2. TableInv'
  <2>1. \A b : Holders(b)' = Holders(b)
    BY DEF Holders
  <2> QED
    BY <2>1 DEF TableInv
<1>3. SealInv'
  BY DEF SealInv
<1> QED
  BY <1>1, <1>2, <1>3

LEMMA ArriveKeeps ==
    ASSUME IInv, NEW r \in Req, Arrive(r)
    PROVE  IInv'
<1> DEFINE q == request[r]
<1>1. PoolInv /\ TableInv /\ SealInv /\ RequestInv /\ HashInv /\ error = NoError
  BY DEF IInv
<1>2. PICK n \in 1 .. MaxLen - 1 : \E text \in Extensions(<< >>, n) :
          request' = [request EXCEPT ![r] =
              [Nobody EXCEPT !.status = "waiting", !.text = text, !.tokens = n]]
  BY DEF Arrive
<1>3. PICK text \in Extensions(<< >>, n) :
          request' = [request EXCEPT ![r] =
              [Nobody EXCEPT !.status = "waiting", !.text = text, !.tokens = n]]
  BY <1>2
<1>4. q.status = "none" /\ UNCHANGED <<useEagle, pool, table, cached, rows, error>>
  BY DEF Arrive
<1>5. request \in [Req -> RequestType] /\ RequestOK(q, table[r], cached[r])
  BY <1>1 DEF RequestInv
<1>6. table[r] = << >>
  BY <1>4, <1>5 DEF RequestOK
<1>7. cached[r] = 0
  <2>1. cached[r] \in Nat /\ cached[r] <= Len(table[r])
    BY <1>1 DEF TableInv
  <2>2. Len(table[r]) = 0
    BY <1>6
  <2> QED
    BY <2>1, <2>2
<1>8. n \in Nat /\ n <= MaxLen /\ n > 0 /\ MaxLen \in Nat /\ 0 \in Nat
  BY Sizes
<1>9. text \in Texts /\ Len(text) >= CeilDiv(n) /\ Len(text) \in Nat
  <2> DEFINE e == << >>
  <2>1. e \in Texts /\ text \in Extensions(e, n)
    BY EmptyText
  <2> HIDE DEF e
  <2>2. text \in Texts /\ Len(text) >= CeilDiv(n)
    BY <1>8, <2>1, Extending
  <2> QED
    BY <2>2, TextLength
<1> DEFINE z == [Nobody EXCEPT !.status = "waiting", !.text = text, !.tokens = n]
<1>0. Nobody \in RequestType
  BY NobodyType
<1>12. z \in RequestType
  BY <1>0, <1>8, <1>9 DEF RequestType
<1>10. z.status = "waiting" /\ z.text = text /\ z.tokens = n /\ z.computed = 0 /\ z.due = 0
  BY DEF Nobody
<1>11. request' = [request EXCEPT ![r] = z]
  BY <1>3
<1> HIDE DEF z
<1>13. CeilDiv(n) \in Nat /\ CeilDiv(0) \in Nat /\ CeilDiv(0) <= CeilDiv(n) /\ Filled(n) \in Nat /\ Filled(0) \in Nat
  BY <1>8, BlocksOf, BlocksMonotone
<1>14. Len(table[r]) <= CeilDiv(MaxLen)
  BY <1>5 DEF RequestOK
<1>15. RequestOK(z, table[r], cached[r])
  BY <1>6, <1>7, <1>8, <1>9, <1>10, <1>13, <1>14 DEF RequestOK
<1>16. RequestInv'
  BY <1>1, <1>4, <1>11, <1>12, <1>15, OneRequest
<1>17. \A s \in Req : \A i \in 1 .. cached[s] : Key(request'[s].text, i) = Key(request[s].text, i)
  BY <1>5, <1>7, <1>11
<1>18. PoolInv' /\ TableInv' /\ SealInv' /\ HashInv'
  BY <1>1, <1>4, <1>17, SameBlocks
<1> QED
  BY <1>1, <1>4, <1>16, <1>18 DEF IInv

\* A step that allocates is a call of allocate_slots with room for it.
Calls(r) ==
    \E hit, start, n, slots, text :
        Room(r, hit, start, n, slots, text) /\ AllocateSlots(r, hit, start, n, slots, text)

LEMMA AdmitCalls ==
    ASSUME IInv, NEW r \in Req, Admit(r)
    PROVE  Calls(r)
<1> DEFINE q == request[r]
<1>1. PICK hit \in Hits(r) : \E n \in 1 .. q.tokens - Len(hit) * BlockSize :
          \E slots \in Slots(Len(hit) * BlockSize + n) :
              AllocateSlots(r, hit, Len(hit) * BlockSize, n, slots, q.text)
  BY DEF Admit
<1> DEFINE start == Len(hit) * BlockSize
<1>2. PICK n \in 1 .. q.tokens - start : \E slots \in Slots(start + n) :
          AllocateSlots(r, hit, start, n, slots, q.text)
  BY <1>1
<1>20. PICK slots \in Slots(start + n) : AllocateSlots(r, hit, start, n, slots, q.text)
  BY <1>2
<1>3. q.status = "waiting" /\ q.tokens < MaxLen
  BY DEF Admit
<1>4. q \in RequestType /\ RequestOK(q, table[r], cached[r])
  BY DEF IInv, RequestInv
<1>5. q.tokens \in Nat /\ q.text \in Texts /\ Len(q.text) \in Nat /\ MaxLen \in Nat
  <2>1. q.tokens \in Nat /\ q.text \in Texts
    BY <1>4 DEF RequestType
  <2> QED
    BY <2>1, TextLength, Sizes
<1>6. HitOK(r, hit) /\ Len(hit) \in Nat /\ Len(hit) <= Filled(q.tokens - 1)
  BY <1>3, HitsAreOK
<1>7. start \in Nat /\ Filled(start) = Len(hit)
  BY <1>6, BlocksOf
<1>8. cached[r] = 0
  <2>1. table[r] = << >>
    BY <1>3, <1>4 DEF RequestOK
  <2>2. cached[r] \in Nat /\ cached[r] <= Len(table[r])
    BY DEF IInv, TableInv
  <2>3. Len(table[r]) = 0
    BY <2>1
  <2> QED
    BY <2>2, <2>3
<1> HIDE DEF start
<1>9. n \in Nat \ {0} /\ start + n \in Nat /\ start + n <= q.tokens /\ start + n < MaxLen
  BY <1>3, <1>5, <1>7
<1>10. q.tokens - 1 \in Nat /\ q.tokens - 1 <= q.tokens
  BY <1>5, <1>7, <1>9
<1>11. Filled(q.tokens - 1) <= Filled(q.tokens) /\ Filled(q.tokens - 1) \in Nat /\ Filled(q.tokens) \in Nat
  BY <1>5, <1>10, BlocksOf, BlocksMonotone
<1>12. CeilDiv(start + n) <= CeilDiv(q.tokens) /\ CeilDiv(start + n) \in Nat /\ CeilDiv(q.tokens) \in Nat
       /\ CeilDiv(q.tokens) <= Len(q.text)
  BY <1>4, <1>5, <1>9, BlocksOf, BlocksMonotone DEF RequestOK
<1>13. Len(hit) + cached[r] <= Filled(start) /\ Len(hit) + cached[r] <= Filled(q.tokens)
  BY <1>6, <1>7, <1>8, <1>11
<1>14. Len(q.text) >= CeilDiv(start + n) /\ Len(q.text) >= Len(q.text)
  BY <1>5, <1>12
<1>16. start = Len(hit) * BlockSize
  BY DEF start
<1>15. Room(r, hit, start, n, slots, q.text)
  BY <1>3, <1>5, <1>6, <1>7, <1>9, <1>13, <1>14, <1>16 DEF Room
<1> QED
  BY <1>20, <1>15 DEF Calls

LEMMA ContinueCalls ==
    ASSUME IInv, NEW r \in Req, Continue(r)
    PROVE  Calls(r)
<1> DEFINE q == request[r]
<1>20. PICK n \in 1 .. Lesser(q.tokens + Lookahead, MaxLen - 1) - q.computed :
          \E slots \in Slots(q.computed + n) : \E text \in Extensions(q.text, q.computed + n) :
              AllocateSlots(r, << >>, q.computed, n, slots, text)
  BY DEF Continue
<1>1. PICK slots \in Slots(q.computed + n), text \in Extensions(q.text, q.computed + n) :
              AllocateSlots(r, << >>, q.computed, n, slots, text)
  BY <1>20
<1>2. q.status = "running" /\ q.tokens < MaxLen
  BY DEF Continue
<1>3. q \in RequestType /\ RequestOK(q, table[r], cached[r])
  BY DEF IInv, RequestInv
<1>4. /\ q.tokens \in Nat /\ q.computed \in Nat /\ q.text \in Texts /\ Len(q.text) \in Nat
      /\ MaxLen \in Nat /\ Lookahead \in Nat
  <2>1. q.tokens \in Nat /\ q.computed \in Nat /\ q.text \in Texts
    BY <1>3 DEF RequestType
  <2> QED
    BY <2>1, TextLength, Sizes
<1>5. cached[r] \in Nat
  BY DEF IInv, TableInv
<1>6. cached[r] <= Filled(q.computed) /\ cached[r] <= Filled(q.tokens) /\ CeilDiv(q.tokens) <= Len(q.text)
  BY <1>3 DEF RequestOK
<1>7. HitOK(r, << >>) /\ Len(<< >>) = 0
  BY NoHit
<1> HIDE DEF q
<1>8. n \in Nat \ {0} /\ q.computed + n \in Nat /\ q.computed + n < MaxLen /\ q.computed + n <= MaxLen
  BY <1>1, <1>4 DEF Lesser
<1>9. /\ text \in Texts /\ Len(text) >= Len(q.text) /\ Len(text) >= CeilDiv(q.computed + n)
      /\ \A i \in 0 .. Len(q.text) : Key(text, i) = Key(q.text, i)
  BY <1>4, <1>8, Extending
<1>10. Filled(q.tokens) <= CeilDiv(q.tokens) /\ Filled(q.tokens) \in Nat /\ CeilDiv(q.tokens) \in Nat
  BY <1>4, BlocksOf
<1>11. \A i \in 1 .. cached[r] : Key(text, i) = Key(q.text, i)
  <2>1. \A i \in 1 .. cached[r] : i \in 0 .. Len(q.text)
    BY <1>4, <1>5, <1>6, <1>10
  <2> QED
    BY <1>9, <2>1
<1> DEFINE e == << >>
<1>12. AllocateSlots(r, e, q.computed, n, slots, text) /\ HitOK(r, e) /\ Len(e) = 0
  BY <1>1, <1>7
<1> HIDE DEF e
<1>13. Len(e) + cached[r] = cached[r]
  BY <1>5, <1>12
<1>14. Room(r, e, q.computed, n, slots, text)
  BY <1>2, <1>4, <1>6, <1>8, <1>9, <1>11, <1>12, <1>13 DEF Room, q
<1> QED
  BY <1>12, <1>14 DEF Calls

LEMMA CallKeeps ==
    ASSUME IInv, NEW r \in Req, Calls(r)
    PROVE  IInv'
  BY AllocateKeeps DEF Calls

\* The outcome of a step of r: what it learns, and the text it goes on with.
Outcome(r, got, tokens, text) ==
    /\ got \in (IF request[r].due = 0 THEN {0} ELSE 1 .. request[r].due)
    /\ tokens = request[r].tokens + got
    /\ text \in Extensions(SubSeq(request[r].text, 1,
                                  Lesser(Len(request[r].text), CeilDiv(tokens))), tokens)

LEMMA Learns ==
    ASSUME IInv, NEW r \in Req, NEW got, NEW tokens, NEW text, Outcome(r, got, tokens, text)
    PROVE  /\ got \in Nat /\ tokens \in Nat /\ tokens >= request[r].tokens /\ tokens <= MaxLen
           /\ tokens <= request[r].tokens + request[r].due
           /\ request[r].due > 0 => tokens > request[r].tokens
           /\ text \in Texts /\ Len(text) >= CeilDiv(tokens)
           /\ \A i \in 1 .. cached[r] : Key(text, i) = Key(request[r].text, i)
           /\ \A i \in 0 .. Len(request[r].text) :
                 i <= CeilDiv(tokens) => Key(text, i) = Key(request[r].text, i)
<1> DEFINE q == request[r]
<1>1. q \in RequestType /\ RequestOK(q, table[r], cached[r])
  BY DEF IInv, RequestInv
<1>2. /\ q.tokens \in Nat /\ q.due \in Nat /\ q.text \in Texts /\ Len(q.text) \in Nat /\ MaxLen \in Nat
  <2>1. q.tokens \in Nat /\ q.due \in Nat /\ q.text \in Texts
    BY <1>1 DEF RequestType
  <2> QED
    BY <2>1, TextLength, Sizes
<1>3. q.tokens + q.due <= MaxLen /\ cached[r] <= Filled(q.tokens) /\ CeilDiv(q.tokens) <= Len(q.text)
  BY <1>1 DEF RequestOK
<1>4. /\ got \in (IF q.due = 0 THEN {0} ELSE 1 .. q.due) /\ tokens = q.tokens + got
      /\ text \in Extensions(SubSeq(q.text, 1, Lesser(Len(q.text), CeilDiv(tokens))), tokens)
  BY DEF Outcome
<1> HIDE DEF q
<1>5. got \in Nat /\ got <= q.due /\ (q.due > 0 => got > 0)
  BY <1>2, <1>4
<1>6. tokens \in Nat /\ tokens >= q.tokens /\ tokens <= MaxLen /\ tokens <= q.tokens + q.due
      /\ (q.due > 0 => tokens > q.tokens)
  BY <1>2, <1>3, <1>4, <1>5
<1>7. /\ text \in Texts /\ Len(text) >= CeilDiv(tokens)
      /\ \A i \in 0 .. Len(q.text) : i <= CeilDiv(tokens) => Key(text, i) = Key(q.text, i)
  BY <1>2, <1>4, <1>6, Rewriting
<1>8. cached[r] \in Nat
  BY DEF IInv, TableInv
<1>9. /\ Filled(q.tokens) \in Nat /\ CeilDiv(q.tokens) \in Nat /\ CeilDiv(tokens) \in Nat
      /\ Filled(q.tokens) <= CeilDiv(q.tokens) /\ CeilDiv(q.tokens) <= CeilDiv(tokens)
  BY <1>2, <1>6, BlocksOf, BlocksMonotone
<1>10. \A i \in 1 .. cached[r] : i \in 0 .. Len(q.text) /\ i <= CeilDiv(tokens)
  BY <1>2, <1>3, <1>8, <1>9
<1> QED
  BY <1>5, <1>6, <1>7, <1>10 DEF q

\* cache_blocks alone: a request gets no blocks.
LEMMA CacheGrows ==
    ASSUME IInv, NEW r \in Req, NEW text, NEW n \in Nat, Filled(n) <= Len(table[r]),
           CacheBlocks(r, pool, text, table[r], cached[r], n), table' = table,
           \A i \in 1 .. cached[r] : Key(text, i) = Key(request[r].text, i),
           request'[r].text = text, \A s \in Req : s # r => request'[s].text = request[s].text,
           NEW none, none = << >>
    PROVE  /\ Growing(r, none, none, table[r], text, Filled(n))
           /\ Grows(r, none, table[r], text, Filled(n))
<1> DEFINE to    == Filled(n)
           known == Len(none) + cached[r]
           t     == table[r]
           q     == CacheFullBlocks(pool, text, t, cached[r] + 1, to)
<1>1. Shape(pool) /\ FreeList(pool) /\ Indexed(pool) /\ TableInv /\ SealInv
  BY DEF IInv, PoolInv
<1>2. /\ table \in [Req -> Seq(Block)] /\ cached \in [Req -> Nat] /\ t \in Seq(Block) /\ Distinct(t)
      /\ cached[r] \in Nat /\ cached[r] <= Len(t) /\ Len(t) \in Nat /\ DOMAIN t = 1 .. Len(t)
  BY <1>1 DEF TableInv
<1>3. to \in Nat /\ to <= Len(t)
  BY BlocksOf
<1>4. none \in Seq(Block) /\ Len(none) = 0 /\ HitOK(r, none) /\ ToSet(none) = {}
  BY NoHit DEF ToSet
<1>5. known = cached[r]
  BY <1>2, <1>4
<1>6. /\ pool' = q
      /\ cached' = [cached EXCEPT ![r] = IF to > cached[r] THEN to ELSE cached[r]]
  BY DEF CacheBlocks, Filled
<1>7. \A i \in cached[r] + 1 .. Len(t) :
         t[i] \in Block /\ ~Registered(pool, t[i]) /\ pool.refs[t[i]] # 0 /\ i \in 1 .. Len(t)
  <2> SUFFICES ASSUME NEW i \in cached[r] + 1 .. Len(t)
               PROVE  t[i] \in Block /\ ~Registered(pool, t[i]) /\ pool.refs[t[i]] # 0 /\ i \in 1 .. Len(t)
    OBVIOUS
  <2>1. i \in 1 .. Len(t)
    BY <1>2
  <2>2. t[i] \in Block /\ t[i] \in ToSet(t)
    BY <1>2, <2>1 DEF ToSet
  <2>3. r \in Holders(t[i])
    BY <2>2 DEF Holders
  <2>4. pool.refs[t[i]] # 0
    BY <1>1, <2>2, <2>3, HeldBlocks
  <2>5. ~Registered(pool, t[i])
    BY <1>1 DEF SealInv
  <2> QED
    BY <2>1, <2>2, <2>4, <2>5
<1> HIDE DEF t, to, known, q
<1>8. \A i \in cached[r] + 1 .. to : i \in cached[r] + 1 .. Len(t)
  BY <1>2, <1>3
<1>9. Sealed(pool, q, text, t, cached[r] + 1, to)
  <2>1. cached[r] + 1 \in Nat \ {0}
    BY <1>2
  <2>2. \A i, j \in cached[r] + 1 .. to : t[i] = t[j] => i = j
    BY <1>2, <1>7, <1>8 DEF Distinct
  <2> QED
    BY <1>1, <1>3, <1>7, <1>8, <2>1, <2>2, CacheAll DEF q
<1>10. FreeList(q)
  <2>1. \A i \in cached[r] + 1 .. to : pool.refs[t[i]] # 0
    BY <1>7, <1>8
  <2> QED
    BY <1>1, <1>9, <2>1, CacheFree
<1>11. /\ Shape(q) /\ Indexed(q) /\ q.refs = pool.refs
       /\ \A i \in cached[r] + 1 .. to : q.hash[t[i]] = Key(text, i)
       /\ \A x \in Block : (\A i \in cached[r] + 1 .. to : t[i] # x) => q.hash[x] = pool.hash[x]
  BY <1>9 DEF Sealed
<1>12. ASSUME NEW i \in 1 .. Len(t), i \notin cached[r] + 1 .. to
       PROVE  q.hash[t[i]] = pool.hash[t[i]]
  <2>1. \A j \in cached[r] + 1 .. to : t[j] # t[i]
    BY <1>2, <1>7, <1>8, <1>12 DEF Distinct
  <2>2. t[i] \in Block
    BY <1>2
  <2> QED
    BY <1>11, <2>1, <2>2
<1>13. \A i \in cached[r] + 1 .. Len(t) : i > to => q.hash[t[i]] = NoHash
  <2> SUFFICES ASSUME NEW i \in cached[r] + 1 .. Len(t), i > to PROVE q.hash[t[i]] = NoHash
    OBVIOUS
  <2>1. i \in 1 .. Len(t) /\ i \notin cached[r] + 1 .. to
    BY <1>3, <1>7
  <2> QED
    BY <1>7, <1>12, <2>1 DEF Registered
<1>14. \A i \in 1 .. cached[r] : q.hash[t[i]] = pool.hash[t[i]]
  <2> SUFFICES ASSUME NEW i \in 1 .. cached[r] PROVE q.hash[t[i]] = pool.hash[t[i]]
    OBVIOUS
  <2>1. i \in 1 .. Len(t) /\ i \notin cached[r] + 1 .. to
    BY <1>2
  <2> QED
    BY <1>12, <2>1
<1>15. \A b \in Block : b \notin ToSet(t) => q.hash[b] = pool.hash[b]
  <2> SUFFICES ASSUME NEW b \in Block, b \notin ToSet(t) PROVE q.hash[b] = pool.hash[b]
    OBVIOUS
  <2>1. \A i \in cached[r] + 1 .. to : t[i] # b
    BY <1>2, <1>7, <1>8 DEF ToSet
  <2> QED
    BY <1>11, <2>1
<1>20. Keeps(pool, q, ToSet(none) \cup ToSet(none), ToSet(none))
  <2>1. q.queue = pool.queue
    BY <1>9 DEF Sealed
  <2> QED
    BY <1>4, <2>1 DEF Keeps
<1>16. Grown(r, none, none, t, q, text, to)
  BY <1>4, <1>5, <1>10, <1>11, <1>13, <1>14, <1>15, <1>20 DEF Grown, known
<1>17. Extended(r, none, none, t)
  <2>1. /\ t \in Seq(Block) /\ Distinct(t) /\ Len(t) = Len(none) + Len(table[r]) + Len(none)
        /\ ToSet(t) = ToSet(none) \cup ToSet(table[r]) \cup ToSet(none)
    BY <1>2, <1>4 DEF t
  <2>2. \A i \in 1 .. Len(table[r]) : Len(none) + i = i
    BY <1>4
  <2>3. t = table[r]
    BY DEF t
  <2>4. \A i \in 1 .. Len(none) : FALSE
    BY <1>4
  <2> QED
    BY <2>1, <2>2, <2>3, <2>4 DEF Extended
<1>18. Growing(r, none, none, t, text, to)
  BY <1>3, <1>4, <1>5, <1>6, <1>16, <1>17 DEF Growing, known
<1>19. Grows(r, none, t, text, to)
  <2>1. table' = [table EXCEPT ![r] = t]
    BY <1>2 DEF t
  <2>2. cached' = [cached EXCEPT ![r] = IF to > Len(none) + cached[r] THEN to ELSE Len(none) + cached[r]]
    BY <1>5, <1>6 DEF known
  <2> QED
    BY <2>1, <2>2 DEF Grows
<1> QED
  BY <1>18, <1>19 DEF t, to

\* What a request has learned changes no block, or registers some of its own.
Learned(r) ==
    \E text \in Texts :
        /\ request'[r].text = text /\ \A s \in Req : s # r => request'[s].text = request[s].text
        /\ \A i \in 1 .. cached[r] : Key(text, i) = Key(request[r].text, i)
        /\ \/ UNCHANGED <<pool, table, cached>>
           \/ \E none, to : none = << >> /\ Growing(r, none, none, table[r], text, to)
                                        /\ Grows(r, none, table[r], text, to)

\* What it has learned leaves fewer tokens computed, of the same text.
Kept(r) ==
    LET computed == request'[r].computed
    IN  /\ computed \in Nat /\ computed <= request[r].computed
        /\ \A i \in 1 .. CeilDiv(computed) : Key(request'[r].text, i) = Key(request[r].text, i)
        /\ \A s \in Req : s # r => request'[s].computed = request[s].computed
        /\ table' = table
        /\ \/ UNCHANGED <<pool, rows>>
           \/ cached[r] <= Filled(computed) /\ rows' = RolledBack(table[r], computed)

LEMMA ReceiveKeeps ==
    ASSUME IInv, NEW r \in Req, Receive(r)
    PROVE  IInv' /\ Learned(r) /\ Kept(r)
<1> DEFINE q == request[r]
           idle == q.due = 0 \/ q.status = "waiting"
           Comp(tokens) == IF idle THEN q.computed ELSE tokens - 1
           Z(tokens, text) == [q EXCEPT !.text = text, !.tokens = tokens,
                                        !.computed = Comp(tokens), !.busy = FALSE, !.due = 0]
           Step(got, text) ==
               LET tokens == q.tokens + got
               IN  /\ text \in Extensions(SubSeq(q.text, 1, Lesser(Len(q.text), CeilDiv(tokens))), tokens)
                   /\ request' = [request EXCEPT ![r] = Z(tokens, text)]
                   /\ IF idle THEN UNCHANGED <<pool, cached, rows>>
                      ELSE /\ CacheBlocks(r, pool, text, table[r], cached[r], Comp(tokens))
                           /\ rows' = RolledBack(table[r], Comp(tokens))
<1>1. PoolInv /\ TableInv /\ SealInv /\ RequestInv /\ HashInv /\ error = NoError
  BY DEF IInv
<1>2. PICK got \in (IF q.due = 0 THEN {0} ELSE 1 .. q.due) : \E text : Step(got, text)
  BY DEF Receive
<1>3. PICK text : Step(got, text)
  BY <1>2
<1> DEFINE tokens == q.tokens + got
<1>4. q.busy /\ UNCHANGED <<useEagle, table, error>>
  BY DEF Receive
<1>5. Outcome(r, got, tokens, text)
  BY <1>2, <1>3 DEF Outcome
<1>6. /\ got \in Nat /\ tokens \in Nat /\ tokens >= q.tokens /\ tokens <= MaxLen
      /\ tokens <= q.tokens + q.due /\ (q.due > 0 => tokens > q.tokens)
      /\ text \in Texts /\ Len(text) >= CeilDiv(tokens)
      /\ \A i \in 1 .. cached[r] : Key(text, i) = Key(q.text, i)
  <2> HIDE DEF tokens
  <2> QED
    BY <1>5, Learns
<1>25. \A i \in 0 .. Len(q.text) : i <= CeilDiv(tokens) => Key(text, i) = Key(q.text, i)
  <2> HIDE DEF tokens
  <2> QED
    BY <1>5, Learns
<1>7. q \in RequestType /\ RequestOK(q, table[r], cached[r]) /\ request \in [Req -> RequestType]
  BY <1>1 DEF RequestInv
<1>8. /\ q.tokens \in Nat /\ q.due \in Nat /\ q.computed \in Nat
      /\ q.status \in {"none", "waiting", "running"}
  BY <1>7 DEF RequestType
<1>9. /\ q.status # "none" /\ q.tokens > 0
      /\ cached[r] <= Filled(q.tokens) /\ cached[r] <= Filled(q.computed)
      /\ Len(table[r]) <= CeilDiv(MaxLen)
      /\ (q.status # "running" => table[r] = << >> /\ q.computed = 0)
      /\ (q.status = "running" => q.due = Monus(q.computed + 1, q.tokens)
                                  /\ CeilDiv(q.computed) <= Len(table[r]))
  BY <1>4, <1>7 DEF RequestOK
<1>10. Len(text) \in Nat /\ MaxLen \in Nat
  BY <1>6, TextLength, Sizes
<1>11. cached[r] \in Nat /\ cached \in [Req -> Nat] /\ table \in [Req -> Seq(Block)] /\ Len(table[r]) \in Nat
  BY <1>1 DEF TableInv
<1> DEFINE computed == Comp(tokens)
           z == Z(tokens, text)
<1>12. /\ text \in Extensions(SubSeq(q.text, 1, Lesser(Len(q.text), CeilDiv(tokens))), tokens)
       /\ request' = [request EXCEPT ![r] = z]
       /\ IF idle THEN UNCHANGED <<pool, cached, rows>>
          ELSE /\ CacheBlocks(r, pool, text, table[r], cached[r], computed)
               /\ rows' = RolledBack(table[r], computed)
  BY <1>3
\* Of the tokens that are computed at least one is not yet.
<1>13. computed \in Nat /\ computed < tokens /\ (~idle => computed = tokens - 1 /\ computed <= q.computed)
  <2>1. CASE q.status # "running"
    <3>1. idle /\ q.computed = 0
      BY <1>8, <1>9, <2>1
    <3> QED
      BY <1>6, <1>8, <1>9, <3>1
  <2>2. CASE q.status = "running" /\ q.due = 0
    <3>1. idle /\ q.computed + 1 <= q.tokens
      BY <1>8, <1>9, <2>2 DEF Monus
    <3> QED
      BY <1>6, <1>8, <3>1
  <2>3. CASE q.status = "running" /\ q.due # 0
    <3>1. ~idle /\ q.tokens + q.due = q.computed + 1
      BY <1>8, <1>9, <2>3 DEF Monus
    <3> QED
      BY <1>6, <1>8, <1>9, <3>1
  <2> QED
    BY <2>1, <2>2, <2>3
<1>14. z \in RequestType
  <2> HIDE DEF computed, tokens
  <2> QED
    BY <1>6, <1>7, <1>13 DEF RequestType, computed
<1>15. /\ z.text = text /\ z.tokens = tokens /\ z.computed = computed /\ z.due = 0
       /\ z.status = q.status
  <2> HIDE DEF computed, tokens
  <2> QED
    BY <1>7 DEF RequestType, computed
<1>16. ~z.busy
  <2> HIDE DEF computed, tokens
  <2> QED
    BY <1>7 DEF RequestType, computed
<1> HIDE DEF computed, tokens, z, idle, q
<1>17. /\ CeilDiv(computed) \in Nat /\ CeilDiv(tokens) \in Nat /\ CeilDiv(computed) <= CeilDiv(tokens)
       /\ Filled(computed) \in Nat /\ Filled(tokens) \in Nat /\ Filled(computed) <= Filled(tokens)
       /\ Filled(q.tokens) <= Filled(tokens) /\ Filled(q.tokens) \in Nat
  <2>1. computed \in Nat /\ tokens \in Nat /\ q.tokens \in Nat /\ computed <= tokens /\ q.tokens <= tokens
    BY <1>6, <1>8, <1>13
  <2> QED
    BY <2>1, BlocksOf, BlocksMonotone
<1>18. request'[r].text = text /\ \A s \in Req : s # r => request'[s].text = request[s].text
  BY <1>7, <1>12, <1>15
<1>21. /\ request'[r].computed = computed
       /\ \A s \in Req : s # r => request'[s].computed = request[s].computed
  BY <1>7, <1>12, <1>15
<1>22. computed <= q.computed
  <2>1. CASE idle
    <3>1. computed = q.computed
      BY <2>1 DEF computed, idle, q
    <3> QED
      BY <1>8, <3>1
  <2>2. CASE ~idle
    BY <1>13, <2>2
  <2> QED
    BY <2>1, <2>2
<1>23. \A i \in 1 .. CeilDiv(computed) : Key(text, i) = Key(q.text, i)
  <2>1. CeilDiv(computed) <= CeilDiv(q.computed) /\ CeilDiv(q.computed) \in Nat
    BY <1>8, <1>13, <1>22, BlocksOf, BlocksMonotone
  <2>2. CeilDiv(q.computed) <= Len(q.text) /\ Len(q.text) \in Nat
    <3>1. q.text \in Texts /\ CeilDiv(q.computed) <= Len(q.text)
      BY <1>7 DEF RequestType, RequestOK
    <3> QED
      BY <3>1, TextLength
  <2>3. \A i \in 1 .. CeilDiv(computed) : i \in 0 .. Len(q.text) /\ i <= CeilDiv(tokens)
    BY <1>17, <2>1, <2>2
  <2> QED
    BY <1>25, <2>3
<1>24. \/ UNCHANGED <<pool, rows>>
       \/ cached[r] <= Filled(computed) /\ rows' = RolledBack(table[r], computed)
       => Kept(r)
  <2>1. table' = table
    BY <1>4
  <2> QED
    BY <1>13, <1>18, <1>21, <1>22, <1>23, <2>1 DEF Kept, q
<1>19. CASE idle
  <2>1. UNCHANGED <<pool, table, cached>>
    BY <1>4, <1>12, <1>19
  <2>2. \A s \in Req : \A i \in 1 .. cached[s] : Key(request'[s].text, i) = Key(request[s].text, i)
    BY <1>6, <1>18 DEF q
  <2>3. PoolInv' /\ TableInv' /\ SealInv' /\ HashInv'
    BY <1>1, <2>1, <2>2, SameBlocks
  <2>4. computed = q.computed
    BY <1>19 DEF computed, idle, q
  <2>5. q.status = "running" => 0 = Monus(computed + 1, tokens)
    BY <1>6, <1>13 DEF Monus
  <2>6. RequestOK(z, table'[r], cached'[r])
    <3>1. table'[r] = table[r] /\ cached'[r] = cached[r]
      BY <2>1
    <3>2. z.tokens + z.due <= MaxLen /\ z.tokens > 0
      BY <1>6, <1>8, <1>9, <1>15
    <3>3. CeilDiv(z.tokens) <= Len(z.text) /\ CeilDiv(z.computed) <= Len(z.text)
      BY <1>6, <1>10, <1>15, <1>17
    <3>4. cached[r] <= Filled(z.tokens) /\ cached[r] <= Filled(z.computed)
      BY <1>9, <1>11, <1>15, <1>17, <2>4
    <3>5. z.status # "running" => table[r] = << >> /\ z.computed = 0
      BY <1>9, <1>15, <2>4
    <3>6. z.status = "running" => z.due = Monus(z.computed + 1, z.tokens) /\ CeilDiv(z.computed) <= Len(table[r])
      BY <1>9, <1>15, <2>4, <2>5
    <3> QED
      BY <1>9, <1>16, <3>1, <3>2, <3>3, <3>4, <3>5, <3>6 DEF RequestOK
  <2>7. RequestInv'
    BY <1>1, <1>12, <1>14, <2>1, <2>6, OneRequest
  <2>8. Learned(r)
    BY <1>6, <1>18, <2>1 DEF Learned, q
  <2>9. Kept(r)
    BY <1>12, <1>19, <1>24
  <2> QED
    BY <1>1, <1>4, <2>3, <2>7, <2>8, <2>9 DEF IInv
<1>20. CASE ~idle
  <2>1. /\ CacheBlocks(r, pool, text, table[r], cached[r], computed)
        /\ computed = tokens - 1 /\ computed <= q.computed
    BY <1>12, <1>13, <1>20
  <2>2. q.status = "running" /\ q.due > 0
    BY <1>8, <1>9, <1>20 DEF idle
  <2>3. Filled(computed) <= CeilDiv(computed) /\ CeilDiv(computed) <= CeilDiv(q.computed) /\ CeilDiv(q.computed) \in Nat
    BY <1>8, <1>13, <2>1, BlocksOf, BlocksMonotone
  <2>4. Filled(computed) <= Len(table[r]) /\ CeilDiv(computed) <= Len(table[r])
    BY <1>9, <1>11, <1>17, <2>2, <2>3
  <2> DEFINE none == << >>
             to == Filled(computed)
  <2>5. /\ Growing(r, none, none, table[r], text, to)
        /\ Grows(r, none, table[r], text, to)
    <3>1. none = << >>
      OBVIOUS
    <3>2. table' = table
      BY <1>4
    <3> HIDE DEF none
    <3> QED
      BY <1>6, <1>13, <1>18, <2>1, <2>4, <3>1, <3>2, CacheGrows DEF q
  <2>6. Len(none) + cached[r] = cached[r]
    <3>1. Len(none) = 0
      OBVIOUS
    <3> HIDE DEF none
    <3> QED
      BY <1>11, <3>1
  <2> HIDE DEF none, to
  <2>7. TableInv' /\ SealInv'
    BY <1>1, <2>5, GrownTables, GrownSeals
  <2>8. to <= Len(text)
    <3>1. Filled(computed) <= CeilDiv(computed)
      BY <2>3
    <3> QED
      BY <1>6, <1>10, <1>17, <3>1 DEF to
  <2>9. HashInv'
    BY <1>1, <1>6, <2>5, <2>8, GrownHashes
  <2>10. PoolInv'
    BY <2>5 DEF Growing, Grown, PoolInv
  <2>11. cached' = [cached EXCEPT ![r] = IF to > cached[r] THEN to ELSE cached[r]]
    BY <2>5, <2>6 DEF Grows
  <2>12. q.tokens <= computed /\ Filled(q.tokens) <= Filled(computed)
    <3>1. q.tokens <= computed
      BY <1>6, <1>8, <2>1, <2>2
    <3> QED
      BY <1>8, <1>13, <3>1, BlocksMonotone
  <2>13. RequestOK(z, table'[r], cached'[r])
    <3>1. table'[r] = table[r] /\ cached'[r] = IF to > cached[r] THEN to ELSE cached[r]
      BY <1>4, <1>11, <2>11
    <3>2. z.tokens + z.due <= MaxLen /\ z.tokens > 0
      BY <1>6, <1>8, <1>9, <1>15
    <3>3. CeilDiv(z.tokens) <= Len(z.text) /\ CeilDiv(z.computed) <= Len(z.text)
      BY <1>6, <1>10, <1>15, <1>17
    <3>4. cached'[r] <= Filled(z.tokens) /\ cached'[r] <= Filled(z.computed)
      BY <1>9, <1>11, <1>15, <1>17, <2>12, <3>1 DEF to
    <3>5. z.status = "running" /\ z.due = Monus(z.computed + 1, z.tokens)
      <4>1. computed + 1 = tokens
        BY <1>6, <2>1
      <4> QED
        BY <1>6, <1>15, <2>2, <4>1 DEF Monus
    <3>6. CeilDiv(z.computed) <= Len(table[r])
      BY <1>15, <2>4
    <3> QED
      BY <1>9, <3>1, <3>2, <3>3, <3>4, <3>5, <3>6 DEF RequestOK
  <2>14. RequestInv'
    <3>1. \A s \in Req : s # r => table'[s] = table[s] /\ cached'[s] = cached[s]
      BY <1>4, <1>11, <2>11
    <3> QED
      BY <1>1, <1>12, <1>14, <2>13, <3>1, OneRequest
  <2>15. Learned(r)
    <3>1. none = << >>
      BY DEF none
    <3> QED
      BY <1>6, <1>18, <2>5, <3>1 DEF Learned, q
  <2>16. cached[r] <= Filled(computed)
    BY <1>9, <1>11, <1>17, <2>12
  <2>17. Kept(r)
    BY <1>12, <1>20, <1>24, <2>16
  <2> QED
    BY <1>1, <1>4, <2>7, <2>9, <2>10, <2>14, <2>15, <2>17 DEF IInv
<1> QED
  BY <1>19, <1>20

LEMMA ReversedBlocks ==
    ASSUME NEW s \in Seq(Block), Distinct(s)
    PROVE  /\ FreeingOrder(s) \in Seq(Block) /\ Distinct(FreeingOrder(s))
           /\ ToSet(FreeingOrder(s)) = ToSet(s)
<1> DEFINE n == Len(s)
           t == [i \in 1 .. n |-> s[(n - i) + 1]]
<1>1. n \in Nat /\ DOMAIN s = 1 .. n /\ \A i \in 1 .. n : s[i] \in Block
  OBVIOUS
<1>2. FreeingOrder(s) = t
  BY DEF FreeingOrder, Reverse
<1>3. \A i, j \in 1 .. n : s[i] = s[j] => i = j
  BY DEF Distinct
<1> HIDE DEF n
<1>4. \A i \in 1 .. n : (n - i) + 1 \in 1 .. n /\ t[i] = s[(n - i) + 1] /\ (n - ((n - i) + 1)) + 1 = i
  BY <1>1
<1>5. t \in [1 .. n -> Block]
  BY <1>1, <1>4
<1>6. t \in Seq(Block) /\ Len(t) = n /\ DOMAIN t = 1 .. n
  BY <1>1, <1>5
<1> HIDE DEF t
<1>7. Distinct(t)
  <2> SUFFICES ASSUME NEW i \in 1 .. n, NEW j \in 1 .. n, t[i] = t[j] PROVE i = j
    BY <1>6 DEF Distinct
  <2>1. (n - i) + 1 = (n - j) + 1
    BY <1>3, <1>4
  <2> QED
    BY <1>1, <2>1
<1>8. ToSet(t) = ToSet(s)
  <2>1. \A i \in 1 .. n : t[i] \in {s[j] : j \in 1 .. n}
    BY <1>4
  <2>2. \A i \in 1 .. n : s[i] \in {t[j] : j \in 1 .. n}
    BY <1>4
  <2> QED
    BY <1>1, <1>6, <2>1, <2>2 DEF ToSet
<1> QED
  BY <1>2, <1>6, <1>7, <1>8

\* No block, no token.
LEMMA NothingHeld ==
    CeilDiv(0) = 0 /\ Filled(0) = 0
<1>1. 0 \in Nat /\ 0 * BlockSize = 0
  BY Sizes
<1> QED
  BY <1>1, BlocksOf

LEMMA NobodyOK == RequestOK(Nobody, << >>, 0)
<1> DEFINE e == << >>
<1>1. Len(e) = 0
  OBVIOUS
<1>2. CeilDiv(MaxLen) \in Nat /\ MaxLen \in Nat
  BY Sizes, BlocksOf
<1>3. /\ Nobody.status = "none" /\ Nobody.text = e /\ Nobody.tokens = 0 /\ Nobody.computed = 0
      /\ Nobody.due = 0
  BY DEF Nobody
<1>4. ~Nobody.busy
  BY DEF Nobody
<1>5. e = << >>
  OBVIOUS
<1> HIDE DEF e
<1>6. RequestOK(Nobody, e, 0)
  BY <1>1, <1>2, <1>3, <1>4, <1>5, NothingHeld DEF RequestOK
<1> QED
  BY <1>5, <1>6

\* A request gives its blocks back.
LEMMA FreedTables ==
    ASSUME TableInv, SealInv, HashInv, NEW r \in Req, Freed(pool, pool', ToSet(table[r])),
           table' = [table EXCEPT ![r] = << >>], cached' = [cached EXCEPT ![r] = 0],
           \A s \in Req : s # r => request'[s].text = request[s].text
    PROVE  TableInv' /\ SealInv' /\ HashInv'
<1> DEFINE e == << >>
           B == ToSet(table[r])
<1>1. /\ table \in [Req -> Seq(Block)] /\ cached \in [Req -> Nat]
      /\ \A s \in Req : Distinct(table[s]) /\ cached[s] <= Len(table[s])
      /\ \A b \in Block : pool.refs[b] = Cardinality(Holders(b))
  BY DEF TableInv
<1>2. e \in Seq(Block) /\ Len(e) = 0 /\ ToSet(e) = {} /\ DOMAIN e = {}
  BY DEF ToSet
<1>3. table' = [table EXCEPT ![r] = e]
  OBVIOUS
<1> HIDE DEF e
<1>4. /\ \A s \in Req : table'[s] = IF s = r THEN e ELSE table[s]
      /\ \A s \in Req : cached'[s] = IF s = r THEN 0 ELSE cached[s]
      /\ table' \in [Req -> Seq(Block)] /\ cached' \in [Req -> Nat]
  BY <1>1, <1>2, <1>3
<1>5. /\ pool'.hash = pool.hash
      /\ \A b \in Block : pool'.refs[b] = IF b \in B THEN pool.refs[b] - 1 ELSE pool.refs[b]
  BY DEF Freed
<1>6. HashInv'
  BY <1>5 DEF HashInv
<1>7. TableInv'
  <2>1. \A s \in Req : Distinct(table'[s]) /\ cached'[s] <= Len(table'[s])
    <3>1. Distinct(e)
      BY <1>2 DEF Distinct
    <3> QED
      BY <1>1, <1>2, <1>4, <3>1
  <2>2. ASSUME NEW b \in Block PROVE pool'.refs[b] = Cardinality(Holders(b)')
    <3>1. IsFiniteSet(Holders(b)) /\ pool.refs[b] = Cardinality(Holders(b))
      BY <1>1, HeldBlocks
    <3>2. Holders(b)' = Holders(b) \ {r}
      BY <1>2, <1>4 DEF Holders
    <3>3. Cardinality(Holders(b) \ {r})
            = IF r \in Holders(b) THEN Cardinality(Holders(b)) - 1 ELSE Cardinality(Holders(b))
      BY <3>1, FS_RemoveElement
    <3>4. r \in Holders(b) <=> b \in B
      BY DEF Holders
    <3> QED
      BY <1>5, <3>1, <3>2, <3>3, <3>4
  <2> QED
    BY <1>4, <2>1, <2>2 DEF TableInv
<1>8. ASSUME NEW s \in Req
      PROVE  /\ \A i \in 1 .. cached'[s] : pool'.hash[table'[s][i]] = Key(request'[s].text, i)
             /\ \A i \in cached'[s] + 1 .. Len(table'[s]) :
                   /\ pool'.hash[table'[s][i]] = NoHash
                   /\ \A x \in Req : table'[s][i] \in ToSet(table'[x]) => x = s
  <2>1. CASE s = r
    <3>1. cached'[s] = 0 /\ Len(table'[s]) = 0
      BY <1>2, <1>4, <2>1
    <3> QED
      BY <3>1
  <2>2. CASE s # r
    <3>1. cached'[s] = cached[s] /\ table'[s] = table[s] /\ request'[s].text = request[s].text
      BY <1>4, <2>2
    <3>2. \A x \in Req : ToSet(table'[x]) \subseteq ToSet(table[x])
      BY <1>2, <1>4
    <3>3. \A i \in 1 .. cached[s] : pool.hash[table[s][i]] = Key(request[s].text, i)
      BY DEF SealInv
    <3>4. \A i \in cached[s] + 1 .. Len(table[s]) :
             /\ pool.hash[table[s][i]] = NoHash
             /\ \A x \in Req : table[s][i] \in ToSet(table[x]) => x = s
      BY DEF SealInv, Registered
    <3>5. \A i \in cached[s] + 1 .. Len(table[s]) :
             \A x \in Req : table[s][i] \in ToSet(table'[x]) => x = s
      BY <3>2, <3>4
    <3> QED
      BY <1>5, <3>1, <3>3, <3>4, <3>5
  <2> QED
    BY <2>1, <2>2
<1>9. SealInv'
  BY <1>8 DEF SealInv, Registered
<1> QED
  BY <1>6, <1>7, <1>9

LEMMA ReleaseKeeps ==
    ASSUME IInv, NEW r \in Req, Release(r)
    PROVE  IInv'
<1> DEFINE q == request[r]
           t == table[r]
           e == << >>
           z == [q EXCEPT !.status = "waiting", !.computed = 0]
<1>1. PoolInv /\ TableInv /\ SealInv /\ RequestInv /\ HashInv /\ error = NoError
  BY DEF IInv
<1>2. /\ pool' = FreeBlocks(pool, FreeingOrder(t))
      /\ table' = [table EXCEPT ![r] = << >>] /\ cached' = [cached EXCEPT ![r] = 0]
      /\ UNCHANGED <<useEagle, error>>
  BY DEF Release
<1>3. /\ \/ request' = [request EXCEPT ![r] = Nobody]
         \/ q.status = "running" /\ request' = [request EXCEPT ![r] = z]
  BY DEF Release
<1>4. t \in Seq(Block) /\ Distinct(t) /\ table \in [Req -> Seq(Block)] /\ cached \in [Req -> Nat]
  BY <1>1 DEF TableInv
<1>5. /\ FreeingOrder(t) \in Seq(Block) /\ Distinct(FreeingOrder(t))
      /\ ToSet(FreeingOrder(t)) = ToSet(t)
  BY <1>4, ReversedBlocks
<1>6. \A b \in ToSet(t) : pool.refs[b] # 0
  <2> SUFFICES ASSUME NEW b \in ToSet(t) PROVE pool.refs[b] # 0
    OBVIOUS
  <2>1. b \in Block /\ r \in Holders(b)
    BY <1>4 DEF ToSet, Holders
  <2> QED
    BY <1>1, <2>1, HeldBlocks
<1>7. Freed(pool, pool', ToSet(t))
  <2>1. Freed(pool, FreeBlocks(pool, FreeingOrder(t)), ToSet(FreeingOrder(t)))
    BY <1>1, <1>5, <1>6, FreeAll DEF PoolInv
  <2> QED
    BY <1>2, <1>5, <2>1
<1>8. q \in RequestType /\ RequestOK(q, t, cached[r]) /\ request \in [Req -> RequestType]
  BY <1>1 DEF RequestInv
<1>9. \A s \in Req : s # r => request'[s].text = request[s].text
  BY <1>3, <1>8
<1>10. TableInv' /\ SealInv' /\ HashInv'
  BY <1>1, <1>2, <1>7, <1>9, FreedTables
<1>11. PoolInv'
  BY <1>7 DEF Freed, PoolInv
<1>12. /\ table'[r] = e /\ cached'[r] = 0
       /\ \A s \in Req : s # r => table'[s] = table[s] /\ cached'[s] = cached[s]
  BY <1>2, <1>4
<1>13. CASE request' = [request EXCEPT ![r] = Nobody]
  <2>1. RequestOK(Nobody, table'[r], cached'[r])
    BY <1>12, NobodyOK
  <2>2. RequestInv'
    BY <1>1, <1>12, <1>13, <2>1, NobodyType, OneRequest
  <2> QED
    BY <1>1, <1>2, <1>10, <1>11, <2>2 DEF IInv
<1>14. CASE q.status = "running" /\ request' = [request EXCEPT ![r] = z]
  <2>1. z \in RequestType
    BY <1>8 DEF RequestType
  <2>2. z.status = "waiting" /\ z.computed = 0 /\ z.tokens = q.tokens /\ z.due = q.due /\ z.text = q.text
    BY <1>8 DEF RequestType
  <2>3. Len(e) = 0 /\ e = << >>
    OBVIOUS
  <2>4. q.tokens \in Nat /\ q.text \in Texts
    BY <1>8 DEF RequestType
  <2>9. Len(q.text) \in Nat
    BY <2>4, TextLength
  <2>10. CeilDiv(MaxLen) \in Nat /\ Filled(q.tokens) \in Nat
    BY <2>4, BlocksOf, Sizes
  <2>5. Len(q.text) \in Nat /\ CeilDiv(MaxLen) \in Nat /\ Filled(q.tokens) \in Nat
    BY <2>9, <2>10
  <2>6. q.tokens + q.due <= MaxLen /\ CeilDiv(q.tokens) <= Len(q.text) /\ q.tokens > 0
    BY <1>8, <1>14 DEF RequestOK
  <2> HIDE DEF z, q, e
  <2>7. RequestOK(z, table'[r], cached'[r])
    BY <1>12, <2>2, <2>3, <2>5, <2>6, NothingHeld DEF RequestOK
  <2>8. RequestInv'
    BY <1>1, <1>12, <1>14, <2>1, <2>7, OneRequest
  <2> QED
    BY <1>1, <1>2, <1>10, <1>11, <2>8 DEF IInv
<1> QED
  BY <1>3, <1>13, <1>14

\* All blocks are free, and so nobody holds one.
LEMMA NobodyHolds ==
    ASSUME IInv, pool.queue.num = Cardinality(Block)
    PROVE  \A b \in Block : Holders(b) = {}
<1>1. PoolInv /\ TableInv
  BY DEF IInv
<1>2. Cardinality(Idle(pool)) = Cardinality(Block)
  BY <1>1, FreeCount DEF PoolInv
<1>3. Idle(pool) \subseteq Block
  BY DEF Idle
<1>4. Block = Idle(pool)
  BY <1>2, <1>3, Sizes, FS_Subset
<1> QED
  BY <1>1, <1>4, HeldBlocks DEF Idle

LEMMA ResetKeeps ==
    ASSUME IInv, ResetPrefixCache
    PROVE  IInv'
<1>1. PoolInv /\ TableInv /\ SealInv /\ RequestInv /\ HashInv /\ error = NoError
  BY DEF IInv
<1>2. /\ pool.queue.num = Cardinality(Block)
      /\ pool' = [pool EXCEPT !.hash = [b \in Block |-> NoHash], !.index = << >>]
      /\ UNCHANGED <<useEagle, request, table, cached, error>>
  BY DEF ResetPrefixCache
<1>3. \A b \in Block : Holders(b) = {}
  BY <1>2, NobodyHolds
<1>4. ASSUME NEW r \in Req PROVE Len(table[r]) = 0 /\ cached[r] = 0
  <2>1. table[r] \in Seq(Block) /\ cached[r] \in Nat /\ cached[r] <= Len(table[r]) /\ Len(table[r]) \in Nat
    BY <1>1 DEF TableInv
  <2>2. Len(table[r]) = 0
    <3> SUFFICES ASSUME Len(table[r]) # 0 PROVE FALSE
      OBVIOUS
    <3>1. 1 \in DOMAIN table[r] /\ table[r][1] \in Block
      BY <2>1
    <3>2. r \in Holders(table[r][1])
      BY <3>1 DEF Holders, ToSet
    <3> QED
      BY <1>3, <3>1, <3>2
  <2> QED
    BY <2>1, <2>2
<1> DEFINE hash == [b \in Block |-> NoHash]
           none == << >>
<1>5. DOMAIN none = {}
  OBVIOUS
<1>6. pool' = [pool EXCEPT !.hash = hash, !.index = none]
  BY <1>2
<1>7. \A b \in Block : hash[b] = NoHash
  OBVIOUS
<1>8. hash = [b \in Block |-> hash[b]]
  OBVIOUS
<1> HIDE DEF hash, none
<1>9. pool = [queue |-> pool.queue, refs |-> pool.refs, hash |-> pool.hash, index |-> pool.index]
      /\ pool.refs \in [Block -> Nat]
  BY <1>1 DEF PoolInv, Shape
<1>10. pool' = [queue |-> pool.queue, refs |-> pool.refs, hash |-> hash, index |-> none]
  BY <1>6, <1>9
<1>11. pool'.queue = pool.queue /\ pool'.refs = pool.refs /\ pool'.hash = hash /\ pool'.index = none
  BY <1>10
<1>12. Shape(pool')
  BY <1>8, <1>9, <1>10, <1>11 DEF Shape
<1>13. FreeList(pool')
  <2>1. PICK c, n : FreeRow(pool, c, n)
    BY <1>1 DEF PoolInv, FreeList
  <2>2. Chain(pool.queue, c, n) /\ Listed(c, n) = {b \in Block : pool.refs[b] = 0}
        /\ \A i \in 1 .. n : c[i] \in Block
    BY <2>1 DEF FreeRow, Chain, Row
  <2>3. Sorted(hash, c, n)
    BY <1>7, <2>2 DEF Sorted
  <2>4. FreeRow(pool', c, n)
    BY <1>11, <2>2, <2>3 DEF FreeRow
  <2> QED
    BY <2>4 DEF FreeList
<1>14. Indexed(pool')
  BY <1>5, <1>7, <1>11 DEF Indexed, Registered
<1>15. PoolInv'
  BY <1>12, <1>13, <1>14 DEF PoolInv
<1>16. TableInv'
  <2>1. \A b : Holders(b)' = Holders(b)
    BY <1>2 DEF Holders
  <2> QED
    BY <1>1, <1>2, <1>11, <2>1 DEF TableInv
<1>17. SealInv'
  BY <1>2, <1>4 DEF SealInv
<1>18. HashInv'
  BY <1>7, <1>11, EmptyText DEF HashInv, NoHash
<1>19. RequestInv'
  BY <1>1, <1>2 DEF RequestInv
<1> QED
  BY <1>1, <1>2, <1>15, <1>16, <1>17, <1>18, <1>19 DEF IInv

\* A sequence of all blocks, without repetition.
LEMMA OrderOfBlocks ==
    ASSUME NEW order \in SetToSeqs(Block)
    PROVE  order \in Seq(Block) /\ Distinct(order) /\ ToSet(order) = Block
<1> DEFINE n == Cardinality(Block)
<1>1. n \in Nat /\ IsFiniteSet(Block)
  BY Sizes, FS_CardinalityType
<1>2. /\ order \in [1 .. n -> Block]
      /\ \A i, j \in 1 .. n : i # j => order[i] # order[j]
  BY DEF SetToSeqs
<1> HIDE DEF n
<1>3. order \in Seq(Block) /\ Len(order) = n /\ DOMAIN order = 1 .. n
  BY <1>1, <1>2
<1>4. Distinct(order)
  BY <1>2, <1>3 DEF Distinct
<1> DEFINE S == ToSet(order)
<1>5. S \subseteq Block /\ S = {order[i] : i \in 1 .. n}
  BY <1>2, <1>3 DEF ToSet
<1> HIDE DEF S
<1>6. order \in Bijection(1 .. n, S)
  <2>1. order \in [1 .. n -> S]
    BY <1>2, <1>5
  <2>2. \A b \in S : \E i \in 1 .. n : order[i] = b
    BY <1>5
  <2> QED
    BY <1>2, <2>1, <2>2 DEF Bijection, Injection, Surjection, IsInjective
<1>7. Cardinality(S) = n
  <2>1. IsFiniteSet(1 .. n) /\ Cardinality(1 .. n) = n
    BY <1>1, FS_Interval
  <2>2. ExistsBijection(1 .. n, S)
    BY <1>6 DEF ExistsBijection
  <2> QED
    BY <2>1, <2>2, FS_Bijection
<1>8. S = Block
  BY <1>1, <1>5, <1>7, FS_Subset DEF n
<1> QED
  BY <1>3, <1>4, <1>8 DEF S

LEMMA InitHolds ==
    ASSUME Init
    PROVE  IInv
<1> DEFINE e == << >>
           refs == [b \in Block |-> 0]
           hash == [b \in Block |-> NoHash]
<1>1. PICK order \in SetToSeqs(Block) :
          pool = [queue |-> QueueOf(order), refs |-> [b \in Block |-> 0],
                  hash |-> [b \in Block |-> NoHash], index |-> << >>]
  BY DEF Init
<1>2. /\ request = [r \in Req |-> Nobody] /\ table = [r \in Req |-> e]
      /\ cached = [r \in Req |-> 0] /\ error = NoError
  BY DEF Init
<1>3. e \in Seq(Block) /\ Len(e) = 0 /\ ToSet(e) = {} /\ DOMAIN e = {} /\ e = << >>
  BY DEF ToSet
<1>4. pool = [queue |-> QueueOf(order), refs |-> refs, hash |-> hash, index |-> e]
  BY <1>1
<1>5. refs \in [Block -> Nat] /\ (\A b \in Block : refs[b] = 0) /\ (\A b \in Block : hash[b] = NoHash)
      /\ hash = [b \in Block |-> hash[b]]
  OBVIOUS
<1> HIDE DEF e, refs, hash
<1>6. pool.queue = QueueOf(order) /\ pool.refs = refs /\ pool.hash = hash /\ pool.index = e
  BY <1>4
<1>7. order \in Seq(Block) /\ Distinct(order) /\ ToSet(order) = Block
  BY OrderOfBlocks
<1>8. Shape(pool)
  BY <1>4, <1>5, <1>6 DEF Shape
<1>9. FreeList(pool)
  <2> DEFINE c == RowOf(order)
             n == Len(order)
  <2>1. Chain(QueueOf(order), c, n) /\ Listed(c, n) = Block
    BY <1>7, QueueOfChain
  <2> HIDE DEF c, n
  <2>2. \A i \in 1 .. n : c[i] \in Block
    BY <2>1 DEF Chain, Row
  <2>3. Sorted(hash, c, n)
    BY <1>5, <2>2 DEF Sorted
  <2>4. Block = {b \in Block : refs[b] = 0}
    BY <1>5
  <2>5. FreeRow(pool, c, n)
    BY <1>6, <2>1, <2>3, <2>4 DEF FreeRow
  <2> QED
    BY <2>5 DEF FreeList
<1>10. Indexed(pool)
  BY <1>3, <1>5, <1>6 DEF Indexed, Registered
<1>11. PoolInv
  BY <1>8, <1>9, <1>10 DEF PoolInv
<1>12. TableInv
  <2>1. \A r \in Req : Distinct(table[r]) /\ cached[r] <= Len(table[r])
    BY <1>2, <1>3 DEF Distinct
  <2>2. ASSUME NEW b \in Block PROVE pool.refs[b] = Cardinality(Holders(b))
    <3>1. Holders(b) = {}
      BY <1>2, <1>3 DEF Holders
    <3> QED
      BY <1>5, <1>6, <3>1, FS_EmptySet
  <2>3. table \in [Req -> Seq(Block)] /\ cached \in [Req -> Nat]
    BY <1>2, <1>3
  <2> QED
    BY <2>1, <2>2, <2>3 DEF TableInv
<1>13. SealInv
  BY <1>2, <1>3 DEF SealInv
<1>14. HashInv
  BY <1>5, <1>6, EmptyText DEF HashInv, NoHash
<1>15. RequestInv
  BY <1>2, <1>3, NobodyType, NobodyOK DEF RequestInv
<1> QED
  BY <1>2, <1>11, <1>12, <1>13, <1>14, <1>15 DEF IInv

-----------------------------------------------------------------------------
(* The theorems. *)

\* Every step of the scheduler - arriving, admitting, continuing, receiving,
\* releasing, resetting - keeps the free list, the counts, the tables, the
\* registered prefixes and the hash index in agreement, from any such state.
THEOREM InvTheorem == Spec => []IInv
<1>1. Init => IInv
  BY InitHolds
<1>2. IInv /\ [Next]_vars => IInv'
  <2> SUFFICES ASSUME IInv, [Next]_vars PROVE IInv'
    OBVIOUS
  <2>1. ASSUME NEW r \in Req, Arrive(r) \/ Admit(r) \/ Continue(r) \/ Receive(r) \/ Release(r)
        PROVE  IInv'
    BY <2>1, ArriveKeeps, AdmitCalls, ContinueCalls, CallKeeps, ReceiveKeeps, ReleaseKeeps
  <2>2. CASE ResetPrefixCache
    BY <2>2, ResetKeeps
  <2>3. CASE UNCHANGED vars
    <3>1. \A b : Holders(b)' = Holders(b)
      BY <2>3 DEF vars, Holders
    <3> QED
      BY <2>3, <3>1 DEF vars, IInv, PoolInv, TableInv, SealInv, RequestInv, HashInv, Registered
  <2> QED
    BY <2>1, <2>2, <2>3 DEF Next
<1> QED
  BY <1>1, <1>2, PTL DEF Spec

\* A request that passed the checks of allocate_slots gets its blocks: hits are
\* still in the free queue when touch removes them, enough blocks are left after
\* them, and no block is registered twice.
THEOREM FailureTheorem == Spec => []NeverFails
<1>1. IInv => NeverFails
  BY DEF IInv, NeverFails
<1> QED
  BY <1>1, InvTheorem, PTL

\* The free list of get_new_blocks, touch and free_blocks is well linked and
\* holds, once each, exactly the blocks that no table names; reference counts
\* are the numbers of tables.
THEOREM FreeListTheorem == Spec => []FreeListSound
<1>1. ASSUME IInv PROVE FreeListSound
  <2>1. PICK c, n : FreeRow(pool, c, n)
    BY <1>1 DEF IInv, PoolInv, FreeList
  <2>2. WellLinked(pool.queue) /\ ToSet(Order(pool.queue)) = {b \in Block : pool.refs[b] = 0}
    BY <2>1, ChainSound DEF FreeRow
  <2>3. \A b \in Block : pool.refs[b] = Cardinality({r \in Req : b \in ToSet(table[r])})
    BY <1>1 DEF IInv, TableInv, Holders
  <2> QED
    BY <2>2, <2>3 DEF FreeListSound
<1> QED
  BY <1>1, InvTheorem, PTL

\* The hash of a block and cached_block_hash_to_block name each other, whatever
\* was inserted, evicted or reset, and no key keeps an empty set of blocks.
THEOREM IndexTheorem == Spec => []IndexSound
<1>1. ASSUME IInv PROVE IndexSound
  <2>1. Indexed(pool)
    BY <1>1 DEF IInv, PoolInv
  <2> QED
    BY <2>1 DEF Indexed, IndexSound, Registered
<1> QED
  BY <1>1, InvTheorem, PTL

\* free_blocks puts blocks without a hash before those with one, and nothing
\* that is taken or touched out of the queue disturbs that order.
THEOREM EvictionTheorem == Spec => []UnregisteredFirst
<1>1. ASSUME IInv PROVE UnregisteredFirst
  <2>1. PICK c, n : FreeRow(pool, c, n)
    BY <1>1 DEF IInv, PoolInv, FreeList
  <2>2. Chain(pool.queue, c, n) /\ Sorted(pool.hash, c, n)
    BY <2>1 DEF FreeRow
  <2> DEFINE order == Order(pool.queue)
  <2> HIDE DEF order
  <2>3. DOMAIN order = 1 .. n /\ \A i \in 1 .. n : order[i] = c[i]
    BY <2>2, OrderOfChain DEF order
  <2>4. \A i, j \in DOMAIN order :
           i < j /\ pool.hash[order[i]] # NoHash => pool.hash[order[j]] # NoHash
    BY <2>2, <2>3 DEF Sorted
  <2> QED
    BY <2>4 DEF UnregisteredFirst, Registered, order
<1> QED
  BY <1>1, InvTheorem, PTL

\* The links, counts, hashes, texts and tables stay in their types; a table
\* and what is computed never outgrow the length of the model.
THEOREM TypeTheorem == Spec => []TypeOK
<1>1. ASSUME IInv PROVE TypeOK
  <2>1. PoolInv /\ TableInv /\ RequestInv /\ HashInv
    BY <1>1 DEF IInv
  <2>2. pool.queue \in QueueType
    <3>1. PICK c, n : FreeRow(pool, c, n)
      BY <2>1 DEF PoolInv, FreeList
    <3> QED
      BY <3>1 DEF FreeRow, Chain
  <2>3. pool.refs \in [Block -> Nat] /\ pool.hash = [b \in Block |-> pool.hash[b]]
    BY <2>1 DEF PoolInv, Shape
  <2>4. pool.hash \in [Block -> Texts \cup {NoHash}]
    BY <2>1, <2>3 DEF HashInv
  <2>5. ASSUME NEW r \in Req
        PROVE  /\ request[r].text \in Texts /\ request[r].computed <= MaxLen
               /\ table[r] \in Seq(Block) /\ Len(table[r]) <= CeilDiv(MaxLen)
               /\ cached[r] \in 0 .. Len(table[r])
    <3>1. request[r] \in RequestType /\ RequestOK(request[r], table[r], cached[r])
      BY <2>1 DEF RequestInv
    <3>2. /\ request[r].text \in Texts /\ request[r].computed \in Nat /\ request[r].tokens \in Nat
          /\ request[r].due \in Nat /\ MaxLen \in Nat
          /\ request[r].status \in {"none", "waiting", "running"}
      BY <3>1, Sizes DEF RequestType
    <3>3. request[r].computed <= MaxLen
      <4>1. request[r].tokens + request[r].due <= MaxLen
        BY <3>1 DEF RequestOK
      <4>2. request[r].status # "running" => request[r].computed = 0
        BY <3>1 DEF RequestOK
      <4>3. request[r].status = "running"
              => request[r].due = Monus(request[r].computed + 1, request[r].tokens)
        BY <3>1 DEF RequestOK
      <4> QED
        BY <3>2, <4>1, <4>2, <4>3 DEF Monus
    <3>4. Len(table[r]) <= CeilDiv(MaxLen)
      BY <3>1 DEF RequestOK
    <3>5. table[r] \in Seq(Block) /\ cached[r] \in Nat /\ cached[r] <= Len(table[r])
      BY <2>1 DEF TableInv
    <3>6. Len(table[r]) \in Nat
      BY <3>5
    <3> QED
      BY <3>2, <3>3, <3>4, <3>5, <3>6
  <2> QED
    BY <2>2, <2>3, <2>4, <2>5 DEF TypeOK
<1> QED
  BY <1>1, InvTheorem, PTL

\* The text of a request covers its cached blocks.
LEMMA CachedText ==
    ASSUME NEW q \in RequestType, NEW blocks, NEW sealed \in Nat, RequestOK(q, blocks, sealed)
    PROVE  q.text \in Texts /\ Len(q.text) \in Nat /\ sealed <= Len(q.text)
<1>1. q.text \in Texts /\ q.tokens \in Nat
  BY DEF RequestType
<1>2. Len(q.text) \in Nat
  BY <1>1, TextLength
<1>3. sealed <= Filled(q.tokens) /\ CeilDiv(q.tokens) <= Len(q.text)
  BY DEF RequestOK
<1>4. Filled(q.tokens) \in Nat /\ CeilDiv(q.tokens) \in Nat /\ Filled(q.tokens) <= CeilDiv(q.tokens)
  BY <1>1, BlocksOf
<1> QED
  BY <1>1, <1>2, <1>3, <1>4

\* A block that two requests hold, or one twice, is cached for both.
LEMMA SharedBlock ==
    ASSUME IInv, NEW r \in Req, NEW s \in Req, NEW i \in 1 .. Len(table[r]), NEW j \in 1 .. Len(table[s]),
           table[r][i] = table[s][j], <<r, i>> # <<s, j>>
    PROVE  i <= cached[r]
<1> SUFFICES ASSUME ~(i <= cached[r]) PROVE FALSE
  OBVIOUS
<1>1. /\ table[r] \in Seq(Block) /\ table[s] \in Seq(Block) /\ cached[r] \in Nat
      /\ Distinct(table[r]) /\ Len(table[r]) \in Nat /\ Len(table[s]) \in Nat
  BY DEF IInv, TableInv
<1>2. i \in cached[r] + 1 .. Len(table[r])
  BY <1>1
<1>3. table[r][i] \in ToSet(table[s])
  <2>1. j \in DOMAIN table[s]
    BY <1>1
  <2> QED
    BY <2>1 DEF ToSet
<1>4. s = r
  BY <1>2, <1>3 DEF IInv, SealInv
<1>5. i = j
  BY <1>1, <1>4 DEF Distinct
<1> QED
  BY <1>4, <1>5

LEMMA SharedTexts ==
    ASSUME IInv
    PROVE  SharedTextsAgree
<1> DEFINE text == [r \in Req |-> request[r].text]
<1>0. ASSUME NEW r \in Req, NEW s \in Req, NEW i \in DOMAIN table[r], NEW j \in DOMAIN table[s],
             table[r][i] = table[s][j], <<r, i>> # <<s, j>>
      PROVE  i <= Len(text[r]) /\ j <= Len(text[s]) /\ SubSeq(text[r], 1, i) = SubSeq(text[s], 1, j)
  <2>1. /\ table[r] \in Seq(Block) /\ table[s] \in Seq(Block)
    BY DEF IInv, TableInv
  <2>2. i \in 1 .. Len(table[r]) /\ j \in 1 .. Len(table[s]) /\ i \in Nat /\ j \in Nat /\ i > 0 /\ j > 0
    BY <2>1
  <2>3. i <= cached[r] /\ j <= cached[s]
    <3>1. <<s, j>> # <<r, i>>
      BY <1>0
    <3> QED
      BY <1>0, <2>2, <3>1, SharedBlock
  <2>4. /\ cached[r] \in Nat /\ cached[r] <= Len(request[r].text) /\ Len(request[r].text) \in Nat
        /\ cached[s] \in Nat /\ cached[s] <= Len(request[s].text) /\ Len(request[s].text) \in Nat
    BY CachedText DEF IInv, TableInv, RequestInv
  <2>5. i \in 1 .. cached[r] /\ j \in 1 .. cached[s]
    BY <2>2, <2>3, <2>4
  <2>6. pool.hash[table[r][i]] = Key(request[r].text, i) /\ pool.hash[table[s][j]] = Key(request[s].text, j)
    BY <2>5 DEF IInv, SealInv
  <2>7. Key(request[r].text, i) = Key(request[s].text, j)
    BY <1>0, <2>6
  <2>8. i <= Len(request[r].text) /\ j <= Len(request[s].text)
    BY <2>2, <2>3, <2>4
  <2> QED
    BY <2>7, <2>8 DEF Key
<1> HIDE DEF text
<1>1. \A r, s \in Req : \A i \in DOMAIN table[r], j \in DOMAIN table[s] :
         table[r][i] = table[s][j] /\ <<r, i>> # <<s, j>> =>
            i <= Len(text[r]) /\ j <= Len(text[s]) /\ SubSeq(text[r], 1, i) = SubSeq(text[s], 1, j)
  <2> TAKE r, s \in Req
  <2> TAKE i \in DOMAIN table[r], j \in DOMAIN table[s]
  <2> HAVE table[r][i] = table[s][j] /\ <<r, i>> # <<s, j>>
  <2> QED
    BY <1>0
<1> QED
  BY <1>1 DEF SharedTextsAgree, text, Cache!SharedTextsAgree, Cache!PrefixOf

\* A block that is found in two tables, or twice, stands for the same prefix at
\* both places: hits and the registering of blocks never mix two texts.
THEOREM SharedTextsTheorem == Spec => []SharedTextsAgree
  BY SharedTexts, InvTheorem, PTL

-----------------------------------------------------------------------------
(* The steps are those that PrefixCache promises. *)

TextOf == [r \in Req |-> request[r].text]

\* What a step does to one request and its blocks, and to the hashes.
Holding(r, hits, t, s, blocks) ==
    LET old   == Len(table[r])
        fresh == (IF hits > 0 THEN hits ELSE old) + 1 .. Len(blocks)
    IN  /\ t \in Seq(Content) /\ s \in Nat /\ blocks \in Seq(Block)
        /\ Len(blocks) >= old /\ SubSeq(blocks, 1, old) = table[r]
        /\ hits > 0 => old = 0
        /\ \A i \in 1 .. hits : pool.hash[blocks[i]] = Key(t, i)
        /\ \A i \in fresh : Holders(blocks[i]) = {}
        /\ \A i \in fresh : \A j \in 1 .. i - 1 : blocks[j] # blocks[i]
        /\ s >= cached[r] /\ s >= hits /\ s <= Len(blocks) /\ s <= Len(t)
        /\ \A i \in 1 .. cached[r] : Key(t, i) = Key(request[r].text, i)
        /\ TextOf' = [TextOf EXCEPT ![r] = t]
        /\ table' = [table EXCEPT ![r] = blocks]
        /\ cached' = [cached EXCEPT ![r] = s]
        /\ pool'.hash = [b \in Block |->
              IF \E i \in 1 .. s : blocks[i] = b
              THEN Key(t, CHOOSE i \in 1 .. s : blocks[i] = b)
              ELSE IF \E i \in fresh : blocks[i] = b THEN NoHash ELSE pool.hash[b]]

LEMMA GrowingHolds ==
    ASSUME IInv, IInv', NEW r \in Req, NEW hit, NEW new, NEW blocks, NEW text \in Texts, NEW to,
           Growing(r, hit, new, blocks, text, to), Grows(r, hit, blocks, text, to)
    PROVE  Holding(r, Len(hit), text, cached'[r], blocks)
<1> DEFINE hits  == Len(hit)
           old   == Len(table[r])
           s     == cached'[r]
           known == hits + cached[r]
           fresh == (IF hits > 0 THEN hits ELSE old) + 1 .. Len(blocks)
<1>1. /\ HitOK(r, hit) /\ new \in Seq(Block) /\ Extended(r, hit, new, blocks)
      /\ Grown(r, hit, new, blocks, pool', text, to) /\ to \in Nat /\ to <= Len(blocks)
      /\ \A i \in 1 .. known : Key(text, i) = Key(request[r].text, i)
  BY DEF Growing
<1>2. /\ table \in [Req -> Seq(Block)] /\ cached \in [Req -> Nat]
      /\ cached[r] \in Nat /\ cached[r] <= old /\ hits \in Nat /\ old \in Nat /\ table[r] \in Seq(Block)
      /\ DOMAIN table[r] = 1 .. old /\ TableInv /\ SealInv
  BY <1>1 DEF IInv, TableInv, HitOK
<1>3. (hit = << >> /\ hits = 0) \/ old = 0
  BY <1>1 DEF HitOK
<1>4. /\ blocks \in Seq(Block) /\ Len(blocks) \in Nat /\ DOMAIN blocks = 1 .. Len(blocks)
      /\ Distinct(blocks) /\ Len(blocks) >= hits + old
      /\ \A i \in 1 .. hits : blocks[i] = hit[i]
      /\ \A i \in 1 .. old : blocks[hits + i] = table[r][i]
  <2>1. Len(new) \in Nat
    BY <1>1
  <2> QED
    BY <1>1, <1>2, <2>1 DEF Extended
<1>5. /\ table' = [table EXCEPT ![r] = blocks]
      /\ cached' = [cached EXCEPT ![r] = IF to > known THEN to ELSE known]
      /\ request'[r].text = text
      /\ \A x \in Req : x # r => request'[x].text = request[x].text
  BY DEF Grows
<1>6. /\ s \in Nat /\ s >= known /\ s >= to /\ table'[r] = blocks
      /\ cached' = [cached EXCEPT ![r] = s]
  <2>1. s = IF to > known THEN to ELSE known
    BY <1>2, <1>5
  <2> QED
    BY <1>1, <1>2, <1>5, <2>1
<1> HIDE DEF hits, old, s
<1>7. s <= Len(blocks) /\ s <= Len(text)
  <2>1. cached'[r] <= Len(table'[r])
    BY DEF IInv, TableInv
  <2>2. cached'[r] <= Len(request'[r].text)
    <3>1. request'[r] \in RequestType /\ RequestOK(request'[r], table'[r], cached'[r])
      BY DEF IInv, RequestInv
    <3> QED
      BY <1>6, <3>1, CachedText DEF s
  <2> QED
    BY <1>5, <1>6, <2>1, <2>2 DEF s
<1>8. fresh = hits + old + 1 .. Len(blocks)
  BY <1>2, <1>3
<1>9. ASSUME NEW i \in fresh
      PROVE  i \in 1 .. Len(blocks) /\ blocks[i] \in ToSet(new) /\ blocks[i] \in Block
  <2>1. i \in 1 .. Len(blocks) /\ i > hits + old
    BY <1>2, <1>4, <1>8
  <2>2. ~(i \in 1 .. hits) /\ ~(i \in 1 .. old)
    BY <1>2, <2>1
  <2>3. blocks[i] \in ToSet(new)
    BY <1>1, <1>2, <2>1, <2>2, Origin DEF hits, old
  <2> QED
    BY <1>4, <2>1, <2>3
<1>10. \A i \in fresh : Holders(blocks[i]) = {}
  <2>1. \A b \in ToSet(new) : pool.refs[b] = 0
    BY <1>1 DEF Grown
  <2> QED
    BY <1>2, <1>9, <2>1, HeldBlocks
<1>11. \A i \in fresh : \A j \in 1 .. i - 1 : blocks[j] # blocks[i]
  <2> SUFFICES ASSUME NEW i \in fresh, NEW j \in 1 .. i - 1, blocks[j] = blocks[i] PROVE FALSE
    OBVIOUS
  <2>1. i \in 1 .. Len(blocks) /\ j \in 1 .. Len(blocks) /\ i # j
    BY <1>4, <1>9
  <2> QED
    BY <1>4, <2>1 DEF Distinct
<1>12. SubSeq(blocks, 1, old) = table[r]
  <2> DEFINE u == SubSeq(blocks, 1, old)
  <2>1. old \in 0 .. Len(blocks)
    BY <1>2, <1>4
  <2>2. u \in Seq(Block) /\ Len(u) = old /\ \A i \in 1 .. old : u[i] = blocks[i]
    BY <1>4, <2>1
  <2>3. \A i \in 1 .. old : blocks[i] = table[r][i]
    <3> SUFFICES ASSUME NEW i \in 1 .. old PROVE blocks[i] = table[r][i]
      OBVIOUS
    <3>1. hits + i = i
      BY <1>2, <1>3
    <3>2. blocks[hits + i] = table[r][i]
      BY <1>4
    <3> QED
      BY <3>1, <3>2
  <2> HIDE DEF u
  <2>4. Len(table[r]) = old
    BY DEF old
  <2>5. PICK v : v = table[r]
    OBVIOUS
  <2>6. u = [i \in 1 .. old |-> u[i]]
    BY <1>2, <2>2
  <2>7. v = [i \in 1 .. old |-> v[i]]
    BY <1>2, <2>4, <2>5
  <2>8. \A i \in 1 .. old : u[i] = v[i]
    BY <2>2, <2>3, <2>5
  <2>9. u = table[r]
    BY <2>5, <2>6, <2>7, <2>8
  <2> QED
    BY <2>9 DEF u
<1>13. \A i \in 1 .. hits : pool.hash[blocks[i]] = Key(text, i)
  <2>1. \A i \in 1 .. hits : i \in 1 .. known
    BY <1>2
  <2>2. \A i \in 1 .. hits : pool.hash[hit[i]] = Key(request[r].text, i)
    BY <1>1 DEF HitOK, hits
  <2> QED
    BY <1>1, <1>4, <2>1, <2>2
<1>14. \A i \in 1 .. cached[r] : Key(text, i) = Key(request[r].text, i)
  <2>1. \A i \in 1 .. cached[r] : i \in 1 .. known
    BY <1>2
  <2> QED
    BY <1>1, <2>1
<1>15. TextOf' = [TextOf EXCEPT ![r] = text]
  BY <1>5 DEF TextOf
<1>16. /\ pool'.hash = [b \in Block |-> pool'.hash[b]]
       /\ \A i \in 1 .. s : pool'.hash[blocks[i]] = Key(text, i)
       /\ \A i \in s + 1 .. Len(blocks) : pool'.hash[blocks[i]] = NoHash
  <2>1. pool'.hash = [b \in Block |-> pool'.hash[b]]
    BY DEF IInv, PoolInv, Shape
  <2>2. /\ \A i \in 1 .. cached'[r] : pool'.hash[table'[r][i]] = Key(request'[r].text, i)
        /\ \A i \in cached'[r] + 1 .. Len(table'[r]) : pool'.hash[table'[r][i]] = NoHash
    BY DEF IInv, SealInv, Registered
  <2> QED
    BY <1>5, <1>6, <2>1, <2>2 DEF s
<1> DEFINE Became(b) == IF \E i \in 1 .. s : blocks[i] = b
                      THEN Key(text, CHOOSE i \in 1 .. s : blocks[i] = b)
                      ELSE IF \E i \in fresh : blocks[i] = b THEN NoHash ELSE pool.hash[b]
<1>17. ASSUME NEW b \in Block PROVE pool'.hash[b] = Became(b)
  <2>1. CASE \E i \in 1 .. s : blocks[i] = b
    <3> DEFINE x == CHOOSE i \in 1 .. s : blocks[i] = b
    <3>1. x \in 1 .. s /\ blocks[x] = b
      BY <2>1
    <3>2. Became(b) = Key(text, x)
      BY <2>1
    <3> HIDE DEF x, Became
    <3> QED
      BY <1>16, <3>1, <3>2
  <2>2. CASE ~(\E i \in 1 .. s : blocks[i] = b) /\ \E i \in fresh : blocks[i] = b
    <3>1. PICK i \in fresh : blocks[i] = b
      BY <2>2
    <3>2. i \in s + 1 .. Len(blocks)
      <4>1. i \notin 1 .. s
        BY <2>2, <3>1
      <4> HIDE DEF fresh
      <4> QED
        BY <1>4, <1>6, <1>9, <4>1
    <3> QED
      BY <1>16, <2>2, <3>1, <3>2
  <2>3. CASE ~(\E i \in 1 .. s : blocks[i] = b) /\ ~(\E i \in fresh : blocks[i] = b)
    <3>1. CASE b \notin ToSet(blocks)
      <4>1. pool'.hash[b] = pool.hash[b]
        BY <1>1, <3>1 DEF Grown
      <4> QED
        BY <2>3, <4>1
    <3>2. CASE b \in ToSet(blocks)
      <4>1. PICK j \in 1 .. Len(blocks) : blocks[j] = b
        BY <1>4, <3>2 DEF ToSet
      <4>2. j > s /\ j <= hits + old
        BY <1>2, <1>4, <1>6, <1>8, <2>3, <4>1
      <4>3. hits = 0 /\ j \in cached[r] + 1 .. old /\ j \in 1 .. old /\ hits + j = j
        BY <1>2, <1>3, <1>6, <4>1, <4>2
      <4>4. b = table[r][j]
        BY <1>4, <4>1, <4>3
      <4>5. pool.hash[b] = NoHash
        BY <1>2, <4>3, <4>4 DEF SealInv, Registered, old
      <4>6. pool'.hash[b] = NoHash
        BY <1>4, <1>6, <1>16, <4>1, <4>2
      <4> QED
        BY <2>3, <4>5, <4>6
    <3> QED
      BY <3>1, <3>2
  <2> QED
    BY <2>1, <2>2, <2>3
<1>18. pool'.hash = [b \in Block |-> Became(b)]
  <2> HIDE DEF Became
  <2> QED
    BY <1>16, <1>17
<1>19. /\ text \in Seq(Content) /\ Len(blocks) >= old /\ (hits > 0 => old = 0)
       /\ s >= cached[r] /\ s >= hits
  BY <1>2, <1>3, <1>4, <1>6, TextLength
<1> QED
  BY <1>4, <1>5, <1>6, <1>7, <1>10, <1>11, <1>12, <1>13, <1>14, <1>15, <1>18, <1>19
     DEF Holding, hits, old, s

LEMMA HeldBlock ==
    ASSUME NEW b \in Block
    PROVE  b \in Cache!Held <=> Holders(b) # {}
  BY DEF Cache!Held, Holders, ToSet

LEMMA HoldingMaps ==
    ASSUME IInv, NEW r \in Req, NEW hits \in Nat, NEW t, NEW s, NEW blocks,
           Holding(r, hits, t, s, blocks), hits <= Len(blocks)
    PROVE  Cache!Next
<1> DEFINE old   == Len(table[r])
           fresh == (IF hits > 0 THEN hits ELSE old) + 1 .. Len(blocks)
<1>1. table \in [Req -> Seq(Block)] /\ cached \in [Req -> Nat] /\ table[r] \in Seq(Block) /\ old \in Nat
  BY DEF IInv, TableInv
<1>2. /\ t \in Seq(Content) /\ s \in Nat /\ blocks \in Seq(Block)
      /\ Len(blocks) >= old /\ SubSeq(blocks, 1, old) = table[r]
      /\ hits > 0 => old = 0
      /\ \A i \in 1 .. hits : pool.hash[blocks[i]] = Key(t, i)
      /\ \A i \in fresh : Holders(blocks[i]) = {}
      /\ \A i \in fresh : \A j \in 1 .. i - 1 : blocks[j] # blocks[i]
      /\ s >= cached[r] /\ s >= hits /\ s <= Len(blocks) /\ s <= Len(t)
      /\ \A i \in 1 .. cached[r] : Key(t, i) = Key(request[r].text, i)
      /\ TextOf' = [TextOf EXCEPT ![r] = t]
      /\ table' = [table EXCEPT ![r] = blocks]
      /\ cached' = [cached EXCEPT ![r] = s]
      /\ pool'.hash = [b \in Block |->
            IF \E i \in 1 .. s : blocks[i] = b
            THEN Key(t, CHOOSE i \in 1 .. s : blocks[i] = b)
            ELSE IF \E i \in fresh : blocks[i] = b THEN NoHash ELSE pool.hash[b]]
  BY DEF Holding
<1>3. Len(blocks) \in Nat /\ hits \in 0 .. Len(blocks)
  BY <1>2
<1>4. \A i \in fresh : blocks[i] \notin Cache!Held
  <2> SUFFICES ASSUME NEW i \in fresh PROVE blocks[i] \notin Cache!Held
    OBVIOUS
  <2>1. i \in 1 .. Len(blocks)
    BY <1>1, <1>3
  <2>2. blocks[i] \in Block
    BY <1>2, <2>1
  <2> QED
    BY <1>2, <2>2, HeldBlock
<1>5. table'[r] = blocks /\ cached'[r] = s
  BY <1>1, <1>2
<1>6. TextOf'[r] = t /\ \A x \in Req : TextOf[x] = request[x].text
  BY <1>2 DEF TextOf
<1> HIDE DEF old, fresh
<1>9. Cache!Hold(r, hits, t, s, blocks)
  <2>1. TextOf[r] = request[r].text
    BY <1>6
  <2> QED
    BY <1>2, <1>4, <2>1
       DEF Cache!Hold, Cache!Prefix, Cache!PrefixOf, Cache!NoHash, NoHash, Key, TextOf, old, fresh
<1>7. Cache!Hold(r, hits, TextOf'[r], cached'[r], table'[r])
  BY <1>5, <1>6, <1>9 DEF Cache!Hold
<1>8. hits \in 0 .. Len(table'[r])
  BY <1>3, <1>5
<1> QED
  BY <1>7, <1>8 DEF Cache!Next, TextOf

\* A step that gives a request no blocks and registers none.
LEMMA StaysMaps ==
    ASSUME IInv, NEW r \in Req, NEW text \in Texts, UNCHANGED <<pool, table, cached>>,
           TextOf' = [TextOf EXCEPT ![r] = text], cached[r] <= Len(text),
           \A i \in 1 .. cached[r] : Key(text, i) = Key(request[r].text, i)
    PROVE  Cache!Next
<1>0. PICK t, s : t = table[r] /\ s = cached[r]
  OBVIOUS
<1> DEFINE Became(b) == IF \E i \in 1 .. s : t[i] = b
                        THEN Key(text, CHOOSE i \in 1 .. s : t[i] = b)
                        ELSE IF \E i \in Len(t) + 1 .. Len(t) : t[i] = b THEN NoHash ELSE pool.hash[b]
<1>1. /\ table \in [Req -> Seq(Block)] /\ cached \in [Req -> Nat] /\ t \in Seq(Block)
      /\ s \in Nat /\ s <= Len(t) /\ Len(t) \in Nat
  BY <1>0 DEF IInv, TableInv
<1>2. pool.hash = [b \in Block |-> pool.hash[b]]
  BY DEF IInv, PoolInv, Shape
<1>3. \A i \in 1 .. s : pool.hash[t[i]] = Key(text, i)
  BY <1>0 DEF IInv, SealInv
<1>4. ASSUME NEW b \in Block PROVE pool.hash[b] = Became(b)
  <2>1. CASE \E i \in 1 .. s : t[i] = b
    <3> DEFINE x == CHOOSE i \in 1 .. s : t[i] = b
    <3>1. x \in 1 .. s /\ t[x] = b
      BY <2>1
    <3>2. Became(b) = Key(text, x)
      BY <2>1
    <3> HIDE DEF x, Became
    <3> QED
      BY <1>3, <3>1, <3>2
  <2>2. CASE ~\E i \in 1 .. s : t[i] = b
    BY <1>1, <2>2
  <2> QED
    BY <2>1, <2>2
<1>5. pool'.hash = [b \in Block |-> Became(b)]
  <2> HIDE DEF Became
  <2> QED
    BY <1>2, <1>4
<1>6. SubSeq(t, 1, Len(t)) = t
  BY <1>1
<1>7. table' = [table EXCEPT ![r] = t] /\ cached' = [cached EXCEPT ![r] = s]
  BY <1>0, <1>1
<1>8. Len(t) + 1 .. Len(t) = {}
  BY <1>1
<1>9. text \in Seq(Content)
  BY TextLength
<1> HIDE DEF Became
<1> DEFINE z     == 0
           old   == Len(table[r])
           fresh == (IF z > 0 THEN z ELSE old) + 1 .. Len(t)
<1>10. old = Len(t) /\ fresh = {} /\ z \in Nat /\ z <= Len(t) /\ ~(z > 0) /\ s >= z /\ 1 .. z = {}
  BY <1>0, <1>1
<1>11. pool'.hash = [b \in Block |->
              IF \E i \in 1 .. s : t[i] = b
              THEN Key(text, CHOOSE i \in 1 .. s : t[i] = b)
              ELSE IF \E i \in fresh : t[i] = b THEN NoHash ELSE pool.hash[b]]
  <2> HIDE DEF fresh, z
  <2> QED
    BY <1>5, <1>8, <1>10 DEF Became
<1>12. /\ Len(t) >= old /\ SubSeq(t, 1, old) = table[r]
       /\ s >= cached[r] /\ s <= Len(text)
  BY <1>0, <1>1, <1>6
<1> HIDE DEF old, fresh, z
<1>13. Holding(r, z, text, s, t)
  BY <1>1, <1>7, <1>9, <1>10, <1>11, <1>12 DEF Holding, old, fresh
<1> QED
  BY <1>1, <1>10, <1>13, HoldingMaps

\* An allocation, and what a request learns, gives it blocks or seals some.
LEMMA CallMaps ==
    ASSUME IInv, IInv', NEW r \in Req, Calls(r)
    PROVE  Cache!Next
<1>1. PICK hit, start, n, slots, text :
          Room(r, hit, start, n, slots, text) /\ AllocateSlots(r, hit, start, n, slots, text)
  BY DEF Calls
<1>2. Granted(r, hit, start, n, slots, text)
  BY <1>1, AllocateGrants
<1>3. PICK new, blocks :
        /\ Growing(r, hit, new, blocks, text, Filled(Commit(r, start + n)))
        /\ Grows(r, hit, blocks, text, Filled(Commit(r, start + n)))
  BY <1>2 DEF Granted
<1>4. text \in Texts
  BY <1>1 DEF Room
<1> DEFINE to == Filled(Commit(r, start + n))
<1>5. Growing(r, hit, new, blocks, text, to) /\ Grows(r, hit, blocks, text, to)
  BY <1>3
<1> HIDE DEF to
<1>6. PICK s, h : s = cached'[r] /\ h = Len(hit)
  OBVIOUS
<1>7. Holding(r, h, text, s, blocks)
  BY <1>4, <1>5, <1>6, GrowingHolds
<1>8. h \in Nat /\ h <= Len(blocks)
  <2>1. HitOK(r, hit) /\ new \in Seq(Block) /\ Extended(r, hit, new, blocks)
    BY <1>5 DEF Growing
  <2>2. /\ Len(hit) \in Nat /\ Len(new) \in Nat /\ Len(table[r]) \in Nat
        /\ Len(blocks) = Len(hit) + Len(table[r]) + Len(new)
    BY <2>1 DEF HitOK, Extended, IInv, TableInv
  <2> QED
    BY <1>6, <2>2
<1> QED
  BY <1>7, <1>8, HoldingMaps

LEMMA LearnedMaps ==
    ASSUME IInv, IInv', NEW r \in Req, Learned(r)
    PROVE  Cache!Next
<1>1. PICK text \in Texts :
        /\ request'[r].text = text /\ \A s \in Req : s # r => request'[s].text = request[s].text
        /\ \A i \in 1 .. cached[r] : Key(text, i) = Key(request[r].text, i)
        /\ \/ UNCHANGED <<pool, table, cached>>
           \/ \E none, to : none = << >> /\ Growing(r, none, none, table[r], text, to)
                                        /\ Grows(r, none, table[r], text, to)
  BY DEF Learned
<1>2. CASE UNCHANGED <<pool, table, cached>>
  <2>1. TextOf' = [TextOf EXCEPT ![r] = text]
    BY <1>1 DEF TextOf
  <2>2. cached[r] <= Len(text)
    <3>1. request'[r] \in RequestType /\ cached'[r] \in Nat /\ RequestOK(request'[r], table'[r], cached'[r])
      BY DEF IInv, RequestInv, TableInv
    <3>2. cached'[r] <= Len(request'[r].text)
      BY <3>1, CachedText
    <3> QED
      BY <1>1, <1>2, <3>2
  <2> QED
    BY <1>1, <1>2, <2>1, <2>2, StaysMaps
<1>3. CASE \E none, to : none = << >> /\ Growing(r, none, none, table[r], text, to)
                                    /\ Grows(r, none, table[r], text, to)
  <2>1. PICK none, to : none = << >> /\ Growing(r, none, none, table[r], text, to)
                                    /\ Grows(r, none, table[r], text, to)
    BY <1>3
  <2>2. PICK s, h, t : s = cached'[r] /\ h = Len(none) /\ t = table[r]
    OBVIOUS
  <2>3. Holding(r, h, text, s, t)
    BY <2>1, <2>2, GrowingHolds
  <2>4. h = 0 /\ Len(t) \in Nat
    BY <2>1, <2>2 DEF IInv, TableInv
  <2>5. h \in Nat /\ h <= Len(t)
    BY <2>4
  <2> QED
    BY <2>3, <2>5, HoldingMaps
<1> QED
  BY <1>1, <1>2, <1>3

\* A request that has arrived, or has given its blocks back, has none.
LEMMA EmptyMaps ==
    ASSUME IInv, IInv', NEW r \in Req, table' = [table EXCEPT ![r] = << >>],
           cached' = [cached EXCEPT ![r] = 0], pool'.hash = pool.hash,
           \A s \in Req : s # r => request'[s].text = request[s].text
    PROVE  Cache!Next
<1> DEFINE t == request'[r].text
<1>1. t \in Seq(Content)
  <2>1. request'[r] \in RequestType
    BY DEF IInv, RequestInv
  <2>2. t \in Texts
    BY <2>1 DEF RequestType
  <2> HIDE DEF t
  <2> QED
    BY <2>2, TextLength
<1>2. TextOf' = [TextOf EXCEPT ![r] = t] /\ TextOf'[r] = t
  BY DEF TextOf
<1> HIDE DEF t
<1>3. Cache!Release(r, TextOf'[r])
  BY <1>1, <1>2 DEF Cache!Release, Cache!Prefix, TextOf
<1> QED
  BY <1>3 DEF Cache!Next, TextOf

LEMMA ArriveMaps ==
    ASSUME IInv, IInv', NEW r \in Req, Arrive(r)
    PROVE  Cache!Next
<1> DEFINE e == << >>
<1>1. UNCHANGED <<pool, table, cached>> /\ request[r].status = "none"
  BY DEF Arrive
<1>2. /\ table \in [Req -> Seq(Block)] /\ cached \in [Req -> Nat] /\ cached[r] <= Len(table[r])
      /\ RequestOK(request[r], table[r], cached[r]) /\ request \in [Req -> RequestType]
  BY DEF IInv, TableInv, RequestInv
<1>3. table[r] = e
  BY <1>1, <1>2 DEF RequestOK
<1>4. cached[r] = 0
  <2>1. cached[r] \in Nat /\ Len(e) = 0
    BY <1>2
  <2> QED
    BY <1>2, <1>3, <2>1
<1>5. \A s \in Req : s # r => request'[s].text = request[s].text
  <2>1. PICK z : request' = [request EXCEPT ![r] = z]
    BY DEF Arrive
  <2> QED
    BY <1>2, <2>1
<1> HIDE DEF e
<1>6. table' = [table EXCEPT ![r] = e] /\ cached' = [cached EXCEPT ![r] = 0] /\ pool'.hash = pool.hash
  BY <1>1, <1>2, <1>3, <1>4
<1> QED
  BY <1>5, <1>6, EmptyMaps DEF e

LEMMA ReleaseMaps ==
    ASSUME IInv, IInv', NEW r \in Req, Release(r)
    PROVE  Cache!Next
<1>1. pool'.hash = pool.hash
  <2>1. pool' = FreeBlocks(pool, FreeingOrder(table[r]))
    BY DEF Release
  <2>2. pool = [queue |-> pool.queue, refs |-> pool.refs, hash |-> pool.hash, index |-> pool.index]
    BY DEF IInv, PoolInv, Shape
  <2> QED
    BY <2>1, <2>2 DEF FreeBlocks
<1>2. request \in [Req -> RequestType]
  BY DEF IInv, RequestInv
<1>3. \A s \in Req : s # r => request'[s].text = request[s].text
  <2>1. PICK z : request' = [request EXCEPT ![r] = z]
    BY DEF Release
  <2> QED
    BY <1>2, <2>1
<1>4. table' = [table EXCEPT ![r] = << >>] /\ cached' = [cached EXCEPT ![r] = 0]
  BY DEF Release
<1> QED
  BY <1>1, <1>3, <1>4, EmptyMaps

LEMMA ResetMaps ==
    ASSUME IInv, ResetPrefixCache
    PROVE  Cache!Next
<1>1. /\ pool.queue.num = Cardinality(Block)
      /\ pool' = [pool EXCEPT !.hash = [b \in Block |-> NoHash], !.index = << >>]
      /\ UNCHANGED <<request, table, cached>>
  BY DEF ResetPrefixCache
<1>2. \A b \in Block : Holders(b) = {}
  BY <1>1, NobodyHolds
<1>3. Cache!Held = {}
  BY <1>2, HeldBlock DEF Cache!Held
<1>4. pool'.hash = [b \in Block |-> NoHash]
  <2>1. pool = [queue |-> pool.queue, refs |-> pool.refs, hash |-> pool.hash, index |-> pool.index]
    BY DEF IInv, PoolInv, Shape
  <2> QED
    BY <1>1, <2>1
<1>5. Cache!Forget
  BY <1>1, <1>3, <1>4 DEF Cache!Forget, Cache!NoHash, NoHash
<1> QED
  BY <1>5 DEF Cache!Next

\* The pool implements PrefixCache: the abstract steps are those of the
\* requests and of reset_prefix_cache, and nothing else is promised.
THEOREM RefinementTheorem == Spec => ImplementsPrefixCache
<1>1. Init => Cache!Init
  BY DEF Init, Cache!Init, Nobody, Cache!NoHash, NoHash
<1>2. IInv /\ IInv' /\ [Next]_vars => [Cache!Next]_(Cache!vars)
  <2> SUFFICES ASSUME IInv, IInv', [Next]_vars PROVE [Cache!Next]_(Cache!vars)
    OBVIOUS
  <2>1. ASSUME NEW r \in Req, Arrive(r) \/ Admit(r) \/ Continue(r) \/ Receive(r) \/ Release(r)
        PROVE  Cache!Next
    BY <2>1, ArriveMaps, AdmitCalls, ContinueCalls, CallMaps, ReceiveKeeps, LearnedMaps, ReleaseMaps
  <2>2. CASE ResetPrefixCache
    BY <2>2, ResetMaps
  <2>3. CASE UNCHANGED vars
    BY <2>3 DEF vars, Cache!vars
  <2> QED
    BY <2>1, <2>2, <2>3 DEF Next
<1> QED
  BY <1>1, <1>2, InvTheorem, PTL DEF Spec, Cache!Spec, ImplementsPrefixCache

-----------------------------------------------------------------------------
(* The rows. *)

\* Where block i of a table lies in a text of c tokens.
LEMMA Within ==
    ASSUME NEW c \in Nat, NEW i \in Nat \ {0}, NEW f, f = (i - 1) * BlockSize
    PROVE  /\ f \in Nat
           /\ i <= Filled(c) => f + BlockSize <= c
           /\ i > Filled(c) => c < f + BlockSize
           /\ i <= CeilDiv(c) => f < c
           /\ i > Filled(c) + 1 => c < f
           /\ i > CeilDiv(c) => c <= f
<1> DEFINE d == BlockSize
<1>1. d \in Nat \ {0} /\ i - 1 \in Nat
  BY Sizes
<1>2. f = (i - 1) * d
  OBVIOUS
<1> HIDE DEF d
<1>3. f \in Nat /\ i * d = f + d /\ i * d \in Nat
  BY <1>1, <1>2
<1>4. ASSUME NEW x \in Nat, NEW y \in Nat
      PROVE  /\ y <= Filled(x) => y * d <= x
             /\ y > Filled(x) => x < y * d
  <2> DEFINE q == Filled(x)
             m == x % d
  <2>1. q \in Nat /\ m \in 0 .. d - 1 /\ x = d * q + m
    BY <1>1, DivMod DEF Filled, d
  <2> HIDE DEF q, m
  <2>2. CASE y <= q
    <3>1. d * y <= d * q
      BY <1>1, <2>1, <2>2, TimesMonotone
    <3> QED
      BY <1>1, <2>1, <2>2, <3>1 DEF q
  <2>3. CASE y > q
    <3>1. d * (q + 1) <= d * y
      BY <1>1, <2>1, <2>3, TimesMonotone
    <3>2. d * (q + 1) = d * q + d /\ d * y = y * d /\ y * d \in Nat
      BY <1>1, <2>1
    <3> QED
      BY <1>1, <2>1, <2>3, <3>1, <3>2 DEF q
  <2> QED
    BY <2>1, <2>2, <2>3 DEF q
<1>5. i <= Filled(c) => f + d <= c
  BY <1>3, <1>4
<1>6. i > Filled(c) => c < f + d
  BY <1>3, <1>4
<1>7. i <= CeilDiv(c) => f < c
  <2> SUFFICES ASSUME i <= CeilDiv(c) PROVE f < c
    OBVIOUS
  <2>1. c # 0
    <3> SUFFICES ASSUME c = 0 PROVE FALSE
      OBVIOUS
    <3>1. CeilDiv(c) = 0
      BY NothingHeld
    <3> QED
      BY <3>1
  <2>2. PICK e : e = c - 1
    OBVIOUS
  <2>3. e \in Nat /\ e + 1 = c
    BY <2>1, <2>2
  <2>4. CeilDiv(c) = Filled(e) + 1 /\ Filled(e) \in Nat
    BY <2>3, BlocksOf
  <2>5. i - 1 <= Filled(e)
    BY <2>4
  <2>6. (i - 1) * d <= e
    BY <1>1, <1>4, <2>3, <2>5
  <2> QED
    BY <1>2, <1>3, <2>3, <2>6
<1>8. ASSUME NEW x \in Nat, i > Filled(x) + 1
      PROVE  x < f
  <2>1. Filled(x) \in Nat
    BY BlocksOf
  <2>2. i - 1 > Filled(x)
    BY <1>8, <2>1
  <2> QED
    BY <1>1, <1>2, <1>4, <2>2
<1>9. i > CeilDiv(c) => c <= f
  <2> SUFFICES ASSUME i > CeilDiv(c) PROVE c <= f
    OBVIOUS
  <2>1. CASE c = 0
    BY <1>3, <2>1
  <2>2. CASE c # 0
    <3>1. PICK e : e = c - 1
      OBVIOUS
    <3>2. e \in Nat /\ e + 1 = c
      BY <2>2, <3>1
    <3>3. CeilDiv(c) = Filled(e) + 1
      BY <3>2, BlocksOf
    <3>4. e < f
      BY <1>8, <3>2, <3>3
    <3> QED
      BY <1>3, <3>2, <3>4
  <2> QED
    BY <2>1, <2>2
<1> QED
  BY <1>3, <1>5, <1>6, <1>7, <1>8, <1>9 DEF d

\* What becomes of the rows o of block i of a request.
RowAfter(o, text, i, from, to) ==
    LET first == (i - 1) * BlockSize
    IN  IF from > first /\ (o.key # Key(text, i) \/ o.n < from - first) THEN o
        ELSE [key |-> Key(text, i), n |-> Lesser(BlockSize, to - first)]

\* w is old after the tokens from..to of a request have been written.
RowsAfter(w, old, text, blocks, from, to) ==
    /\ w = [b \in Block |-> w[b]]
    /\ \A b \in Block : b \notin ToSet(blocks) => w[b] = old[b]
    /\ \A j \in 1 .. Len(blocks) :
          w[blocks[j]] = IF j \in Filled(from) + 1 .. CeilDiv(to)
                         THEN RowAfter(old[blocks[j]], text, j, from, to)
                         ELSE old[blocks[j]]

LEMMA WrittenRows ==
    ASSUME NEW old, NEW text, NEW blocks \in Seq(Block), Distinct(blocks), NEW from \in Nat, NEW to \in Nat,
           CeilDiv(to) <= Len(blocks), NEW w, w = Written(old, text, blocks, from, to)
    PROVE  RowsAfter(w, old, text, blocks, from, to)
<1> DEFINE I(b) == {i \in Filled(from) + 1 .. CeilDiv(to) : blocks[i] = b}
           W(b) == IF I(b) = {} THEN old[b]
                   ELSE RowAfter(old[b], text, CHOOSE i \in I(b) : TRUE, from, to)
<1>1. w = [b \in Block |-> W(b)]
  BY DEF Written, RowAfter, Filled
<1>2. Filled(from) \in Nat /\ CeilDiv(to) \in Nat /\ Len(blocks) \in Nat /\ DOMAIN blocks = 1 .. Len(blocks)
  BY BlocksOf
<1>3. \A i \in Filled(from) + 1 .. CeilDiv(to) : i \in 1 .. Len(blocks) /\ blocks[i] \in Block
  BY <1>2
<1>4. ASSUME NEW b \in Block, b \notin ToSet(blocks) PROVE w[b] = old[b]
  <2>1. I(b) = {}
    BY <1>2, <1>3, <1>4 DEF ToSet
  <2> QED
    BY <1>1, <2>1
<1>5. ASSUME NEW j \in 1 .. Len(blocks)
      PROVE  w[blocks[j]] = IF j \in Filled(from) + 1 .. CeilDiv(to)
                            THEN RowAfter(old[blocks[j]], text, j, from, to)
                            ELSE old[blocks[j]]
  <2> DEFINE b == blocks[j]
  <2>1. b \in Block
    BY <1>2
  <2>2. \A i \in I(b) : i = j
    BY <1>3 DEF Distinct
  <2>3. CASE j \in Filled(from) + 1 .. CeilDiv(to)
    <3>1. I(b) = {j}
      BY <2>2, <2>3
    <3>2. (CHOOSE i \in I(b) : TRUE) = j /\ I(b) # {}
      BY <3>1
    <3>3. W(b) = RowAfter(old[b], text, j, from, to)
      BY <3>2
    <3> QED
      BY <1>1, <2>1, <2>3, <3>3
  <2>4. CASE j \notin Filled(from) + 1 .. CeilDiv(to)
    <3>1. I(b) = {}
      BY <2>2, <2>4
    <3> QED
      BY <1>1, <2>1, <2>4, <3>1
  <2> QED
    BY <2>3, <2>4
<1> HIDE DEF W
<1> QED
  BY <1>1, <1>4, <1>5 DEF RowsAfter

\* w are the rows after the tokens of a request beyond the first c have been
\* taken back.
RowsLeft(w, blocks, c) ==
    /\ w = [b \in Block |-> w[b]]
    /\ \A b \in Block : b \notin ToSet(blocks) => w[b] = rows[b]
    /\ \A j \in 1 .. Len(blocks) :
          w[blocks[j]] = IF j <= Filled(c) THEN rows[blocks[j]]
                         ELSE IF Monus(c, (j - 1) * BlockSize) = 0 THEN NoRows
                         ELSE [rows[blocks[j]] EXCEPT !.n = Monus(c, (j - 1) * BlockSize)]

LEMMA RolledRows ==
    ASSUME NEW blocks \in Seq(Block), Distinct(blocks), NEW c \in Nat, NEW w, w = RolledBack(blocks, c)
    PROVE  RowsLeft(w, blocks, c)
<1> DEFINE Place(b)  == CHOOSE i \in DOMAIN blocks : blocks[i] = b
           Row1(b, i) == IF Monus(c, (i - 1) * BlockSize) = 0 THEN NoRows
                         ELSE [rows[b] EXCEPT !.n = Monus(c, (i - 1) * BlockSize)]
           W(b) == IF \E i \in Filled(c) + 1 .. Len(blocks) : blocks[i] = b
                   THEN Row1(b, Place(b)) ELSE rows[b]
<1>1. w = [b \in Block |-> W(b)]
  BY DEF RolledBack, Filled
<1>2. Filled(c) \in Nat /\ Len(blocks) \in Nat /\ DOMAIN blocks = 1 .. Len(blocks)
  BY BlocksOf
<1>3. ASSUME NEW b \in Block, b \notin ToSet(blocks) PROVE w[b] = rows[b]
  <2>1. ~ \E i \in Filled(c) + 1 .. Len(blocks) : blocks[i] = b
    BY <1>2, <1>3 DEF ToSet
  <2> QED
    BY <1>1, <2>1
<1>4. ASSUME NEW j \in 1 .. Len(blocks)
      PROVE  w[blocks[j]] = IF j <= Filled(c) THEN rows[blocks[j]] ELSE Row1(blocks[j], j)
  <2> DEFINE b == blocks[j]
  <2>1. b \in Block
    BY <1>2
  <2>2. \A i \in DOMAIN blocks : blocks[i] = b => i = j
    BY <1>2 DEF Distinct
  <2>3. Place(b) = j
    <3>1. j \in DOMAIN blocks /\ blocks[j] = b
      BY <1>2
    <3> HIDE DEF b
    <3> QED
      BY <2>2, <3>1
  <2>4. CASE j <= Filled(c)
    <3>1. ~ \E i \in Filled(c) + 1 .. Len(blocks) : blocks[i] = b
      BY <1>2, <2>2, <2>4
    <3> QED
      BY <1>1, <2>1, <2>4, <3>1
  <2>5. CASE j > Filled(c)
    <3>1. j \in Filled(c) + 1 .. Len(blocks) /\ blocks[j] = b
      BY <1>2, <2>5
    <3>2. W(b) = Row1(b, Place(b))
      BY <3>1
    <3> HIDE DEF W, Row1, Place, b
    <3>3. w[b] = Row1(b, j)
      BY <1>1, <2>1, <2>3, <3>2
    <3> QED
      BY <1>2, <2>5, <3>3 DEF b
  <2> QED
    BY <1>2, <2>4, <2>5
<1> HIDE DEF W
<1> QED
  BY <1>1, <1>3, <1>4 DEF RowsLeft

\* Rows of a block are of one text, and no more than fit into it.
RowShape(w) ==
    /\ w = [b \in Block |-> w[b]]
    /\ \A b \in Block : /\ w[b] = [key |-> w[b].key, n |-> w[b].n]
                        /\ w[b].n \in Nat /\ w[b].n <= BlockSize

\* What a request reads of c tokens of its text is there.
Reads(w, blocks, text, c) ==
    \A i \in 1 .. CeilDiv(c) :
        /\ w[blocks[i]].key = Key(text, i)
        /\ w[blocks[i]].n >= Lesser(BlockSize, c - (i - 1) * BlockSize)

Promised(w, p) == \A b \in Block : Registered(p, b) => w[b] = [key |-> p.hash[b], n |-> BlockSize]

RowInv ==
    /\ RowShape(rows) /\ Promised(rows, pool)
    /\ \A r \in Req : Reads(rows, table[r], request[r].text, request[r].computed)

\* A registered block that somebody holds has its rows because they are read.
LEMMA HeldPromised ==
    ASSUME IInv', RowShape(rows'),
           \A r \in Req : Reads(rows', table'[r], request'[r].text, request'[r].computed),
           \A b \in Block : Holders(b)' = {} /\ Registered(pool', b)
                                => rows'[b] = [key |-> pool'.hash[b], n |-> BlockSize]
    PROVE  Promised(rows', pool')
<1> SUFFICES ASSUME NEW b \in Block, Registered(pool', b), Holders(b)' # {}
             PROVE  rows'[b] = [key |-> pool'.hash[b], n |-> BlockSize]
  BY DEF Promised
<1>1. PICK r \in Req : b \in ToSet(table'[r])
  BY DEF Holders
<1>2. table'[r] \in Seq(Block) /\ cached'[r] \in Nat /\ cached'[r] <= Len(table'[r])
  BY DEF IInv, TableInv
<1>3. PICK i \in 1 .. Len(table'[r]) : table'[r][i] = b
  BY <1>1, <1>2 DEF ToSet
<1>4. i \in 1 .. cached'[r]
  <2> SUFFICES ASSUME i \notin 1 .. cached'[r] PROVE FALSE
    OBVIOUS
  <2>1. i \in cached'[r] + 1 .. Len(table'[r])
    BY <1>2
  <2>2. ~Registered(pool', table'[r][i])
    BY <2>1 DEF IInv, SealInv
  <2> QED
    BY <1>3, <2>2
<1>5. pool'.hash[b] = Key(request'[r].text, i)
  BY <1>3, <1>4 DEF IInv, SealInv
<1>6. request'[r] \in RequestType /\ RequestOK(request'[r], table'[r], cached'[r])
  BY DEF IInv, RequestInv
<1> DEFINE c == request'[r].computed
           f == (i - 1) * BlockSize
<1>7. c \in Nat /\ cached'[r] <= Filled(c)
  BY <1>6 DEF RequestType, RequestOK
<1> HIDE DEF c
<1>8. Filled(c) \in Nat /\ CeilDiv(c) \in Nat /\ Filled(c) <= CeilDiv(c)
  BY <1>7, BlocksOf
<1>9. i \in Nat \ {0} /\ i <= Filled(c) /\ i \in 1 .. CeilDiv(c)
  BY <1>2, <1>4, <1>7, <1>8
<1>10. rows'[b].key = Key(request'[r].text, i) /\ rows'[b].n >= Lesser(BlockSize, c - f)
  BY <1>3, <1>9 DEF Reads, c
<1> HIDE DEF f
<1>11. f \in Nat /\ f + BlockSize <= c
  BY <1>7, <1>9, Within DEF f
<1>12. Lesser(BlockSize, c - f) = BlockSize
  BY <1>7, <1>11, Sizes DEF Lesser
<1>13. rows'[b] = [key |-> rows'[b].key, n |-> rows'[b].n] /\ rows'[b].n \in Nat /\ rows'[b].n <= BlockSize
  BY DEF RowShape
<1>14. rows'[b].n = BlockSize
  BY <1>10, <1>12, <1>13, Sizes
<1> QED
  BY <1>5, <1>10, <1>13, <1>14

\* What a request has read before an allocation is in its blocks after it.
LEMMA ReadBefore ==
    ASSUME IInv, RowInv, NEW r \in Req, NEW hit, NEW start, NEW n, NEW slots, NEW text,
           Room(r, hit, start, n, slots, text), NEW new, NEW blocks, NEW to,
           Growing(r, hit, new, blocks, text, to), NEW j \in 1 .. CeilDiv(start)
    PROVE  /\ j <= Len(blocks) /\ blocks[j] \in Block /\ blocks[j] \notin ToSet(new)
           /\ rows[blocks[j]].key = Key(text, j)
           /\ rows[blocks[j]].n >= Lesser(BlockSize, start - (j - 1) * BlockSize)
<1> DEFINE q == request[r]
           f == (j - 1) * BlockSize
<1>1. /\ HitOK(r, hit) /\ new \in Seq(Block) /\ Extended(r, hit, new, blocks)
      /\ \A b \in ToSet(new) : pool.refs[b] = 0 /\ b \notin ToSet(hit)
  BY DEF Growing, Grown
<1>2. /\ start \in Nat /\ \A i \in 1 .. Len(hit) + cached[r] : Key(text, i) = Key(q.text, i)
      /\ \A i \in 0 .. Len(q.text) : Key(text, i) = Key(q.text, i)
      /\ start = Len(hit) * BlockSize \/ (Len(hit) = 0 /\ start = q.computed)
  BY DEF Room
<1>3. /\ table[r] \in Seq(Block) /\ cached[r] \in Nat /\ Len(table[r]) \in Nat
      /\ Len(hit) \in Nat /\ hit \in Seq(Block) /\ Len(new) \in Nat
  BY <1>1 DEF IInv, TableInv, HitOK
<1>4. /\ blocks \in Seq(Block) /\ Len(blocks) = Len(hit) + Len(table[r]) + Len(new)
      /\ \A i \in 1 .. Len(hit) : blocks[i] = hit[i]
      /\ \A i \in 1 .. Len(table[r]) : blocks[Len(hit) + i] = table[r][i]
  BY <1>1 DEF Extended
<1>5. j \in Nat \ {0} /\ CeilDiv(start) \in Nat
  BY <1>2, BlocksOf
<1>6. f \in Nat /\ f < start
  BY <1>2, <1>5, Within
<1>7. CASE start = Len(hit) * BlockSize
  <2>1. j \in 1 .. Len(hit)
    BY <1>3, <1>7, BlocksOf
  <2>2. blocks[j] = hit[j] /\ hit[j] \in Block /\ hit[j] \in ToSet(hit)
    <3>1. j \in DOMAIN hit
      BY <1>3, <2>1
    <3> QED
      BY <1>3, <1>4, <2>1, <3>1 DEF ToSet
  <2>3. pool.hash[hit[j]] = Key(q.text, j) /\ Key(q.text, j) # NoHash
    BY <1>1, <1>5, <2>1, KeyNotEmpty DEF HitOK
  <2>4. rows[hit[j]] = [key |-> Key(q.text, j), n |-> BlockSize]
    BY <2>2, <2>3 DEF RowInv, Promised, Registered
  <2>5. Key(text, j) = Key(q.text, j)
    <3>1. j \in 1 .. Len(hit) + cached[r]
      BY <1>3, <2>1
    <3> QED
      BY <1>2, <3>1
  <2> HIDE DEF f, q
  <2>6. BlockSize >= Lesser(BlockSize, start - f)
    BY <1>2, <1>6, Sizes DEF Lesser
  <2>7. j <= Len(blocks)
    BY <1>3, <1>4, <2>1
  <2> QED
    BY <1>1, <2>2, <2>4, <2>5, <2>6, <2>7 DEF f
<1>8. CASE Len(hit) = 0 /\ start = q.computed
  <2>1. q \in RequestType /\ RequestOK(q, table[r], cached[r])
    BY DEF IInv, RequestInv
  <2>2. CeilDiv(start) <= Len(table[r]) /\ CeilDiv(start) <= Len(q.text) /\ Len(q.text) \in Nat
    <3>1. q.status = "running"
      <4>1. q.status # "running" => start = 0
        BY <1>8, <2>1 DEF RequestOK
      <4> QED
        BY <1>6, <4>1
    <3>2. q.text \in Texts
      BY <2>1 DEF RequestType
    <3> QED
      BY <1>8, <2>1, <3>1, <3>2, TextLength DEF RequestOK
  <2>3. j \in 1 .. Len(table[r]) /\ j \in 0 .. Len(q.text) /\ Len(hit) + j = j
    BY <1>3, <1>5, <1>8, <2>2
  <2>4. blocks[j] = table[r][j]
    <3>1. blocks[Len(hit) + j] = table[r][j]
      BY <1>4, <2>3
    <3> QED
      BY <2>3, <3>1
  <2>5. table[r][j] \in Block /\ table[r][j] \in ToSet(table[r])
    <3>1. j \in DOMAIN table[r]
      BY <1>3, <2>3
    <3> QED
      BY <1>3, <3>1 DEF ToSet
  <2>6. table[r][j] \notin ToSet(new)
    <3>1. r \in Holders(table[r][j])
      BY <2>5 DEF Holders
    <3>2. pool.refs[table[r][j]] # 0
      BY <2>5, <3>1, HeldBlocks DEF IInv
    <3> QED
      BY <1>1, <3>2
  <2>7. /\ rows[table[r][j]].key = Key(q.text, j)
        /\ rows[table[r][j]].n >= Lesser(BlockSize, start - f)
    BY <1>8 DEF RowInv, Reads
  <2>8. Key(text, j) = Key(q.text, j)
    BY <1>2, <2>3
  <2>9. j <= Len(blocks)
    BY <1>3, <1>4, <2>3
  <2> QED
    BY <2>4, <2>5, <2>6, <2>7, <2>8, <2>9
<1> QED
  BY <1>2, <1>7, <1>8

LEMMA AllocateRows ==
    ASSUME IInv, IInv', RowInv, NEW r \in Req, Calls(r)
    PROVE  RowInv'
<1>1. PICK hit, start, n, slots, text :
          Room(r, hit, start, n, slots, text) /\ AllocateSlots(r, hit, start, n, slots, text)
  BY DEF Calls
<1>2. Granted(r, hit, start, n, slots, text)
  BY <1>1, AllocateGrants
<1> DEFINE to  == Filled(Commit(r, start + n))
           end == start + n
<1>3. PICK new, blocks :
        /\ Growing(r, hit, new, blocks, text, to)
        /\ Grows(r, hit, blocks, text, to)
        /\ rows' = Written([b \in Block |-> IF b \in ToSet(new) THEN NoRows ELSE rows[b]],
                           text, blocks, start, end)
        /\ request' = [request EXCEPT
              ![r] = [status |-> "running", text |-> text, tokens |-> request[r].tokens,
                      computed |-> end, busy |-> TRUE,
                      due |-> Monus(end + 1, request[r].tokens)]]
  BY <1>2 DEF Granted
<1>4. PICK old : old = [b \in Block |-> IF b \in ToSet(new) THEN NoRows ELSE rows[b]]
  OBVIOUS
<1>5. rows' = Written(old, text, blocks, start, end)
  BY <1>3, <1>4
<1>6. PICK w : w = rows'
  OBVIOUS
<1>7. /\ request \in [Req -> RequestType] /\ table \in [Req -> Seq(Block)] /\ Len(table[r]) \in Nat
      /\ cached[r] \in Nat
  BY DEF IInv, RequestInv, TableInv
<1>8. /\ table' = [table EXCEPT ![r] = blocks] /\ table'[r] = blocks
      /\ \A s \in Req : s # r => table'[s] = table[s]
  BY <1>3, <1>7 DEF Grows
<1>9. /\ request'[r].text = text /\ request'[r].computed = end /\ request'[r].status = "running"
      /\ \A s \in Req : s # r => request'[s] = request[s]
  BY <1>3, <1>7
<1> HIDE DEF to, end
<1>10. /\ start \in Nat /\ n \in Nat \ {0} /\ Len(hit) + cached[r] <= Filled(start) /\ HitOK(r, hit)
  BY <1>1 DEF Room
<1>11. end \in Nat /\ start <= end
  BY <1>10 DEF end
<1>12. /\ new \in Seq(Block) /\ Extended(r, hit, new, blocks)
       /\ \A b \in ToSet(new) : pool.refs[b] = 0
       /\ \A b \in Block : b \notin ToSet(blocks) => pool'.hash[b] = pool.hash[b]
  BY <1>3 DEF Growing, Grown
<1>13. blocks \in Seq(Block) /\ Distinct(blocks) /\ ToSet(new) \subseteq ToSet(blocks)
       /\ Len(blocks) \in Nat /\ DOMAIN blocks = 1 .. Len(blocks)
  BY <1>12 DEF Extended
<1>14. CeilDiv(end) <= Len(blocks)
  <2>1. RequestOK(request'[r], table'[r], cached'[r])
    BY DEF IInv, RequestInv
  <2> QED
    BY <1>8, <1>9, <2>1 DEF RequestOK
<1>15. /\ w = [b \in Block |-> w[b]]
       /\ \A b \in Block : b \notin ToSet(blocks) => w[b] = old[b]
       /\ \A j \in 1 .. Len(blocks) :
             w[blocks[j]] = IF j \in Filled(start) + 1 .. CeilDiv(end)
                            THEN RowAfter(old[blocks[j]], text, j, start, end)
                            ELSE old[blocks[j]]
  <2>1. RowsAfter(w, old, text, blocks, start, end)
    BY <1>5, <1>6, <1>10, <1>11, <1>13, <1>14, WrittenRows
  <2> QED
    BY <2>1 DEF RowsAfter
<1>16. /\ Filled(start) \in Nat /\ CeilDiv(end) \in Nat /\ CeilDiv(start) \in Nat
       /\ Filled(start) <= CeilDiv(start)
  BY <1>10, <1>11, BlocksOf
<1>17. RowShape(old) /\ \A b \in Block : b \notin ToSet(new) => old[b] = rows[b]
  <2>1. NoRows = [key |-> NoRows.key, n |-> NoRows.n] /\ NoRows.n \in Nat /\ NoRows.n <= BlockSize
    BY Sizes DEF NoRows
  <2>2. RowShape(rows)
    BY DEF RowInv
  <2>3. \A b \in Block : old[b] = NoRows \/ (b \notin ToSet(new) /\ old[b] = rows[b])
    BY <1>4
  <2>4. \A b \in Block : b \notin ToSet(new) => old[b] = rows[b]
    BY <1>4
  <2>5. old = [b \in Block |-> old[b]]
    BY <1>4
  <2> QED
    BY <2>1, <2>2, <2>3, <2>4, <2>5 DEF RowShape
\* Where r writes, and what it leaves.
<1>18. ASSUME NEW j \in 1 .. CeilDiv(start)
       PROVE  /\ blocks[j] \in Block /\ blocks[j] \notin ToSet(new)
              /\ old[blocks[j]].key = Key(text, j)
              /\ old[blocks[j]].n >= Lesser(BlockSize, start - (j - 1) * BlockSize)
  <2>1. /\ blocks[j] \in Block /\ blocks[j] \notin ToSet(new)
        /\ rows[blocks[j]].key = Key(text, j)
        /\ rows[blocks[j]].n >= Lesser(BlockSize, start - (j - 1) * BlockSize)
    BY <1>1, <1>3, ReadBefore
  <2> QED
    BY <1>17, <2>1
<1>19. ASSUME NEW j \in Filled(start) + 1 .. CeilDiv(end)
       PROVE  w[blocks[j]] = [key |-> Key(text, j), n |-> Lesser(BlockSize, end - (j - 1) * BlockSize)]
  <2> DEFINE f == (j - 1) * BlockSize
             o == old[blocks[j]]
  <2>1. j \in 1 .. Len(blocks) /\ j \in Nat \ {0} /\ j > Filled(start)
    BY <1>14, <1>16
  <2>2. w[blocks[j]] = RowAfter(o, text, j, start, end)
    BY <1>15, <2>1
  <2>3. f \in Nat /\ start < f + BlockSize
    BY <1>10, <2>1, Within
  <2>4. start > f => o.key = Key(text, j) /\ o.n >= Lesser(BlockSize, start - f)
    <3> SUFFICES ASSUME start > f PROVE o.key = Key(text, j) /\ o.n >= Lesser(BlockSize, start - f)
      OBVIOUS
    <3>1. j \in 1 .. CeilDiv(start)
      <4>1. ~(start <= f)
        BY <1>10, <2>3
      <4> HIDE DEF f
      <4>2. ~(j > CeilDiv(start))
        BY <1>10, <2>1, <4>1, Within DEF f
      <4> QED
        BY <1>16, <2>1, <4>2
    <3> QED
      BY <1>18, <3>1
  <2> HIDE DEF f, o
  <2>5. start > f => Lesser(BlockSize, start - f) = start - f
    BY <1>10, <2>3, Sizes DEF Lesser
  <2>6. ~(start > f /\ (o.key # Key(text, j) \/ o.n < start - f))
    <3>1. blocks[j] \in Block
      BY <1>13, <2>1
    <3>2. o.n \in Nat
      BY <1>17, <3>1 DEF RowShape, o
    <3> QED
      BY <1>10, <2>3, <2>4, <2>5, <3>2
  <2> QED
    BY <2>2, <2>6 DEF RowAfter, f
<1>20. RowShape(w)
  <2>1. ASSUME NEW b \in Block
        PROVE  w[b] = [key |-> w[b].key, n |-> w[b].n] /\ w[b].n \in Nat /\ w[b].n <= BlockSize
    <3>1. w[b] = old[b] \/ \E j \in Filled(start) + 1 .. CeilDiv(end) : b = blocks[j]
      <4>1. CASE b \notin ToSet(blocks)
        BY <1>15, <4>1
      <4>2. CASE b \in ToSet(blocks)
        <5>1. PICK j \in 1 .. Len(blocks) : b = blocks[j]
          BY <1>13, <4>2 DEF ToSet
        <5> QED
          BY <1>15, <5>1
      <4> QED
        BY <4>1, <4>2
    <3>2. CASE w[b] = old[b]
      BY <1>17, <3>2 DEF RowShape
    <3>3. CASE \E j \in Filled(start) + 1 .. CeilDiv(end) : b = blocks[j]
      <4>1. PICK j \in Filled(start) + 1 .. CeilDiv(end) : b = blocks[j]
        BY <3>3
      <4> DEFINE f == (j - 1) * BlockSize
                 x == Lesser(BlockSize, end - f)
      <4>2. w[b] = [key |-> Key(text, j), n |-> x]
        BY <1>19, <4>1
      <4>3. f \in Nat /\ f < end
        <5>1. j \in Nat \ {0} /\ j <= CeilDiv(end)
          BY <1>16
        <5> QED
          BY <1>11, <5>1, Within
      <4> HIDE DEF f
      <4>4. x \in Nat /\ x <= BlockSize
        BY <1>11, <4>3, Sizes DEF Lesser
      <4> HIDE DEF x
      <4> QED
        BY <4>2, <4>4
    <3> QED
      BY <3>1, <3>2, <3>3
  <2> QED
    BY <1>15, <2>1 DEF RowShape
<1>21. Reads(w, blocks, text, end)
  <2> SUFFICES ASSUME NEW j \in 1 .. CeilDiv(end)
               PROVE  /\ w[blocks[j]].key = Key(text, j)
                      /\ w[blocks[j]].n >= Lesser(BlockSize, end - (j - 1) * BlockSize)
    BY DEF Reads
  <2> DEFINE f == (j - 1) * BlockSize
  <2>1. j \in 1 .. Len(blocks) /\ j \in Nat \ {0}
    BY <1>14, <1>16
  <2>2. f \in Nat /\ f < end /\ (j <= Filled(start) => f + BlockSize <= start)
    BY <1>10, <1>11, <2>1, Within
  <2>3. Lesser(BlockSize, end - f) \in Nat /\ Lesser(BlockSize, end - f) <= BlockSize
    BY <1>11, <2>2, Sizes DEF Lesser
  <2>4. CASE j > Filled(start)
    <3>1. j \in Filled(start) + 1 .. CeilDiv(end)
      BY <1>16, <2>4
    <3>2. w[blocks[j]] = [key |-> Key(text, j), n |-> Lesser(BlockSize, end - f)]
      BY <1>19, <3>1
    <3> HIDE DEF f
    <3> QED
      BY <2>3, <3>2 DEF f
  <2>5. CASE j <= Filled(start)
    <3>1. j \in 1 .. CeilDiv(start) /\ j \notin Filled(start) + 1 .. CeilDiv(end)
      BY <1>16, <2>5
    <3>2. w[blocks[j]] = old[blocks[j]]
      BY <1>15, <2>1, <3>1
    <3>3. old[blocks[j]].key = Key(text, j) /\ old[blocks[j]].n >= Lesser(BlockSize, start - f)
          /\ blocks[j] \in Block
      BY <1>18, <3>1
    <3>4. Lesser(BlockSize, start - f) = BlockSize
      BY <1>10, <2>2, <2>5, Sizes DEF Lesser
    <3>5. old[blocks[j]].n \in Nat
      BY <1>17, <3>3 DEF RowShape
    <3> HIDE DEF f
    <3>6. old[blocks[j]].n >= Lesser(BlockSize, end - f)
      BY <2>3, <3>3, <3>4, <3>5, Sizes
    <3> QED
      BY <3>2, <3>3, <3>6 DEF f
  <2> QED
    BY <1>16, <2>1, <2>4, <2>5
<1>22. ASSUME NEW s \in Req, s # r
       PROVE  Reads(w, table[s], request[s].text, request[s].computed)
  <2> DEFINE c == request[s].computed
  <2>1. RequestOK(request[s], table[s], cached[s]) /\ request[s] \in RequestType
    BY DEF IInv, RequestInv
  <2>2. c \in Nat /\ table[s] \in Seq(Block) /\ Len(table[s]) \in Nat
    BY <1>7, <2>1 DEF RequestType
  <2>3. CeilDiv(c) \in Nat /\ CeilDiv(c) <= Len(table[s])
    <3>1. CASE request[s].status = "running"
      BY <2>1, <2>2, <3>1, BlocksOf DEF RequestOK
    <3>2. CASE request[s].status # "running"
      <4>1. c = 0
        BY <2>1, <3>2 DEF RequestOK
      <4> QED
        BY <2>2, <4>1, NothingHeld
    <3> QED
      BY <3>1, <3>2
  <2>4. ASSUME NEW i \in 1 .. CeilDiv(c) PROVE w[table[s][i]] = rows[table[s][i]]
    <3>0. PICK x : x = table[s][i]
      OBVIOUS
    <3>1. i \in 1 .. Len(table[s])
      BY <2>3
    <3>2. /\ x \in Block /\ (x \in ToSet(blocks) => \E j \in 1 .. Len(hit) + cached[r] : x = blocks[j])
      BY <1>3, <1>22, <3>0, <3>1, OthersKeep DEF IInv
    <3>3. x \notin ToSet(new)
      <4>1. x \in ToSet(table[s])
        BY <2>2, <3>0, <3>1 DEF ToSet
      <4>2. s \in Holders(x)
        BY <4>1 DEF Holders
      <4>3. pool.refs[x] # 0
        BY <3>2, <4>2, HeldBlocks DEF IInv
      <4> QED
        BY <1>12, <4>3
    <3>4. old[x] = rows[x]
      BY <1>17, <3>2, <3>3
    <3>5. x \notin ToSet(blocks) => w[x] = rows[x]
      BY <1>15, <3>2, <3>4
    <3>6. ASSUME x \in ToSet(blocks) PROVE w[x] = rows[x]
      <4>1. PICK j \in 1 .. Len(hit) + cached[r] : x = blocks[j]
        BY <3>2, <3>6
      <4>2. Len(hit) \in Nat /\ Len(hit) + cached[r] <= Len(blocks)
        <5>1. Len(hit) \in Nat /\ Len(new) \in Nat
          BY <1>10, <1>12 DEF HitOK
        <5>2. Len(blocks) = Len(hit) + Len(table[r]) + Len(new)
          BY <1>12 DEF Extended
        <5>3. cached[r] <= Len(table[r])
          BY DEF IInv, TableInv
        <5> QED
          BY <1>7, <5>1, <5>2, <5>3
      <4>3. PICK known : known = Len(hit) + cached[r]
        OBVIOUS
      <4>4. known \in Nat /\ j \in 1 .. known /\ known <= Len(blocks) /\ known <= Filled(start)
        BY <1>7, <1>10, <4>2, <4>3
      <4>5. j \in 1 .. Len(blocks) /\ j \notin Filled(start) + 1 .. CeilDiv(end)
        BY <1>13, <1>16, <4>4
      <4> QED
        BY <1>15, <3>4, <4>1, <4>5
    <3> QED
      BY <3>0, <3>5, <3>6
  <2>5. Reads(rows, table[s], request[s].text, c)
    BY DEF RowInv
  <2> QED
    BY <2>4, <2>5 DEF Reads
<1>23. \A s \in Req : Reads(rows', table'[s], request'[s].text, request'[s].computed)
  <2> SUFFICES ASSUME NEW s \in Req PROVE Reads(rows', table'[s], request'[s].text, request'[s].computed)
    OBVIOUS
  <2>1. CASE s = r
    BY <1>6, <1>8, <1>9, <1>21, <2>1
  <2>2. CASE s # r
    BY <1>6, <1>8, <1>9, <1>22, <2>2
  <2> QED
    BY <2>1, <2>2
<1>24. \A b \in Block : Holders(b)' = {} /\ Registered(pool', b)
                            => rows'[b] = [key |-> pool'.hash[b], n |-> BlockSize]
  <2> SUFFICES ASSUME NEW b \in Block, Holders(b)' = {}, Registered(pool', b)
               PROVE  rows'[b] = [key |-> pool'.hash[b], n |-> BlockSize]
    OBVIOUS
  <2>1. b \notin ToSet(blocks)
    <3>1. r \notin Holders(b)'
      OBVIOUS
    <3> QED
      BY <1>8, <3>1 DEF Holders
  <2>2. rows'[b] = rows[b]
    BY <1>6, <1>13, <1>15, <1>17, <2>1
  <2>3. pool'.hash[b] = pool.hash[b]
    BY <1>12, <2>1
  <2>4. Registered(pool, b)
    BY <2>3 DEF Registered
  <2> QED
    BY <2>2, <2>3, <2>4 DEF RowInv, Promised
<1>25. RowShape(rows')
  BY <1>6, <1>20
<1>26. Promised(rows', pool')
  BY <1>23, <1>24, <1>25, HeldPromised
<1> QED
  BY <1>23, <1>25, <1>26 DEF RowInv

\* What a request has read lies in its blocks.
LEMMA ReadsInTable ==
    ASSUME IInv, NEW r \in Req
    PROVE  /\ request[r].computed \in Nat /\ CeilDiv(request[r].computed) \in Nat
           /\ table[r] \in Seq(Block) /\ DOMAIN table[r] = 1 .. Len(table[r]) /\ Len(table[r]) \in Nat
           /\ CeilDiv(request[r].computed) <= Len(table[r])
           /\ \A i \in 1 .. CeilDiv(request[r].computed) :
                 table[r][i] \in Block /\ table[r][i] \in ToSet(table[r]) /\ pool.refs[table[r][i]] # 0
<1> DEFINE c == request[r].computed
<1>1. RequestOK(request[r], table[r], cached[r]) /\ request[r] \in RequestType
  BY DEF IInv, RequestInv
<1>2. c \in Nat /\ table[r] \in Seq(Block) /\ Len(table[r]) \in Nat /\ DOMAIN table[r] = 1 .. Len(table[r])
  BY <1>1 DEF RequestType, IInv, TableInv
<1>3. CeilDiv(c) \in Nat /\ CeilDiv(c) <= Len(table[r])
  <2>1. CASE request[r].status = "running"
    BY <1>1, <1>2, <2>1, BlocksOf DEF RequestOK
  <2>2. CASE request[r].status # "running"
    <3>1. c = 0
      BY <1>1, <2>2 DEF RequestOK
    <3> QED
      BY <1>2, <3>1, NothingHeld
  <2> QED
    BY <2>1, <2>2
<1>4. ASSUME NEW i \in 1 .. CeilDiv(c)
      PROVE  table[r][i] \in Block /\ table[r][i] \in ToSet(table[r]) /\ pool.refs[table[r][i]] # 0
  <2>1. i \in DOMAIN table[r]
    BY <1>2, <1>3
  <2>2. table[r][i] \in Block /\ table[r][i] \in ToSet(table[r])
    BY <1>2, <2>1 DEF ToSet
  <2>3. r \in Holders(table[r][i])
    BY <2>2 DEF Holders
  <2> QED
    BY <2>2, <2>3, HeldBlocks DEF IInv
<1> QED
  BY <1>2, <1>3, <1>4

\* A request that has computed nothing reads nothing.
LEMMA ReadsNothing ==
    ASSUME NEW w, NEW blocks, NEW text, NEW c, c = 0
    PROVE  Reads(w, blocks, text, c)
  BY NothingHeld DEF Reads

LEMMA ArriveRows ==
    ASSUME IInv, RowInv, NEW r \in Req, Arrive(r)
    PROVE  RowInv'
<1>1. UNCHANGED <<pool, table, rows>>
  BY DEF Arrive
<1>2. request \in [Req -> RequestType]
  BY DEF IInv, RequestInv
<1>3. PICK z : request' = [request EXCEPT ![r] = z] /\ z.computed = 0
  <2>1. PICK n \in 1 .. MaxLen - 1 : \E text \in Extensions(<< >>, n) :
            request' = [request EXCEPT ![r] =
                [Nobody EXCEPT !.status = "waiting", !.text = text, !.tokens = n]]
    BY DEF Arrive
  <2>2. PICK text \in Extensions(<< >>, n) :
            request' = [request EXCEPT ![r] =
                [Nobody EXCEPT !.status = "waiting", !.text = text, !.tokens = n]]
    BY <2>1
  <2> DEFINE z == [Nobody EXCEPT !.status = "waiting", !.text = text, !.tokens = n]
  <2>3. z.computed = 0
    BY DEF Nobody
  <2> HIDE DEF z
  <2>4. request' = [request EXCEPT ![r] = z]
    BY <2>2 DEF z
  <2> QED
    BY <2>3, <2>4
<1>4. ASSUME NEW s \in Req PROVE Reads(rows', table'[s], request'[s].text, request'[s].computed)
  <2>1. CASE s = r
    <3>1. request'[s].computed = 0
      BY <1>2, <1>3, <2>1
    <3> QED
      BY <3>1, ReadsNothing
  <2>2. CASE s # r
    <3>1. request'[s] = request[s]
      BY <1>2, <1>3, <2>2
    <3> QED
      BY <1>1, <3>1 DEF RowInv
  <2> QED
    BY <2>1, <2>2
<1> QED
  BY <1>1, <1>4 DEF RowInv

\* Blocks that somebody holds, or that are registered, keep their rows.
LEMMA TidiedRows ==
    ASSUME RowShape(rows), NEW p, NEW w, w = Tidied(rows, p)
    PROVE  /\ RowShape(w)
           /\ \A b \in Block : p.refs[b] # 0 \/ Registered(p, b) => w[b] = rows[b]
<1>1. w = [b \in Block |-> IF p.refs[b] = 0 /\ ~Registered(p, b) THEN NoRows ELSE rows[b]]
  BY DEF Tidied
<1>2. \A b \in Block : w[b] = NoRows \/ w[b] = rows[b]
  BY <1>1
<1>3. w = [b \in Block |-> w[b]]
  BY <1>1
<1>4. NoRows = [key |-> NoRows.key, n |-> NoRows.n] /\ NoRows.n \in Nat /\ NoRows.n <= BlockSize
  BY Sizes DEF NoRows
<1>5. RowShape(w)
  BY <1>2, <1>3, <1>4 DEF RowShape
<1> QED
  BY <1>1, <1>5

LEMMA ReleaseRows ==
    ASSUME IInv, IInv', RowInv, NEW r \in Req, Release(r)
    PROVE  RowInv'
<1>1. /\ rows' = Tidied(rows, pool') /\ table' = [table EXCEPT ![r] = << >>]
      /\ \/ request' = [request EXCEPT ![r] = Nobody]
         \/ request' = [request EXCEPT ![r].status = "waiting", ![r].computed = 0]
  BY DEF Release
<1>2. pool'.hash = pool.hash
  <2>1. pool' = FreeBlocks(pool, FreeingOrder(table[r]))
    BY DEF Release
  <2>2. pool = [queue |-> pool.queue, refs |-> pool.refs, hash |-> pool.hash, index |-> pool.index]
    BY DEF IInv, PoolInv, Shape
  <2> QED
    BY <2>1, <2>2 DEF FreeBlocks
<1>3. RowShape(rows') /\ \A b \in Block : pool'.refs[b] # 0 \/ Registered(pool', b) => rows'[b] = rows[b]
  BY <1>1, TidiedRows DEF RowInv
<1>4. Promised(rows', pool')
  BY <1>2, <1>3 DEF RowInv, Promised, Registered
<1>5. request \in [Req -> RequestType] /\ table \in [Req -> Seq(Block)]
  BY DEF IInv, RequestInv, TableInv
<1>6. ASSUME NEW s \in Req PROVE Reads(rows', table'[s], request'[s].text, request'[s].computed)
  <2>1. CASE s = r
    <3>1. request[r].computed \in Nat /\ request[r] \in RequestType
      BY <1>5 DEF RequestType
    <3>2. request'[s].computed = 0
      BY <1>1, <1>5, <2>1, <3>1 DEF Nobody, RequestType
    <3> QED
      BY <3>2, ReadsNothing
  <2>2. CASE s # r
    <3>1. request'[s] = request[s] /\ table'[s] = table[s]
      BY <1>1, <1>5, <2>2
    <3>2. ASSUME NEW i \in 1 .. CeilDiv(request[s].computed)
          PROVE  rows'[table[s][i]] = rows[table[s][i]]
      <4>1. i \in DOMAIN table[s] /\ table[s][i] \in Block
        BY ReadsInTable
      <4>2. table[s][i] \in ToSet(table[s])
        BY <4>1 DEF ToSet
      <4>3. pool'.refs[table[s][i]] # 0
        <5>1. PICK b : b = table[s][i]
          OBVIOUS
        <5>2. s \in Holders(b)' /\ b \in Block
          BY <3>1, <4>1, <4>2, <5>1 DEF Holders
        <5>3. /\ IsFiniteSet(Holders(b)') /\ pool'.refs[b] = Cardinality(Holders(b)')
          <6>1. Holders(b)' \subseteq Req
            BY DEF Holders
          <6> QED
            BY <5>2, <6>1, Sizes, FS_Subset DEF IInv, TableInv
        <5> QED
          BY <5>1, <5>2, <5>3, FS_EmptySet
      <4> QED
        BY <1>3, <4>1, <4>3
    <3>3. Reads(rows, table[s], request[s].text, request[s].computed)
      BY DEF RowInv
    <3> QED
      BY <3>1, <3>2, <3>3 DEF Reads
  <2> QED
    BY <2>1, <2>2
<1> QED
  BY <1>3, <1>4, <1>6 DEF RowInv

LEMMA ResetRows ==
    ASSUME IInv, RowInv, ResetPrefixCache
    PROVE  RowInv'
<1>1. /\ pool.queue.num = Cardinality(Block)
      /\ pool' = [pool EXCEPT !.hash = [b \in Block |-> NoHash], !.index = << >>]
      /\ rows' = Tidied(rows, pool') /\ UNCHANGED <<request, table>>
  BY DEF ResetPrefixCache
<1>2. RowShape(rows')
  BY <1>1, TidiedRows DEF RowInv
<1>3. Promised(rows', pool')
  <2>1. pool = [queue |-> pool.queue, refs |-> pool.refs, hash |-> pool.hash, index |-> pool.index]
    BY DEF IInv, PoolInv, Shape
  <2>2. pool'.hash = [b \in Block |-> NoHash]
    BY <1>1, <2>1
  <2>3. \A b \in Block : ~Registered(pool', b)
    BY <2>2 DEF Registered
  <2> QED
    BY <2>3 DEF Promised
<1>4. ASSUME NEW r \in Req PROVE Reads(rows', table[r], request[r].text, request[r].computed)
  <2>1. 1 \notin 1 .. CeilDiv(request[r].computed)
    <3> SUFFICES ASSUME 1 \in 1 .. CeilDiv(request[r].computed) PROVE FALSE
      OBVIOUS
    <3>1. table[r][1] \in Block /\ table[r][1] \in ToSet(table[r])
      BY ReadsInTable
    <3>2. r \in Holders(table[r][1])
      BY <3>1 DEF Holders
    <3> QED
      BY <1>1, <3>1, <3>2, NobodyHolds
  <2>2. CeilDiv(request[r].computed) \in Nat
    BY ReadsInTable
  <2>3. CeilDiv(request[r].computed) = 0
    BY <2>1, <2>2
  <2> QED
    BY <2>3 DEF Reads
<1> QED
  BY <1>1, <1>2, <1>3, <1>4 DEF RowInv

\* What a request learns changes no hash of a block that it does not hold.
LEMMA LearnedHash ==
    ASSUME NEW r \in Req, Learned(r), NEW b \in Block, b \notin ToSet(table[r])
    PROVE  pool'.hash[b] = pool.hash[b]
<1>1. CASE UNCHANGED pool
  BY <1>1
<1>2. CASE \E none, text, to : Growing(r, none, none, table[r], text, to)
  BY <1>2 DEF Growing, Grown
<1> QED
  BY <1>1, <1>2 DEF Learned

\* A correction leaves the rows of what is still computed.
LEMMA ReceiveRows ==
    ASSUME IInv, IInv', RowInv, NEW r \in Req, Kept(r), Learned(r)
    PROVE  RowInv'
<1> DEFINE c == request'[r].computed
           t == table[r]
<1>1. /\ c \in Nat /\ c <= request[r].computed
      /\ \A i \in 1 .. CeilDiv(c) : Key(request'[r].text, i) = Key(request[r].text, i)
      /\ \A s \in Req : s # r => request'[s].computed = request[s].computed
      /\ table' = table
      /\ \/ UNCHANGED <<pool, rows>>
         \/ cached[r] <= Filled(c) /\ rows' = RolledBack(t, c)
  BY DEF Kept
<1>2. \A s \in Req : s # r => request'[s].text = request[s].text
  BY DEF Learned
<1>3. /\ request[r].computed \in Nat /\ CeilDiv(request[r].computed) \in Nat
      /\ t \in Seq(Block) /\ DOMAIN t = 1 .. Len(t) /\ Len(t) \in Nat
      /\ CeilDiv(request[r].computed) <= Len(t)
      /\ cached[r] \in Nat /\ Distinct(t)
  BY ReadsInTable DEF IInv, TableInv
<1> HIDE DEF c, t
<1>4. CeilDiv(c) \in Nat /\ Filled(c) \in Nat /\ Filled(c) <= CeilDiv(c)
      /\ CeilDiv(c) <= CeilDiv(request[r].computed)
  BY <1>1, <1>3, BlocksOf, BlocksMonotone
\* Fewer tokens need no more rows.
<1>5. ASSUME NEW i \in 1 .. CeilDiv(c)
      PROVE  /\ rows[t[i]].key = Key(request'[r].text, i)
             /\ rows[t[i]].n >= Lesser(BlockSize, c - (i - 1) * BlockSize)
             /\ i \in 1 .. Len(t) /\ t[i] \in Block
  <2> DEFINE f == (i - 1) * BlockSize
             full == request[r].computed
  <2>1. i \in 1 .. CeilDiv(full) /\ i \in Nat \ {0} /\ i \in 1 .. Len(t)
    BY <1>3, <1>4
  <2>2. t[i] \in Block
    BY <1>3, <2>1
  <2>3. rows[t[i]].key = Key(request[r].text, i) /\ rows[t[i]].n >= Lesser(BlockSize, full - f)
    BY <2>1 DEF RowInv, Reads, t
  <2>4. rows[t[i]].n \in Nat
    BY <2>2 DEF RowInv, RowShape
  <2>5. f \in Nat /\ full \in Nat /\ c <= full
    BY <1>1, <1>3, <2>1, Within
  <2> HIDE DEF f, full
  <2>6. Lesser(BlockSize, full - f) >= Lesser(BlockSize, c - f)
    BY <1>1, <2>5, Sizes DEF Lesser
  <2>7. Lesser(BlockSize, full - f) \in Int /\ Lesser(BlockSize, c - f) \in Int
    BY <1>1, <2>5, Sizes DEF Lesser
  <2>8. rows[t[i]].n >= Lesser(BlockSize, c - f)
    BY <2>3, <2>4, <2>6, <2>7
  <2> QED
    BY <1>1, <2>1, <2>2, <2>3, <2>8 DEF f
<1>6. CASE UNCHANGED <<pool, rows>>
  <2>1. ASSUME NEW s \in Req PROVE Reads(rows', table'[s], request'[s].text, request'[s].computed)
    <3>1. CASE s = r
      <4>1. Reads(rows, t, request'[r].text, c)
        BY <1>5 DEF Reads
      <4> QED
        BY <1>1, <1>6, <3>1, <4>1 DEF c, t
    <3>2. CASE s # r
      BY <1>1, <1>2, <1>6, <3>2 DEF RowInv
    <3> QED
      BY <3>1, <3>2
  <2> QED
    BY <1>6, <2>1 DEF RowInv
<1>7. CASE cached[r] <= Filled(c) /\ rows' = RolledBack(t, c)
  <2>1. PICK w : w = rows'
    OBVIOUS
  <2>2. RowsLeft(w, t, c)
    BY <1>1, <1>3, <1>7, <2>1, RolledRows
  <2>3. /\ w = [b \in Block |-> w[b]]
        /\ \A b \in Block : b \notin ToSet(t) => w[b] = rows[b]
        /\ \A j \in 1 .. Len(t) :
              w[t[j]] = IF j <= Filled(c) THEN rows[t[j]]
                        ELSE IF Monus(c, (j - 1) * BlockSize) = 0 THEN NoRows
                        ELSE [rows[t[j]] EXCEPT !.n = Monus(c, (j - 1) * BlockSize)]
    BY <2>2 DEF RowsLeft
  <2>4. \A b \in Block : /\ rows[b] = [key |-> rows[b].key, n |-> rows[b].n]
                         /\ rows[b].n \in Nat /\ rows[b].n <= BlockSize
    BY DEF RowInv, RowShape
\* The rows of a block that is rolled back.
  <2>5. ASSUME NEW j \in 1 .. Len(t), ~(j <= Filled(c))
        PROVE  /\ w[t[j]] = [key |-> w[t[j]].key, n |-> w[t[j]].n]
               /\ w[t[j]].n \in Nat /\ w[t[j]].n <= BlockSize
               /\ j <= CeilDiv(c) => /\ w[t[j]].key = rows[t[j]].key
                                     /\ w[t[j]].n = c - (j - 1) * BlockSize
    <3> DEFINE f == (j - 1) * BlockSize
               n == Monus(c, f)
    <3>1. j \in Nat \ {0} /\ j > Filled(c) /\ t[j] \in Block
      BY <1>3, <1>4, <2>5
    <3>2. f \in Nat /\ c < f + BlockSize /\ (j <= CeilDiv(c) => f < c)
      BY <1>1, <3>1, Within
    <3>3. w[t[j]] = IF n = 0 THEN NoRows ELSE [rows[t[j]] EXCEPT !.n = n]
      BY <2>3, <2>5
    <3> HIDE DEF f
    <3>4. n \in Nat /\ n <= BlockSize /\ (j <= CeilDiv(c) => n = c - f /\ n # 0)
      BY <1>1, <3>2, Sizes DEF Monus
    <3> HIDE DEF n
    <3>5. CASE n = 0
      <4>1. w[t[j]] = [key |-> << >>, n |-> 0]
        BY <3>3, <3>5 DEF NoRows
      <4>2. w[t[j]].n = 0 /\ w[t[j]] = [key |-> w[t[j]].key, n |-> w[t[j]].n]
        BY <4>1
      <4> QED
        BY <3>4, <3>5, <4>2, Sizes
    <3>6. CASE n # 0
      <4>1. PICK key, m : rows[t[j]] = [key |-> key, n |-> m]
        BY <2>4, <3>1
      <4>2. w[t[j]] = [key |-> key, n |-> n]
        BY <3>3, <3>6, <4>1
      <4> QED
        BY <3>4, <4>1, <4>2 DEF f
    <3> QED
      BY <3>5, <3>6
  <2>6. RowShape(w)
    <3>1. ASSUME NEW b \in Block
          PROVE  w[b] = [key |-> w[b].key, n |-> w[b].n] /\ w[b].n \in Nat /\ w[b].n <= BlockSize
      <4>1. CASE w[b] = rows[b]
        BY <2>4, <4>1
      <4>2. CASE w[b] # rows[b]
        <5>1. PICK j \in 1 .. Len(t) : b = t[j]
          BY <1>3, <2>3, <4>2 DEF ToSet
        <5>2. ~(j <= Filled(c))
          BY <2>3, <4>2, <5>1
        <5> QED
          BY <2>5, <5>1, <5>2
      <4> QED
        BY <4>1, <4>2
    <3> QED
      BY <2>3, <3>1 DEF RowShape
  <2>7. Reads(w, t, request'[r].text, c)
    <3> SUFFICES ASSUME NEW i \in 1 .. CeilDiv(c)
                 PROVE  /\ w[t[i]].key = Key(request'[r].text, i)
                        /\ w[t[i]].n >= Lesser(BlockSize, c - (i - 1) * BlockSize)
      BY DEF Reads
    <3>1. /\ rows[t[i]].key = Key(request'[r].text, i)
          /\ rows[t[i]].n >= Lesser(BlockSize, c - (i - 1) * BlockSize)
          /\ i \in 1 .. Len(t) /\ t[i] \in Block
      BY <1>5
    <3>2. CASE i <= Filled(c)
      BY <2>3, <3>1, <3>2
    <3>3. CASE ~(i <= Filled(c))
      <4> DEFINE f == (i - 1) * BlockSize
      <4>0. PICK j \in 1 .. Len(t) : j = i
        BY <3>1
      <4>1. w[t[i]].key = rows[t[i]].key /\ w[t[i]].n = c - f
        <5>1. j <= CeilDiv(c) /\ ~(j <= Filled(c))
          BY <1>4, <3>3, <4>0
        <5>2. w[t[j]].key = rows[t[j]].key /\ w[t[j]].n = c - (j - 1) * BlockSize
          BY <2>5, <5>1
        <5> QED
          BY <4>0, <5>2
      <4>2. i \in Nat \ {0}
        BY <1>4
      <4>3. f \in Nat
        BY <1>1, <4>2, Within
      <4> HIDE DEF f
      <4>4. c - f >= Lesser(BlockSize, c - f)
        BY <1>1, <4>3, Sizes DEF Lesser
      <4> QED
        BY <3>1, <4>1, <4>4 DEF f
    <3> QED
      BY <3>2, <3>3
  <2>8. ASSUME NEW s \in Req, s # r
        PROVE  Reads(w, table[s], request[s].text, request[s].computed)
    <3>1. ASSUME NEW i \in 1 .. CeilDiv(request[s].computed)
          PROVE  w[table[s][i]] = rows[table[s][i]]
      <4>1. PICK x : x = table[s][i]
        OBVIOUS
      <4>2. x \in Block /\ x \in ToSet(table[s])
        BY <4>1, ReadsInTable
      <4>3. x \notin ToSet(t) => w[x] = rows[x]
        BY <2>3, <4>2
      <4>4. ASSUME x \in ToSet(t) PROVE w[x] = rows[x]
        <5>1. PICK j \in 1 .. Len(t) : x = t[j]
          BY <1>3, <4>4 DEF ToSet
        <5>2. j <= cached[r]
          <6> SUFFICES ASSUME ~(j <= cached[r]) PROVE FALSE
            OBVIOUS
          <6>1. j \in cached[r] + 1 .. Len(t)
            BY <1>3
          <6>2. s = r
            BY <4>2, <5>1, <6>1 DEF IInv, SealInv, t
          <6> QED
            BY <2>8, <6>2
        <5>3. j <= Filled(c)
          BY <1>3, <1>4, <1>7, <5>2
        <5> QED
          BY <2>3, <5>1, <5>3
      <4> QED
        BY <4>1, <4>3, <4>4
    <3>2. Reads(rows, table[s], request[s].text, request[s].computed)
      BY DEF RowInv
    <3> QED
      BY <3>1, <3>2 DEF Reads
  <2>9. ASSUME NEW s \in Req PROVE Reads(rows', table'[s], request'[s].text, request'[s].computed)
    <3>1. CASE s = r
      BY <1>1, <2>1, <2>7, <3>1 DEF c, t
    <3>2. CASE s # r
      BY <1>1, <1>2, <2>1, <2>8, <3>2
    <3> QED
      BY <3>1, <3>2
  <2>10. ASSUME NEW b \in Block, Holders(b)' = {}, Registered(pool', b)
         PROVE  rows'[b] = [key |-> pool'.hash[b], n |-> BlockSize]
    <3>1. b \notin ToSet(t)
      <4>1. r \notin Holders(b)'
        BY <2>10
      <4> QED
        BY <1>1, <4>1 DEF Holders, t
    <3>2. pool'.hash[b] = pool.hash[b]
      BY <3>1, LearnedHash DEF t
    <3>3. Registered(pool, b)
      BY <2>10, <3>2 DEF Registered
    <3>4. rows[b] = [key |-> pool.hash[b], n |-> BlockSize]
      BY <3>3 DEF RowInv, Promised
    <3> QED
      BY <2>1, <2>3, <3>1, <3>2, <3>4
  <2>11. RowShape(rows')
    BY <2>1, <2>6
  <2>12. \A b \in Block : Holders(b)' = {} /\ Registered(pool', b)
                               => rows'[b] = [key |-> pool'.hash[b], n |-> BlockSize]
    BY <2>10
  <2>13. Promised(rows', pool')
    BY <2>9, <2>11, <2>12, HeldPromised
  <2> QED
    BY <2>9, <2>11, <2>13 DEF RowInv
<1> QED
  BY <1>1, <1>6, <1>7

LEMMA InitRows ==
    ASSUME Init
    PROVE  RowInv
<1>1. /\ rows = [b \in Block |-> NoRows] /\ request = [r \in Req |-> Nobody]
      /\ \A b \in Block : pool.hash[b] = NoHash
  <2>1. PICK order \in SetToSeqs(Block) :
          pool = [queue |-> QueueOf(order), refs |-> [b \in Block |-> 0],
                  hash |-> [b \in Block |-> NoHash], index |-> << >>]
    BY DEF Init
  <2> QED
    BY <2>1 DEF Init
<1>2. RowShape(rows)
  <2>1. NoRows = [key |-> NoRows.key, n |-> NoRows.n] /\ NoRows.n \in Nat /\ NoRows.n <= BlockSize
    BY Sizes DEF NoRows
  <2> QED
    BY <1>1, <2>1 DEF RowShape
<1>3. Promised(rows, pool)
  BY <1>1 DEF Promised, Registered
<1>4. ASSUME NEW r \in Req PROVE Reads(rows, table[r], request[r].text, request[r].computed)
  <2>1. request[r].computed = 0
    BY <1>1 DEF Nobody
  <2> QED
    BY <2>1, ReadsNothing
<1> QED
  BY <1>2, <1>3, <1>4 DEF RowInv

\* What a request reads as its context are rows of its own text, and a
\* registered block has all the rows that its hash promises: a step writes only
\* after the blocks that are registered or shared, a correction takes back only
\* rows of blocks that nobody else has, and a freed block keeps its rows as long
\* as it is registered.
THEOREM ContextTheorem == Spec => []ContextIntact
<1>1. Init => RowInv
  BY InitRows
<1>2. IInv /\ IInv' /\ RowInv /\ [Next]_vars => RowInv'
  <2> SUFFICES ASSUME IInv, IInv', RowInv, [Next]_vars PROVE RowInv'
    OBVIOUS
  <2>1. ASSUME NEW r \in Req, Arrive(r) \/ Admit(r) \/ Continue(r) \/ Receive(r) \/ Release(r)
        PROVE  RowInv'
    BY <2>1, ArriveRows, AdmitCalls, ContinueCalls, AllocateRows, ReceiveKeeps, ReceiveRows, ReleaseRows
  <2>2. CASE ResetPrefixCache
    BY <2>2, ResetRows
  <2>3. CASE UNCHANGED vars
    BY <2>3 DEF vars, RowInv
  <2> QED
    BY <2>1, <2>2, <2>3 DEF Next
<1>3. RowInv => ContextIntact
  BY DEF RowInv, ContextIntact, Reads, Promised
<1> QED
  BY <1>1, <1>2, <1>3, InvTheorem, PTL DEF Spec

-----------------------------------------------------------------------------
(* Continuations are evicted before what they continue. *)

\* A free block that can still be hit, and continues another.
Waits(p, b) == p.refs[b] = 0 /\ Registered(p, b) /\ Len(p.hash[b]) > 1

\* What it continues is registered as well, and is in use or evicted later.
Followed(p, b) ==
    \E x \in Block :
        /\ p.hash[x] = Key(p.hash[b], Len(p.hash[b]) - 1)
        /\ p.refs[x] # 0 \/ Ahead(p.queue, b, x)

OrderInv == \A b \in Block : Waits(pool, b) => Followed(pool, b)

LEMMA KeyOfKey ==
    ASSUME NEW text \in Texts, NEW i \in 1 .. Len(text)
    PROVE  Key(Key(text, i), i - 1) = Key(text, i - 1)
<1>1. text \in Seq(Content) /\ Len(text) \in Nat
  BY TextLength
<1> DEFINE s == SubSeq(text, 1, i)
<1>2. s \in Seq(Content) /\ Len(s) = i /\ \A j \in 1 .. i : s[j] = text[j]
  BY <1>1
<1>3. s = Key(text, i)
  BY DEF Key
<1> HIDE DEF s
<1>4. i - 1 \in 0 .. Len(s) /\ i - 1 <= Len(text) /\ \A j \in 1 .. i - 1 : s[j] = text[j]
  BY <1>1, <1>2
<1>5. Key(s, i - 1) = Key(text, i - 1)
  BY <1>1, <1>2, <1>4, SameKey
<1> QED
  BY <1>3, <1>5

LEMMA ShorterKey ==
    ASSUME NEW key \in Texts, Len(key) > 1
    PROVE  Key(key, Len(key) - 1) # NoHash
<1>1. PICK n : n = Len(key)
  OBVIOUS
<1>2. n \in Nat /\ n > 1
  BY <1>1, TextLength
<1>3. n - 1 \in Nat \ {0}
  BY <1>2
<1> QED
  BY <1>1, <1>3, KeyNotEmpty

\* A registered block that a request holds continues the one before it.
LEMMA HeldContinues ==
    ASSUME IInv, NEW r \in Req, NEW b \in ToSet(table[r]), Registered(pool, b), Len(pool.hash[b]) > 1
    PROVE  \E i \in 2 .. Len(table[r]) :
              /\ table[r][i] = b /\ table[r][i] \in Block /\ table[r][i - 1] \in Block
              /\ pool.hash[table[r][i - 1]] = Key(pool.hash[b], Len(pool.hash[b]) - 1)
              /\ Registered(pool, table[r][i - 1])
<1> DEFINE t == table[r]
           text == request[r].text
<1>1. /\ t \in Seq(Block) /\ Len(t) \in Nat /\ DOMAIN t = 1 .. Len(t)
      /\ cached[r] \in Nat /\ cached[r] <= Len(t) /\ SealInv
  BY DEF IInv, TableInv
<1>2. text \in Texts /\ Len(text) \in Nat /\ cached[r] <= Len(text)
  <2>1. request[r] \in RequestType /\ RequestOK(request[r], table[r], cached[r]) /\ cached[r] \in Nat
    BY DEF IInv, RequestInv, TableInv
  <2> QED
    BY <2>1, CachedText
<1>3. PICK i \in 1 .. Len(t) : b = t[i]
  BY <1>1 DEF ToSet
<1> HIDE DEF text
<1>4. i <= cached[r]
  <2> SUFFICES ASSUME ~(i <= cached[r]) PROVE FALSE
    OBVIOUS
  <2>1. i \in cached[r] + 1 .. Len(t)
    BY <1>1
  <2> QED
    BY <1>1, <1>3, <2>1 DEF SealInv
<1>5. \A j \in 1 .. cached[r] : pool.hash[t[j]] = Key(text, j)
  BY <1>1 DEF SealInv, text
<1>6. i \in 1 .. cached[r] /\ i \in 0 .. Len(text) /\ i \in 1 .. Len(text)
  BY <1>1, <1>2, <1>4
<1>7. pool.hash[b] = Key(text, i) /\ Len(pool.hash[b]) = i
  BY <1>2, <1>3, <1>5, <1>6, KeyOf
<1>8. i \in 2 .. Len(t) /\ i - 1 \in 1 .. cached[r] /\ i - 1 \in 1 .. Len(t) /\ i - 1 \in Nat \ {0}
  BY <1>1, <1>6, <1>7
<1>9. pool.hash[t[i - 1]] = Key(text, i - 1)
  BY <1>5, <1>8
<1>10. Key(pool.hash[b], Len(pool.hash[b]) - 1) = Key(text, i - 1)
  BY <1>2, <1>6, <1>7, KeyOfKey
<1>11. Registered(pool, t[i - 1])
  BY <1>8, <1>9, KeyNotEmpty DEF Registered
<1>12. t[i] \in Block /\ t[i - 1] \in Block
  BY <1>1, <1>8
<1> QED
  BY <1>3, <1>8, <1>9, <1>10, <1>11, <1>12

\* What an allocation leaves of it: a hit only takes blocks into use, and of
\* the free ones the first are taken, which are behind nothing.
LEMMA GrownOrder ==
    ASSUME IInv, OrderInv, NEW r \in Req, NEW hit, NEW new, NEW blocks, NEW text, NEW to,
           Growing(r, hit, new, blocks, text, to)
    PROVE  OrderInv'
<1> DEFINE known == Len(hit) + cached[r]
           more == ToSet(hit) \cup ToSet(new)
           t == table[r]
<1>1. /\ HitOK(r, hit) /\ new \in Seq(Block) /\ Extended(r, hit, new, blocks)
      /\ Grown(r, hit, new, blocks, pool', text, to)
  BY DEF Growing
<1>2. /\ t \in Seq(Block) /\ Len(t) \in Nat /\ DOMAIN t = 1 .. Len(t) /\ Len(hit) \in Nat
      /\ cached[r] \in Nat /\ cached[r] <= Len(t) /\ TableInv /\ SealInv
      /\ \A b \in Block : pool.refs[b] \in Nat
  BY <1>1, HeldBlocks DEF IInv, TableInv, HitOK
<1>3. /\ Keeps(pool, pool', more, ToSet(hit)) /\ FreeList(pool')
      /\ \A b \in Block : pool'.refs[b] = IF b \in more THEN pool.refs[b] + 1 ELSE pool.refs[b]
      /\ \A b \in ToSet(new) : pool.refs[b] = 0 /\ b \notin ToSet(hit)
      /\ \A i \in 1 .. known : pool'.hash[blocks[i]] = pool.hash[blocks[i]]
      /\ \A b \in Block : b \notin ToSet(blocks) => pool'.hash[b] = pool.hash[b]
  BY <1>1 DEF Grown
<1>4. /\ blocks \in Seq(Block) /\ DOMAIN blocks = 1 .. Len(blocks)
      /\ ToSet(blocks) = ToSet(hit) \cup ToSet(t) \cup ToSet(new)
  BY <1>1 DEF Extended
<1>5. PICK c, n : FreeRow(pool', c, n)
  BY <1>3 DEF FreeList
<1>6. \A x, y : Ahead(pool'.queue, x, y) => y \in Block /\ pool'.refs[y] = 0
  BY <1>5, AheadListed DEF FreeRow
<1> SUFFICES ASSUME NEW b \in Block, Waits(pool', b) PROVE Followed(pool', b)
  BY DEF OrderInv
<1>7. b \notin more /\ pool.refs[b] = 0
  BY <1>2, <1>3 DEF Waits
<1>8. b \notin ToSet(t)
  BY <1>2, <1>7, HeldBlocks DEF Holders
<1>9. pool'.hash[b] = pool.hash[b]
  BY <1>3, <1>4, <1>7, <1>8
<1>10. Waits(pool, b) /\ Len(pool.hash[b]) > 1
  BY <1>7, <1>9 DEF Waits, Registered
<1>11. PICK x \in Block : /\ pool.hash[x] = Key(pool.hash[b], Len(pool.hash[b]) - 1)
                          /\ pool.refs[x] # 0 \/ Ahead(pool.queue, b, x)
  BY <1>10 DEF OrderInv, Followed
<1>12. Registered(pool, x)
  BY <1>10, <1>11, ShorterKey DEF IInv, HashInv, Registered
<1>13. x \notin ToSet(new) /\ (pool'.refs[x] # 0 \/ Ahead(pool'.queue, b, x))
  <2>1. CASE x \in ToSet(hit)
    BY <1>2, <1>3, <2>1
  <2>2. CASE x \notin ToSet(hit) /\ pool.refs[x] # 0
    BY <1>2, <1>3, <2>2
  <2>3. CASE x \notin ToSet(hit) /\ pool.refs[x] = 0
    <3>1. Ahead(pool'.queue, b, x)
      BY <1>3, <1>7, <1>11, <2>3 DEF Keeps
    <3>2. pool'.refs[x] = 0
      BY <1>6, <3>1
    <3> QED
      BY <1>2, <1>3, <3>1, <3>2
  <2> QED
    BY <2>1, <2>2, <2>3
<1>14. pool'.hash[x] = pool.hash[x]
  <2>1. CASE x \notin ToSet(blocks)
    BY <1>3, <2>1
  <2>2. CASE x \in ToSet(blocks)
    <3>1. PICK i \in 1 .. Len(blocks) : x = blocks[i]
      BY <1>4, <2>2 DEF ToSet
    <3>2. CASE i \in 1 .. Len(hit)
      <4>1. i \in 1 .. known
        BY <1>2, <3>2
      <4> QED
        BY <1>3, <3>1, <4>1
    <3>3. CASE Len(hit) = 0 /\ i \in 1 .. Len(t) /\ blocks[i] = t[i]
      <4>1. i \in 1 .. known
        <5> SUFFICES ASSUME i \notin 1 .. known PROVE FALSE
          OBVIOUS
        <5>1. i \in cached[r] + 1 .. Len(t)
          BY <1>2, <3>3
        <5> QED
          BY <1>2, <1>12, <3>1, <3>3, <5>1 DEF SealInv
      <4> QED
        BY <1>3, <3>1, <4>1
    <3> QED
      BY <1>1, <1>2, <1>13, <3>1, <3>2, <3>3, Origin
  <2> QED
    BY <2>1, <2>2
<1> QED
  BY <1>9, <1>11, <1>13, <1>14 DEF Followed

LEMMA ReversedAt ==
    ASSUME NEW s \in Seq(Block), NEW i \in 1 .. Len(s)
    PROVE  Len(FreeingOrder(s)) = Len(s) /\ FreeingOrder(s)[Len(s) - i + 1] = s[i]
<1> DEFINE n == Len(s)
           t == [j \in 1 .. n |-> s[(n - j) + 1]]
<1>1. FreeingOrder(s) = t /\ n \in Nat
  BY DEF FreeingOrder, Reverse
<1>2. n - i + 1 \in 1 .. n /\ (n - (n - i + 1)) + 1 = i
  BY <1>1
<1> QED
  BY <1>1, <1>2

\* A request frees its blocks from the end: a continuation gets ahead of what
\* it continues, and both get behind what was free before.
LEMMA ReleaseOrder ==
    ASSUME IInv, OrderInv, NEW r \in Req, Release(r)
    PROVE  OrderInv'
<1> DEFINE t == table[r]
           o == FreeingOrder(t)
<1>1. PoolInv /\ TableInv /\ pool' = FreeBlocks(pool, o)
  BY DEF IInv, Release
<1>2. t \in Seq(Block) /\ Distinct(t) /\ Len(t) \in Nat
  BY <1>1 DEF TableInv
<1>3. o \in Seq(Block) /\ Distinct(o) /\ ToSet(o) = ToSet(t)
  BY <1>2, ReversedBlocks
<1>4. \A i \in 1 .. Len(t) : Len(o) = Len(t) /\ o[Len(t) - i + 1] = t[i]
  BY <1>2, ReversedAt
<1>5. \A b \in ToSet(t) : pool.refs[b] # 0
  <2> SUFFICES ASSUME NEW b \in ToSet(t) PROVE pool.refs[b] # 0
    OBVIOUS
  <2>1. b \in Block /\ r \in Holders(b)
    BY <1>2 DEF ToSet, Holders
  <2> QED
    BY <1>1, <2>1, HeldBlocks
<1> HIDE DEF o
<1>6. Freed(pool, pool', ToSet(t)) /\ Ranked(pool, pool', o)
  BY <1>1, <1>3, <1>5, FreeAll DEF PoolInv
<1>7. /\ pool'.hash = pool.hash
      /\ \A b \in Block : pool'.refs[b] = IF b \in ToSet(t) THEN pool.refs[b] - 1 ELSE pool.refs[b]
  BY <1>6 DEF Freed
<1>8. /\ Keeps(pool, pool', {}, {})
      /\ \A x \in Block, y \in ToSet(t) :
            pool.refs[x] = 0 /\ pool'.refs[y] = 0 /\ Registered(pool, y) => Ahead(pool'.queue, x, y)
      /\ \A i, j \in 1 .. Len(o) :
            i < j /\ pool'.refs[o[i]] = 0 /\ Registered(pool, o[i])
                  /\ pool'.refs[o[j]] = 0 /\ Registered(pool, o[j])
               => Ahead(pool'.queue, o[i], o[j])
  BY <1>3, <1>6 DEF Ranked
<1> SUFFICES ASSUME NEW b \in Block, Waits(pool', b) PROVE Followed(pool', b)
  BY DEF OrderInv
<1>9. pool'.refs[b] = 0 /\ Registered(pool, b) /\ Len(pool.hash[b]) > 1
  BY <1>7 DEF Waits, Registered
<1>10. CASE b \notin ToSet(t)
  <2>1. pool.refs[b] = 0
    BY <1>7, <1>9, <1>10
  <2>2. PICK x \in Block : /\ pool.hash[x] = Key(pool.hash[b], Len(pool.hash[b]) - 1)
                           /\ pool.refs[x] # 0 \/ Ahead(pool.queue, b, x)
    BY <1>9, <2>1 DEF OrderInv, Followed, Waits
  <2>3. Registered(pool, x)
    BY <1>9, <2>2, ShorterKey DEF IInv, HashInv, Registered
  <2>4. pool'.refs[x] # 0 \/ Ahead(pool'.queue, b, x)
    <3>1. CASE Ahead(pool.queue, b, x)
      BY <1>8, <3>1 DEF Keeps
    <3>2. CASE pool.refs[x] # 0
      <4> SUFFICES ASSUME pool'.refs[x] = 0 PROVE Ahead(pool'.queue, b, x)
        OBVIOUS
      <4>1. x \in ToSet(t)
        BY <1>7, <3>2
      <4> QED
        BY <1>8, <2>1, <2>3, <4>1
    <3> QED
      BY <2>2, <3>1, <3>2
  <2> QED
    BY <1>7, <2>2, <2>4 DEF Followed
<1>11. CASE b \in ToSet(t)
  <2>1. PICK i \in 2 .. Len(t) :
           /\ t[i] = b /\ t[i] \in Block /\ t[i - 1] \in Block
           /\ pool.hash[t[i - 1]] = Key(pool.hash[b], Len(pool.hash[b]) - 1)
           /\ Registered(pool, t[i - 1])
    BY <1>9, <1>11, HeldContinues
  <2>2. pool'.refs[t[i - 1]] # 0 \/ Ahead(pool'.queue, b, t[i - 1])
    <3> SUFFICES ASSUME pool'.refs[t[i - 1]] = 0 PROVE Ahead(pool'.queue, b, t[i - 1])
      OBVIOUS
    <3> DEFINE j == Len(t) - i + 1
               k == Len(t) - (i - 1) + 1
    <3>1. i \in 1 .. Len(t) /\ i - 1 \in 1 .. Len(t)
      BY <1>2
    <3>2. j \in 1 .. Len(t) /\ k \in 1 .. Len(t) /\ j < k
      BY <1>2
    <3>3. o[j] = b /\ o[k] = t[i - 1] /\ Len(o) = Len(t)
      BY <1>4, <2>1, <3>1
    <3> HIDE DEF j, k
    <3> QED
      BY <1>8, <1>9, <2>1, <3>2, <3>3
  <2> QED
    BY <1>7, <2>1, <2>2 DEF Followed
<1> QED
  BY <1>10, <1>11

LEMMA SameOrder ==
    ASSUME OrderInv, pool' = pool
    PROVE  OrderInv'
  BY DEF OrderInv, Waits, Followed, Registered

LEMMA CallOrder ==
    ASSUME IInv, OrderInv, NEW r \in Req, Calls(r)
    PROVE  OrderInv'
<1>1. PICK hit, start, n, slots, text :
          Room(r, hit, start, n, slots, text) /\ AllocateSlots(r, hit, start, n, slots, text)
  BY DEF Calls
<1>2. Granted(r, hit, start, n, slots, text)
  BY <1>1, AllocateGrants
<1>3. \E new, blocks, to : Growing(r, hit, new, blocks, text, to)
  BY <1>2 DEF Granted
<1> QED
  BY <1>3, GrownOrder

LEMMA LearnedOrder ==
    ASSUME IInv, OrderInv, NEW r \in Req, Learned(r)
    PROVE  OrderInv'
<1>1. \/ pool' = pool
      \/ \E none, text, to : Growing(r, none, none, table[r], text, to)
  BY DEF Learned
<1> QED
  BY <1>1, SameOrder, GrownOrder

\* Nothing is registered.
LEMMA EmptyOrder ==
    ASSUME \A b \in Block : pool.hash[b] = NoHash
    PROVE  OrderInv
  BY DEF OrderInv, Waits, Registered

\* A key of the index is the hash of a block; if it is in use the request that
\* has it holds what it continues, too.
LEMMA ChainsFollow ==
    ASSUME IInv, OrderInv
    PROVE  ChainsComplete
<1>1. Indexed(pool) /\ TableInv
  BY DEF IInv, PoolInv
<1> SUFFICES ASSUME NEW key \in DOMAIN pool.index, Len(key) > 1
             PROVE  Key(key, Len(key) - 1) \in DOMAIN pool.index
  BY DEF ChainsComplete
<1>2. PICK b \in Block : Registered(pool, b) /\ pool.hash[b] = key
  BY <1>1 DEF Indexed
<1>3. \E x \in Block : pool.hash[x] = Key(key, Len(key) - 1)
  <2>1. CASE pool.refs[b] = 0
    BY <1>2, <2>1 DEF OrderInv, Followed, Waits
  <2>2. CASE pool.refs[b] # 0
    <3>1. PICK r \in Req : b \in ToSet(table[r])
      BY <1>1, <2>2, HeldBlocks DEF Holders
    <3> QED
      BY <1>2, <3>1, HeldContinues
  <2> QED
    BY <2>1, <2>2
<1>4. PICK x \in Block : pool.hash[x] = Key(key, Len(key) - 1)
  BY <1>3
<1>5. Registered(pool, x)
  BY <1>2, <1>4, ShorterKey DEF IInv, HashInv, Registered
<1> QED
  BY <1>1, <1>4, <1>5 DEF Indexed

\* The prefix of a registered text is registered as well, so that the search of
\* find_longest_cache_hit may stop at the first miss: a request registers its
\* blocks from the beginning and free_blocks takes them from the end, so that
\* of two free blocks of a text the later one is always evicted first.
THEOREM ChainsTheorem == Spec => []ChainsComplete
<1>1. Init => OrderInv
  <2> SUFFICES ASSUME Init PROVE OrderInv
    OBVIOUS
  <2>1. PICK order \in SetToSeqs(Block) :
          pool = [queue |-> QueueOf(order), refs |-> [b \in Block |-> 0],
                  hash |-> [b \in Block |-> NoHash], index |-> << >>]
    BY DEF Init
  <2>2. \A b \in Block : pool.hash[b] = NoHash
    BY <2>1
  <2> QED
    BY <2>2, EmptyOrder
<1>2. IInv /\ OrderInv /\ [Next]_vars => OrderInv'
  <2> SUFFICES ASSUME IInv, OrderInv, [Next]_vars PROVE OrderInv'
    OBVIOUS
  <2>1. ASSUME NEW r \in Req, Arrive(r) \/ Admit(r) \/ Continue(r) \/ Receive(r) \/ Release(r)
        PROVE  OrderInv'
    <3>1. CASE Arrive(r)
      BY <3>1, SameOrder DEF Arrive
    <3> QED
      BY <2>1, <3>1, AdmitCalls, ContinueCalls, CallOrder, ReceiveKeeps, LearnedOrder, ReleaseOrder
  <2>2. CASE ResetPrefixCache
    <3>1. pool' = [pool EXCEPT !.hash = [b \in Block |-> NoHash], !.index = << >>]
      BY <2>2 DEF ResetPrefixCache
    <3>2. pool = [queue |-> pool.queue, refs |-> pool.refs, hash |-> pool.hash, index |-> pool.index]
      BY DEF IInv, PoolInv, Shape
    <3>3. \A b \in Block : pool'.hash[b] = NoHash
      BY <3>1, <3>2
    <3> QED
      BY <3>3 DEF OrderInv, Waits, Registered
  <2>3. CASE UNCHANGED vars
    BY <2>3, SameOrder DEF vars
  <2> QED
    BY <2>1, <2>2, <2>3 DEF Next
<1>3. IInv /\ OrderInv => ChainsComplete
  BY ChainsFollow
<1> QED
  BY <1>1, <1>2, <1>3, InvTheorem, PTL DEF Spec
==============================================================================
