------------------------------ MODULE FreeQueue ------------------------------
(***************************************************************************)
(* FreeKVCacheBlockQueue: the free blocks in the order in which they will  *)
(* be taken, as a doubly linked list through the blocks themselves, with a *)
(* fake head and a fake tail that are never taken.  A queue is a record of *)
(* the links and of the counter that the pool trusts instead of walking    *)
(* the list.  A block that is not in the list has no links.                *)
(***************************************************************************)
EXTENDS Naturals, Sequences, SequencesExt

CONSTANT Block

NoBlock  == "none"
FakeHead == "head"
FakeTail == "tail"
Nodes    == Block \cup {FakeHead, FakeTail}

\* The ends of the list are blocks of their own.
ASSUME NodesAssumption == {NoBlock, FakeHead, FakeTail} \cap Block = {}

QueueType ==
    [num : Nat, next : [Nodes -> Nodes \cup {NoBlock}], prev : [Nodes -> Nodes \cup {NoBlock}]]

\* Each node of the sequence is linked to the one after it.
Connect(q, nodes) ==
    LET At(x) == CHOOSE i \in DOMAIN nodes : nodes[i] = x
    IN  [q EXCEPT
            !.next = [x \in Nodes |-> IF x \in ToSet(Front(nodes))
                                      THEN nodes[At(x) + 1] ELSE @[x]],
            !.prev = [x \in Nodes |-> IF x \in ToSet(Tail(nodes))
                                      THEN nodes[At(x) - 1] ELSE @[x]]]

Unlink(q, blocks) ==
    [q EXCEPT !.next = [x \in Nodes |-> IF x \in blocks THEN NoBlock ELSE @[x]],
              !.prev = [x \in Nodes |-> IF x \in blocks THEN NoBlock ELSE @[x]]]

QueueOf(blocks) ==
    LET none == [x \in Nodes |-> NoBlock]
    IN  Connect([num |-> Len(blocks), next |-> none, prev |-> none],
                <<FakeHead>> \o blocks \o <<FakeTail>>)

\* The links followed n times from a node; at the end of the list they stay.
Walk(links, from, n) ==
    LET step[i \in 0 .. n] ==
            IF i = 0 THEN from
            ELSE IF step[i - 1] \in Nodes /\ links[step[i - 1]] # NoBlock
                 THEN links[step[i - 1]] ELSE step[i - 1]
    IN  [i \in 1 .. n |-> step[i]]

FirstN(q, n) == Walk(q.next, FakeHead, n)

PopLeftN(q, n) ==
    IF n = 0 THEN q
    ELSE LET popped == FirstN(q, n)
         IN  [Unlink(Connect(q, <<FakeHead, q.next[Last(popped)]>>), ToSet(popped))
                EXCEPT !.num = @ - n]

\* remove() raises an error for a block that is in no list.
Removable(q, b) == q.prev[b] # NoBlock /\ q.next[b] # NoBlock

\* Slip: the counter is not told.
RemoveUncounted(q, b) == Unlink(Connect(q, <<q.prev[b], q.next[b]>>), {b})

RemoveBlock(q, b) ==
    [Unlink(Connect(q, <<q.prev[b], q.next[b]>>), {b}) EXCEPT !.num = @ - 1]

AppendN(q, blocks) ==
    IF blocks = << >> THEN q
    ELSE [Connect(q, <<q.prev[FakeTail]>> \o blocks \o <<FakeTail>>)
            EXCEPT !.num = @ + Len(blocks)]

PrependN(q, blocks) ==
    IF blocks = << >> THEN q
    ELSE [Connect(q, <<FakeHead>> \o blocks \o <<q.next[FakeHead]>>)
            EXCEPT !.num = @ + Len(blocks)]

-----------------------------------------------------------------------------
(* What the pool relies on. *)

\* The blocks of the list in the order of eviction, and the other way round.
Order(q)     == FirstN(q, q.num)
BackOrder(q) == Walk(q.prev, FakeTail, q.num)

\* Both directions name the same blocks, the counter is their number, and
\* what is not in the list has no links left.
WellLinked(q) ==
    /\ IsInjective(Order(q))
    /\ ToSet(Order(q)) \subseteq Block
    /\ BackOrder(q) = Reverse(Order(q))
    /\ FirstN(q, q.num + 1)[q.num + 1] = FakeTail
    /\ \A b \in Block \ ToSet(Order(q)) : ~Removable(q, b)
=============================================================================
