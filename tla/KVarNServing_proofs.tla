------------------------- MODULE KVarNServing_proofs -------------------------
(***************************************************************************)
(* Proofs about KVarNServing for any number of requests, blocks, drafts    *)
(* and ranks: the scheduler's optimistic counters and the rows on the GPU  *)
(* agree up to the outcomes in flight, so that no row is dropped for want  *)
(* of a slot; the tracker owns nothing of a request that has gone; its     *)
(* epochs are settled when a step begins; a request that awaits tokens has *)
(* been computed up to the last of them.  KVarNBlocks_proofs goes on.      *)
(***************************************************************************)
EXTENDS KVarNServing, BlockTracker_proofs, FiniteSetTheorems

-----------------------------------------------------------------------------
(* Sequences without repetition. *)

LEMMA MembersAreRange ==
    ASSUME NEW s
    PROVE  Members(s) = Range(s)
  BY DEF Members, Range

LEMMA SeqItems ==
    ASSUME NEW S, NEW s \in Seq(S)
    PROVE  /\ Range(s) \subseteq S
           /\ \A i \in 1 .. Len(s) : s[i] \in Range(s)
           /\ \A x \in Range(s) : \E i \in 1 .. Len(s) : x = s[i]
<1>1. DOMAIN s = 1 .. Len(s)
  OBVIOUS
<1>2. \A i \in 1 .. Len(s) : s[i] \in S
  OBVIOUS
<1>3. \A x \in Range(s) : \E i \in 1 .. Len(s) : x = s[i]
  BY <1>1 DEF Range
<1>4. \A i \in 1 .. Len(s) : s[i] \in Range(s)
  BY <1>1 DEF Range
<1>5. Range(s) \subseteq S
  BY <1>2, <1>3
<1> QED
  BY <1>3, <1>4, <1>5

LEMMA AppendItem ==
    ASSUME NEW S, NEW s \in Seq(S), NEW x \in S
    PROVE  /\ Append(s, x) \in Seq(S)
           /\ Range(Append(s, x)) = Range(s) \cup {x}
           /\ IsInjective(s) /\ x \notin Range(s) => IsInjective(Append(s, x))
<1>1. /\ Append(s, x) \in Seq(S) /\ Len(Append(s, x)) = Len(s) + 1
      /\ \A i \in 1 .. Len(s) : Append(s, x)[i] = s[i]
      /\ Append(s, x)[Len(s) + 1] = x
      /\ DOMAIN s = 1 .. Len(s) /\ DOMAIN Append(s, x) = 1 .. Len(s) + 1
      /\ Len(s) \in Nat
  OBVIOUS
<1>2. Range(Append(s, x)) = Range(s) \cup {x}
  <2>1. \A y \in Range(Append(s, x)) : y \in Range(s) \cup {x}
    BY <1>1 DEF Range
  <2>2. \A y \in Range(s) \cup {x} : y \in Range(Append(s, x))
    BY <1>1 DEF Range
  <2> QED
    BY <2>1, <2>2
<1>3. IsInjective(s) /\ x \notin Range(s) => IsInjective(Append(s, x))
  BY <1>1 DEF IsInjective, Range
<1> QED
  BY <1>1, <1>2, <1>3

LEMMA Concatenation ==
    ASSUME NEW S, NEW s \in Seq(S), NEW t \in Seq(S)
    PROVE  /\ s \o t \in Seq(S) /\ Len(s \o t) = Len(s) + Len(t)
           /\ Range(s \o t) = Range(s) \cup Range(t)
           /\ IsInjective(s) /\ IsInjective(t) /\ Range(s) \cap Range(t) = {}
                 => IsInjective(s \o t)
<1>1. /\ s \o t \in Seq(S) /\ Len(s \o t) = Len(s) + Len(t)
      /\ DOMAIN s = 1 .. Len(s) /\ DOMAIN t = 1 .. Len(t)
      /\ DOMAIN (s \o t) = 1 .. Len(s) + Len(t)
      /\ Len(s) \in Nat /\ Len(t) \in Nat
      /\ \A i \in 1 .. Len(s) : (s \o t)[i] = s[i]
  OBVIOUS
<1>2. \A i \in 1 .. Len(t) : (s \o t)[Len(s) + i] = t[i]
  OBVIOUS
<1>3. ASSUME NEW i \in 1 .. Len(s) + Len(t), i > Len(s)
      PROVE  i - Len(s) \in 1 .. Len(t) /\ (s \o t)[i] = t[i - Len(s)]
  BY <1>1, <1>3
<1>4. Range(s \o t) = Range(s) \cup Range(t)
  <2>1. ASSUME NEW y \in Range(s \o t) PROVE y \in Range(s) \cup Range(t)
    <3>1. PICK i \in 1 .. Len(s) + Len(t) : y = (s \o t)[i]
      BY <1>1 DEF Range
    <3>2. CASE i <= Len(s)
      BY <1>1, <3>1, <3>2 DEF Range
    <3>3. CASE i > Len(s)
      BY <1>1, <1>3, <3>1, <3>3 DEF Range
    <3> QED
      BY <1>1, <3>2, <3>3
  <2>2. \A y \in Range(s) : y \in Range(s \o t)
    BY <1>1 DEF Range
  <2>3. ASSUME NEW y \in Range(t) PROVE y \in Range(s \o t)
    <3>1. PICK i \in 1 .. Len(t) : y = t[i]
      BY <1>1 DEF Range
    <3>2. Len(s) + i \in DOMAIN (s \o t)
      BY <1>1
    <3> QED
      BY <1>2, <3>1, <3>2 DEF Range
  <2> QED
    BY <2>1, <2>2, <2>3
<1>5. ASSUME IsInjective(s), IsInjective(t), Range(s) \cap Range(t) = {}
      PROVE  IsInjective(s \o t)
  <2> SUFFICES ASSUME NEW i \in 1 .. Len(s) + Len(t), NEW j \in 1 .. Len(s) + Len(t),
                      (s \o t)[i] = (s \o t)[j]
               PROVE  i = j
    BY <1>1 DEF IsInjective
  <2>1. /\ i <= Len(s) => (s \o t)[i] \in Range(s)
        /\ j <= Len(s) => (s \o t)[j] \in Range(s)
        /\ i > Len(s) => (s \o t)[i] \in Range(t)
        /\ j > Len(s) => (s \o t)[j] \in Range(t)
    BY <1>1, <1>3 DEF Range
  <2>2. CASE i <= Len(s) /\ j <= Len(s)
    BY <1>1, <1>5, <2>2 DEF IsInjective
  <2>3. CASE i > Len(s) /\ j > Len(s)
    <3>1. i - Len(s) = j - Len(s)
      BY <1>1, <1>3, <1>5, <2>3 DEF IsInjective
    <3> QED
      BY <1>1, <3>1
  <2> QED
    BY <1>1, <1>5, <2>1, <2>2, <2>3
<1> QED
  BY <1>1, <1>4, <1>5

LEMMA FrontAndLast ==
    ASSUME NEW S, NEW s \in Seq(S), s # << >>
    PROVE  /\ Front(s) \in Seq(S) /\ Len(Front(s)) = Len(s) - 1
           /\ \A i \in 1 .. Len(s) - 1 : Front(s)[i] = s[i]
           /\ Last(s) = s[Len(s)] /\ Last(s) \in S /\ Len(s) \in Nat \ {0}
           /\ Range(s) = Range(Front(s)) \cup {Last(s)}
           /\ IsInjective(s) => IsInjective(Front(s)) /\ Last(s) \notin Range(Front(s))
<1>1. /\ Len(s) \in Nat \ {0} /\ DOMAIN s = 1 .. Len(s)
      /\ Last(s) = s[Len(s)] /\ Last(s) \in S
  BY DEF Last
<1>2. /\ Front(s) \in Seq(S) /\ Len(Front(s)) = Len(s) - 1
      /\ DOMAIN Front(s) = 1 .. Len(s) - 1
      /\ \A i \in 1 .. Len(s) - 1 : Front(s)[i] = s[i]
  BY <1>1 DEF Front
<1>3. Range(s) = Range(Front(s)) \cup {Last(s)}
  <2>1. \A y \in Range(s) : y \in Range(Front(s)) \cup {Last(s)}
    BY <1>1, <1>2 DEF Range
  <2>2. \A y \in Range(Front(s)) \cup {Last(s)} : y \in Range(s)
    BY <1>1, <1>2 DEF Range
  <2> QED
    BY <2>1, <2>2
<1>4. IsInjective(s) => IsInjective(Front(s)) /\ Last(s) \notin Range(Front(s))
  BY <1>1, <1>2 DEF IsInjective, Range
<1> QED
  BY <1>1, <1>2, <1>3, <1>4

LEMMA HeadAndTail ==
    ASSUME NEW S, NEW s \in Seq(S), s # << >>
    PROVE  /\ Tail(s) \in Seq(S) /\ Len(Tail(s)) = Len(s) - 1 /\ Head(s) \in S
           /\ Len(s) \in Nat \ {0}
           /\ \A i \in 1 .. Len(s) - 1 : Tail(s)[i] = s[i + 1]
           /\ Head(s) = s[1] /\ DOMAIN Tail(s) = 1 .. Len(s) - 1
           /\ Range(s) = Range(Tail(s)) \cup {Head(s)}
           /\ IsInjective(s) => IsInjective(Tail(s)) /\ Head(s) \notin Range(Tail(s))
<1>1. /\ Len(s) \in Nat \ {0} /\ DOMAIN s = 1 .. Len(s)
      /\ Head(s) = s[1] /\ Head(s) \in S
  OBVIOUS
<1>2. /\ Tail(s) \in Seq(S) /\ Len(Tail(s)) = Len(s) - 1
      /\ DOMAIN Tail(s) = 1 .. Len(s) - 1
      /\ \A i \in 1 .. Len(s) - 1 : Tail(s)[i] = s[i + 1]
  BY <1>1
<1>3. Range(s) = Range(Tail(s)) \cup {Head(s)}
  <2>1. ASSUME NEW y \in Range(s) PROVE y \in Range(Tail(s)) \cup {Head(s)}
    <3>1. PICK i \in 1 .. Len(s) : y = s[i]
      BY <1>1 DEF Range
    <3>2. CASE i # 1
      <4>1. i - 1 \in 1 .. Len(s) - 1 /\ Tail(s)[i - 1] = s[i]
        BY <1>1, <1>2, <3>2
      <4> QED
        BY <1>2, <3>1, <4>1 DEF Range
    <3> QED
      BY <1>1, <3>1, <3>2
  <2>2. \A y \in Range(Tail(s)) \cup {Head(s)} : y \in Range(s)
    BY <1>1, <1>2 DEF Range
  <2> QED
    BY <2>1, <2>2
<1>4. IsInjective(s) => IsInjective(Tail(s)) /\ Head(s) \notin Range(Tail(s))
  <2> SUFFICES ASSUME IsInjective(s)
               PROVE  IsInjective(Tail(s)) /\ Head(s) \notin Range(Tail(s))
    OBVIOUS
  <2>1. \A i, j \in 1 .. Len(s) : s[i] = s[j] => i = j
    BY <1>1 DEF IsInjective
  <2>2. \A i \in 1 .. Len(s) - 1 : i + 1 \in 1 .. Len(s) /\ i + 1 # 1
    BY <1>1
  <2>3. IsInjective(Tail(s))
    BY <1>2, <2>1, <2>2 DEF IsInjective
  <2>4. Head(s) \notin Range(Tail(s))
    BY <1>1, <1>2, <2>1, <2>2 DEF Range
  <2> QED
    BY <2>3, <2>4
<1> QED
  BY <1>1, <1>2, <1>3, <1>4

\* remove_all: what is left of a list, in its order.
LEMMA RemovedItems ==
    ASSUME NEW S, NEW s \in Seq(S), NEW items
    PROVE  /\ RemoveAll(s, items) \in Seq(S)
           /\ Range(RemoveAll(s, items)) = Range(s) \ items
           /\ IsInjective(s) => IsInjective(RemoveAll(s, items))
<1> DEFINE Step(l, i) == IF i = 0 THEN << >>
                         ELSE IF s[i] \in items THEN l[i - 1] ELSE Append(l[i - 1], s[i])
           IsLeft(l, n) == l = [i \in 0 .. n |-> Step(l, i)]
           left == CHOOSE l : IsLeft(l, Len(s))
           T == {n \in 0 .. Len(s) : ~ \E l : IsLeft(l, n)}
<1>1. Len(s) \in Nat
  OBVIOUS
<1>2. \E l : IsLeft(l, Len(s))
  <2>1. \E l : IsLeft(l, 0)
    <3> DEFINE l == [i \in 0 .. 0 |-> << >>]
    <3>1. IsLeft(l, 0)
      OBVIOUS
    <3> QED
      BY <3>1
  <2>2. ASSUME NEW n \in Nat, \E l : IsLeft(l, n)
        PROVE  \E l : IsLeft(l, n + 1)
    <3>1. PICK l : IsLeft(l, n)
      BY <2>2
    <3> DEFINE m == [i \in 0 .. n + 1 |-> IF i <= n THEN l[i] ELSE Step(l, i)]
    <3>2. \A i \in 0 .. n : l[i] = Step(l, i) /\ m[i] = l[i]
      <4> HIDE DEF Step
      <4>1. \A i \in 0 .. n : l[i] = Step(l, i)
        BY <3>1
      <4>2. \A i \in 0 .. n : i \in 0 .. n + 1 /\ i <= n
        OBVIOUS
      <4>3. \A i \in 0 .. n : m[i] = l[i]
        BY <4>2
      <4> QED
        BY <4>1, <4>3
    <3>3. ASSUME NEW i \in 0 .. n + 1 PROVE m[i] = Step(m, i)
      <4>1. i # 0 => i - 1 \in 0 .. n
        BY <2>2
      <4>2. i # 0 => m[i - 1] = l[i - 1]
        BY <3>2, <4>1
      <4>3. m[i] = Step(l, i)
        <5>1. m[i] = IF i <= n THEN l[i] ELSE Step(l, i)
          OBVIOUS
        <5>2. i <= n => i \in 0 .. n
          OBVIOUS
        <5> HIDE DEF m, Step
        <5> QED
          BY <3>2, <5>1, <5>2
      <4> HIDE DEF m
      <4> QED
        BY <4>2, <4>3
    <3>4. DOMAIN m = 0 .. n + 1 /\ m = [i \in 0 .. n + 1 |-> m[i]]
      OBVIOUS
    <3>5. IsLeft(m, n + 1)
      <4> HIDE DEF m, Step
      <4> QED
        BY <3>3, <3>4
    <3> QED
      BY <3>5
  <2> HIDE DEF IsLeft
  <2>3. CASE T # {}
    <3>1. T \in SUBSET Nat
      BY <1>1
    <3>2. PICK n \in T : \A k \in T : n <= k
      BY <2>3, <3>1, LeastElement
    <3>3. n # 0 /\ n - 1 \in 0 .. Len(s) /\ n - 1 \notin T /\ n \in Nat
      BY <1>1, <2>1, <3>1, <3>2
    <3>4. \E l : IsLeft(l, n - 1)
      BY <3>3
    <3>5. \E l : IsLeft(l, (n - 1) + 1)
      BY <2>2, <3>3, <3>4
    <3>6. (n - 1) + 1 = n
      BY <3>3
    <3> QED
      BY <3>2, <3>5, <3>6
  <2> QED
    BY <1>1, <2>3
<1>3. IsLeft(left, Len(s))
  <2> HIDE DEF IsLeft
  <2> QED
    BY <1>2
<1>4. RemoveAll(s, items) = left[Len(s)]
  BY DEF RemoveAll
<1>5. \A i \in 0 .. Len(s) : left[i] = Step(left, i)
  <2> HIDE DEF left, Step
  <2> QED
    BY <1>3
<1>6. /\ left[0] = << >>
      /\ \A i \in 1 .. Len(s) :
            left[i] = IF s[i] \in items THEN left[i - 1] ELSE Append(left[i - 1], s[i])
  <2> HIDE DEF left
  <2> QED
    BY <1>1, <1>5
<1> HIDE DEF left
<1>7. \A i \in 1 .. Len(s) : s[i] \in S
  OBVIOUS
<1> DEFINE First(n) == {s[i] : i \in 1 .. n}
           Good(n) == /\ left[n] \in Seq(S)
                      /\ Range(left[n]) = First(n) \ items
                      /\ IsInjective(s) => IsInjective(left[n])
           Bad == {n \in 0 .. Len(s) : ~Good(n)}
<1>8. Good(0)
  <2>1. left[0] \in Seq(S) /\ Range(left[0]) = {} /\ IsInjective(left[0])
    BY <1>6 DEF Range, IsInjective
  <2>2. First(0) = {}
    OBVIOUS
  <2> QED
    BY <2>1, <2>2
<1>9. ASSUME NEW n \in 1 .. Len(s), Good(n - 1)
      PROVE  Good(n)
  <2>1. First(n) = First(n - 1) \cup {s[n]}
    BY <1>1
  <2>2. IsInjective(s) => s[n] \notin First(n - 1)
    BY <1>1 DEF IsInjective
  <2>3. s[n] \in S
    BY <1>7
  <2> HIDE DEF First
  <2>4. CASE s[n] \in items
    BY <1>6, <1>9, <2>1, <2>4
  <2>5. CASE s[n] \notin items
    <3>1. left[n] = Append(left[n - 1], s[n])
      BY <1>6, <2>5
    <3>2. /\ left[n] \in Seq(S) /\ Range(left[n]) = Range(left[n - 1]) \cup {s[n]}
          /\ IsInjective(left[n - 1]) /\ s[n] \notin Range(left[n - 1]) => IsInjective(left[n])
      BY <1>9, <2>3, <3>1, AppendItem
    <3> QED
      BY <1>9, <2>1, <2>2, <2>5, <3>2
  <2> QED
    BY <2>4, <2>5
<1>10. Good(Len(s))
  <2> HIDE DEF Good
  <2>1. CASE Bad # {}
    <3>1. Bad \in SUBSET Nat
      BY <1>1
    <3>2. PICK n \in Bad : \A k \in Bad : n <= k
      BY <2>1, <3>1, LeastElement
    <3>3. n \in 1 .. Len(s) /\ n - 1 \in 0 .. Len(s) /\ n - 1 \notin Bad
      BY <1>1, <1>8, <3>1, <3>2
    <3>4. Good(n - 1)
      BY <3>3
    <3> QED
      BY <1>9, <3>2, <3>3, <3>4
  <2> QED
    BY <1>1, <2>1
<1>11. First(Len(s)) = Range(s)
  <2>1. DOMAIN s = 1 .. Len(s)
    OBVIOUS
  <2> QED
    BY <2>1 DEF Range
<1> HIDE DEF First
<1> QED
  BY <1>4, <1>10, <1>11

-----------------------------------------------------------------------------
(* The inductive invariant. *)

\* Functions from some of the elements of D.
Partial(D, V) == UNION {[E -> V] : E \in SUBSET D}

Counters == [computed : Nat, total : Nat, placeholders : Nat, decoding : BOOLEAN,
             table : Seq(Block)]
Grant    == [start : Nat, sched : Nat, drafts : Nat]
Outcome  == [drafts : 0 .. Lookahead, rej : 0 .. Lookahead, sampled : BOOLEAN]
States   == [rows : Nat, ids : Seq(Block)]

\* What the batches in flight have still to tell of a request.
Awaiting(r) == Sampled(1, r) + Sampled(2, r)
Behind(r)   == Rejected(1, r) + Rejected(2, r)

\* The blocks the worker's request state names.
Own(r) == IF r \in DOMAIN worker THEN Range(worker[r].ids) ELSE {}

TypesInv ==
    /\ async \in BOOLEAN
    /\ request \in [Req -> Counters]
    /\ running \in Seq(Req) /\ waiting \in Seq(Req)
    /\ cachedAt \in [Block -> 0 .. Cardinality(Block)]
    /\ batch \in Partial(Req, Grant)
    /\ tokenBudget \in 0 .. Budget
    /\ phase \in {"idle", "scheduling"}
    /\ finished \subseteq Req /\ preempted \subseteq Req
    /\ inflight \in Seq(Partial(Req, Outcome))
    /\ worker \in Partial(Req, States) /\ unsettled \in Partial(Req, Nat)
    /\ DOMAIN unsettled \subseteq DOMAIN worker
    /\ needed \subseteq Block /\ full \subseteq needed

\* A request is in one place.  A granted one had its turn before those behind
\* it, so that Preempt, which takes the last, never takes a granted one.
QueuesInv ==
    /\ IsInjective(running) /\ IsInjective(waiting)
    /\ Running \cap Range(waiting) = {}
    /\ finished \cap Unfinished = {}
    /\ preempted \subseteq Range(waiting)
    /\ phase = "idle" => preempted = {} /\ batch = NoBatch
    /\ DOMAIN batch \subseteq Running
    /\ \A i, j \in DOMAIN running :
          i < j /\ running[j] \in DOMAIN batch => ~Schedulable(running[i])

\* The queue has room whenever a step is put together; a request preempted in
\* an earlier step is in the oldest batch only, which leaves the queue before
\* the next step begins, so that a resumed request is in none.
FlightInv ==
    /\ Len(inflight) <= Depth
    /\ phase = "scheduling" => Len(inflight) < Depth
    /\ \A i \in DOMAIN inflight : \A r \in DOMAIN inflight[i] :
        /\ inflight[i][r].rej <= inflight[i][r].drafts
        /\ ~inflight[i][r].sampled => inflight[i][r].drafts = 0
        /\ r \in Range(waiting) \ preempted => i = 1 /\ Len(inflight) = Depth
    /\ DOMAIN worker \subseteq Running \cup finished \cup preempted
    /\ \A r \in Running : r \in DOMAIN worker \/ (r \in DOMAIN batch /\ r \notin InFlight)

\* The scheduler's counters of a request stay inside its limits.
RequestInv ==
    /\ \A r \in Req \ Unfinished : request[r] = Idle
    /\ \A r \in Unfinished :
        /\ request[r].total \in 1 .. Limit
        /\ request[r].placeholders = (IF async THEN Awaiting(r) ELSE 0)
        /\ request[r].computed <= request[r].total + Awaiting(r)
        /\ request[r].computed <= MaxLen
    /\ \A r \in Range(waiting) : request[r].computed = 0

\* They are ahead of the worker by the rejections in flight.
CountInv ==
    \A r \in Running \cap DOMAIN worker :
        request[r].computed = worker[r].rows + Behind(r)

\* What was granted follows the counters and fits the model.
BatchInv ==
    \A r \in DOMAIN batch :
        LET e == batch[r]  q == request[r]
        IN  /\ e.start = q.computed
            /\ e.drafts <= Lookahead /\ e.drafts <= e.sched
            /\ e.start + e.sched <= MaxLen
            /\ e.start + e.sched <= q.total + q.placeholders + e.drafts
            /\ e.drafts > 0 => q.total + q.placeholders <= e.start + e.sched

\* Tables only grow while a request runs, up to the length of the model.
TablesInv ==
    /\ \A r \in Running \cap DOMAIN worker :
          Range(worker[r].ids) \subseteq Range(request[r].table)
    /\ \A r \in Req : Len(request[r].table) <= BlocksFor(MaxLen)

\* The tracker keeps blocks of a request only while the worker knows it, and
\* only blocks of the table the worker has.
TrackedInv ==
    /\ DOMAIN requestBlocks = Req /\ DOMAIN epochBlocks = Req
    /\ DOMAIN resolvedBlocks = Req /\ DOMAIN pendingBlocks = Req
    /\ stepBlocks \in Fillings(Block)
    /\ \A r \in Req :
        /\ requestBlocks[r] \in Fillings(Own(r)) /\ epochBlocks[r] \in Fillings(Own(r))
        /\ resolvedBlocks[r] \in Fillings(Own(r)) /\ pendingBlocks[r] \in Placings(Own(r))

IInv ==
    /\ TypesInv /\ QueuesInv /\ FlightInv /\ RequestInv /\ CountInv /\ BatchInv
    /\ TablesInv /\ TrackedInv
    /\ RowsNeverDropped

-----------------------------------------------------------------------------
(* Partial functions, and the outcomes in flight. *)

LEMMA PartialDef ==
    ASSUME NEW D, NEW V, NEW f, f = [x \in DOMAIN f |-> f[x]], DOMAIN f \subseteq D,
           \A x \in DOMAIN f : f[x] \in V
    PROVE  f \in Partial(D, V)
<1>1. f \in [DOMAIN f -> V]
  OBVIOUS
<1> QED
  BY <1>1 DEF Partial

LEMMA PartialParts ==
    ASSUME NEW D, NEW V, NEW f \in Partial(D, V)
    PROVE  DOMAIN f \subseteq D /\ \A x \in DOMAIN f : f[x] \in V
<1>1. PICK E \in SUBSET D : f \in [E -> V]
  BY DEF Partial
<1> QED
  BY <1>1

LEMMA NoPartial ==
    ASSUME NEW D, NEW V
    PROVE  NoBatch \in Partial(D, V) /\ DOMAIN NoBatch = {}
<1>1. DOMAIN NoBatch = {} /\ NoBatch = [x \in {} |-> 0]
  BY DEF NoBatch
<1> HIDE DEF NoBatch
<1>2. NoBatch = [x \in DOMAIN NoBatch |-> NoBatch[x]]
  BY <1>1
<1> QED
  BY <1>1, <1>2, PartialDef

LEMMA WithPartial ==
    ASSUME NEW D, NEW V, NEW f \in Partial(D, V), NEW r \in D, NEW v \in V
    PROVE  With(f, r, v) \in Partial(D, V)
<1> DEFINE g == With(f, r, v)
<1>1. /\ DOMAIN g = DOMAIN f \cup {r} /\ g = [x \in DOMAIN g |-> g[x]]
      /\ g[r] = v /\ \A x \in DOMAIN f : x # r => g[x] = f[x]
  BY DEF With
<1>2. DOMAIN f \subseteq D /\ \A x \in DOMAIN f : f[x] \in V
  BY PartialParts
<1> HIDE DEF g
<1>3. g \in Partial(D, V)
  BY <1>1, <1>2, PartialDef
<1> QED
  BY <1>3 DEF g

LEMMA FlightTypes ==
    ASSUME TypesInv, NEW i \in DOMAIN inflight
    PROVE  /\ inflight[i] \in Partial(Req, Outcome)
           /\ DOMAIN inflight[i] \subseteq Req
           /\ \A r \in DOMAIN inflight[i] :
                /\ inflight[i][r].drafts \in 0 .. Lookahead
                /\ inflight[i][r].rej \in 0 .. Lookahead
                /\ inflight[i][r].sampled \in BOOLEAN
<1>1. inflight[i] \in Partial(Req, Outcome)
  BY DEF TypesInv
<1>2. DOMAIN inflight[i] \subseteq Req /\ \A r \in DOMAIN inflight[i] : inflight[i][r] \in Outcome
  BY <1>1, PartialParts
<1> QED
  BY <1>1, <1>2 DEF Outcome

LEMMA FlightBounds ==
    ASSUME TypesInv, FlightInv, NEW r, NEW i \in {1, 2}
    PROVE  /\ Sampled(i, r) \in 0 .. Lookahead + 1
           /\ Rejected(i, r) \in 0 .. Lookahead
           /\ Rejected(i, r) <= Sampled(i, r)
           /\ r \notin InFlight => Sampled(i, r) = 0 /\ Rejected(i, r) = 0
           /\ i > Len(inflight) => Sampled(i, r) = 0 /\ Rejected(i, r) = 0
<1>1. Lookahead \in Nat
  BY ServingAssumption
<1>2. inflight \in Seq(Partial(Req, Outcome)) /\ DOMAIN inflight = 1 .. Len(inflight)
  BY DEF TypesInv
<1>3. CASE i \in DOMAIN inflight /\ r \in DOMAIN inflight[i]
  <2>1. /\ inflight[i][r].drafts \in 0 .. Lookahead
        /\ inflight[i][r].rej \in 0 .. Lookahead
        /\ inflight[i][r].sampled \in BOOLEAN
    BY <1>3, FlightTypes
  <2>2. /\ inflight[i][r].rej <= inflight[i][r].drafts
        /\ ~inflight[i][r].sampled => inflight[i][r].drafts = 0
    BY <1>3 DEF FlightInv
  <2>3. r \in InFlight
    BY <1>3 DEF InFlight
  <2>4. /\ Rejected(i, r) = inflight[i][r].rej
        /\ Sampled(i, r) = IF inflight[i][r].sampled THEN 1 + inflight[i][r].drafts ELSE 0
    BY <1>3 DEF Sampled, Rejected
  <2>5. ~ (i > Len(inflight))
    BY <1>2, <1>3
  <2> QED
    BY <1>1, <2>1, <2>2, <2>3, <2>4, <2>5
<1>4. CASE ~ (i \in DOMAIN inflight /\ r \in DOMAIN inflight[i])
  BY <1>1, <1>4 DEF Sampled, Rejected
<1> QED
  BY <1>3, <1>4

LEMMA FlightSums ==
    ASSUME TypesInv, FlightInv, NEW r
    PROVE  /\ Awaiting(r) \in 0 .. 2 * (Lookahead + 1)
           /\ Behind(r) \in Nat /\ Behind(r) <= Awaiting(r)
           /\ r \notin InFlight => Awaiting(r) = 0 /\ Behind(r) = 0
           /\ phase = "scheduling" => Behind(r) <= Lookahead
           /\ phase = "scheduling" /\ ~async => Awaiting(r) = 0
<1>1. Lookahead \in Nat
  BY ServingAssumption
<1>2. /\ Sampled(1, r) \in 0 .. Lookahead + 1 /\ Sampled(2, r) \in 0 .. Lookahead + 1
      /\ Rejected(1, r) \in 0 .. Lookahead /\ Rejected(2, r) \in 0 .. Lookahead
      /\ Rejected(1, r) <= Sampled(1, r) /\ Rejected(2, r) <= Sampled(2, r)
      /\ r \notin InFlight => /\ Sampled(1, r) = 0 /\ Rejected(1, r) = 0
                              /\ Sampled(2, r) = 0 /\ Rejected(2, r) = 0
      /\ 1 > Len(inflight) => Sampled(1, r) = 0
      /\ 2 > Len(inflight) => Sampled(2, r) = 0 /\ Rejected(2, r) = 0
  BY FlightBounds
<1>3. /\ phase = "scheduling" => 2 > Len(inflight)
      /\ phase = "scheduling" /\ ~async => 1 > Len(inflight)
  <2>1. Len(inflight) \in Nat /\ async \in BOOLEAN
    BY DEF TypesInv
  <2>2. phase = "scheduling" => Len(inflight) < Depth
    BY DEF FlightInv
  <2> QED
    BY <2>1, <2>2 DEF Depth
<1> QED
  BY <1>1, <1>2, <1>3 DEF Awaiting, Behind

LEMMA SameFlight ==
    ASSUME inflight' = inflight, NEW r
    PROVE  /\ Awaiting(r)' = Awaiting(r) /\ Behind(r)' = Behind(r)
           /\ InFlight' = InFlight
  BY DEF Awaiting, Behind, Sampled, Rejected, InFlight

\* A batch joins the queue.
LEMMA JoinsFlight ==
    ASSUME TypesInv, FlightInv, phase = "scheduling", NEW b \in Partial(Req, Outcome),
           inflight' = Append(inflight, b), NEW r
    PROVE  /\ Awaiting(r)' = Awaiting(r) + (IF r \in DOMAIN b /\ b[r].sampled
                                            THEN 1 + b[r].drafts ELSE 0)
           /\ Behind(r)' = Behind(r) + (IF r \in DOMAIN b THEN b[r].rej ELSE 0)
<1> DEFINE n == Len(inflight)
           s == IF r \in DOMAIN b /\ b[r].sampled THEN 1 + b[r].drafts ELSE 0
           t == IF r \in DOMAIN b THEN b[r].rej ELSE 0
<1>1. n \in {0, 1}
  <2>1. n \in Nat /\ async \in BOOLEAN /\ n < Depth
    BY DEF TypesInv, FlightInv
  <2> HIDE DEF n
  <2> QED
    BY <2>1 DEF Depth
<1>2. inflight \in Seq(Partial(Req, Outcome))
  BY DEF TypesInv
<1>3. /\ DOMAIN inflight = 1 .. n /\ DOMAIN (inflight') = 1 .. n + 1
      /\ inflight'[n + 1] = b /\ \A i \in 1 .. n : inflight'[i] = inflight[i]
  BY <1>2
<1>4. s \in Nat /\ t \in Nat
  <2>1. ASSUME r \in DOMAIN b PROVE b[r] \in Outcome
    BY <2>1, PartialParts
  <2>2. Lookahead \in Nat
    BY ServingAssumption
  <2> QED
    BY <2>1, <2>2 DEF Outcome
<1>5. /\ Sampled(1, r) \in Nat /\ Rejected(1, r) \in Nat
      /\ Sampled(2, r) \in Nat /\ Rejected(2, r) \in Nat
      /\ 1 > n => Sampled(1, r) = 0 /\ Rejected(1, r) = 0
      /\ 2 > n => Sampled(2, r) = 0 /\ Rejected(2, r) = 0
  BY FlightBounds, ServingAssumption
<1>6. CASE n = 0
  <2>1. /\ Sampled(1, r)' = s /\ Rejected(1, r)' = t
        /\ Sampled(2, r)' = 0 /\ Rejected(2, r)' = 0
    BY <1>3, <1>6 DEF Sampled, Rejected
  <2> HIDE DEF n, s, t
  <2>2. /\ Awaiting(r)' = s /\ Behind(r)' = t
    BY <1>4, <2>1 DEF Awaiting, Behind
  <2>3. Awaiting(r) = 0 /\ Behind(r) = 0
    BY <1>5, <1>6 DEF Awaiting, Behind
  <2> QED
    BY <1>4, <2>2, <2>3 DEF s, t
<1>7. CASE n = 1
  <2>1. /\ Sampled(1, r)' = Sampled(1, r) /\ Rejected(1, r)' = Rejected(1, r)
        /\ Sampled(2, r)' = s /\ Rejected(2, r)' = t
    BY <1>3, <1>7 DEF Sampled, Rejected
  <2> HIDE DEF n, s, t
  <2>2. Awaiting(r) = Sampled(1, r) /\ Behind(r) = Rejected(1, r)
    BY <1>5, <1>7 DEF Awaiting, Behind
  <2>3. Awaiting(r)' = Awaiting(r) + s /\ Behind(r)' = Behind(r) + t
    BY <2>1, <2>2 DEF Awaiting, Behind
  <2> QED
    BY <2>3 DEF s, t
<1> QED
  BY <1>1, <1>6, <1>7

\* The oldest batch leaves the queue.
LEMMA LeavesFlight ==
    ASSUME TypesInv, FlightInv, inflight # << >>, inflight' = Tail(inflight), NEW r
    PROVE  /\ Awaiting(r)' = Awaiting(r) - Sampled(1, r)
           /\ Behind(r)' = Behind(r) - Rejected(1, r)
<1> DEFINE n == Len(inflight)
<1>1. n \in {1, 2}
  <2>1. n \in Nat \ {0} /\ async \in BOOLEAN /\ n <= Depth
    BY DEF TypesInv, FlightInv
  <2> HIDE DEF n
  <2> QED
    BY <2>1 DEF Depth
<1>2. /\ DOMAIN inflight = 1 .. n /\ DOMAIN (inflight') = 1 .. n - 1
      /\ \A i \in 1 .. n - 1 : inflight'[i] = inflight[i + 1]
  <2>1. inflight \in Seq(Partial(Req, Outcome))
    BY DEF TypesInv
  <2> QED
    BY <2>1, HeadAndTail
<1>3. /\ Sampled(1, r) \in Nat /\ Rejected(1, r) \in Nat
      /\ Sampled(2, r) \in Nat /\ Rejected(2, r) \in Nat
      /\ 2 > n => Sampled(2, r) = 0 /\ Rejected(2, r) = 0
  BY FlightBounds, ServingAssumption
<1>4. /\ Sampled(1, r)' = Sampled(2, r) /\ Rejected(1, r)' = Rejected(2, r)
      /\ Sampled(2, r)' = 0 /\ Rejected(2, r)' = 0
  <2> HIDE DEF n
  <2>1. CASE n = 1
    <3>1. 1 \notin DOMAIN (inflight') /\ 2 \notin DOMAIN (inflight')
      BY <1>2, <2>1
    <3>2. Sampled(2, r) = 0 /\ Rejected(2, r) = 0
      BY <1>3, <2>1
    <3> QED
      BY <3>1, <3>2 DEF Sampled, Rejected
  <2>2. CASE n = 2
    <3>0. /\ DOMAIN inflight = 1 .. 2 /\ DOMAIN (inflight') = 1 .. 1
          /\ \A i \in 1 .. 1 : inflight'[i] = inflight[i + 1]
      BY <1>2, <2>2
    <3>1. /\ 1 \in DOMAIN (inflight') /\ 2 \notin DOMAIN (inflight')
          /\ 2 \in DOMAIN inflight
      BY <3>0
    <3>2. inflight'[1] = inflight[2]
      BY <3>0
    <3>3. Sampled(2, r)' = 0 /\ Rejected(2, r)' = 0
      BY <3>1 DEF Sampled, Rejected
    <3> HIDE DEF n
    <3>4. Sampled(1, r)' = Sampled(2, r)
      BY <3>1, <3>2 DEF Sampled
    <3>5. Rejected(1, r)' = Rejected(2, r)
      BY <3>1, <3>2 DEF Rejected
    <3> QED
      BY <3>3, <3>4, <3>5
  <2> QED
    BY <1>1, <2>1, <2>2
<1> QED
  BY <1>3, <1>4 DEF Awaiting, Behind

\* Whoever had its turn keeps it while its counters stay.
LEMMA StaysUnschedulable ==
    ASSUME NEW r, ~Schedulable(r),
           r \in Running' => r \in Running,
           DOMAIN batch \subseteq DOMAIN (batch'),
           /\ request'[r].computed = request[r].computed
           /\ request'[r].total = request[r].total
           /\ request'[r].placeholders = request[r].placeholders
           /\ request'[r].decoding = request[r].decoding
    PROVE  ~Schedulable(r)'
  BY DEF Schedulable, Finishing, Wanted

LEMMA Lengths ==
    ASSUME NEW m \in Nat, NEW n \in Nat, m <= n
    PROVE  /\ BlocksFor(m) \in Nat /\ BlocksFor(n) \in Nat /\ BlocksFor(m) <= BlocksFor(n)
           /\ m \div BlockTokens \in Nat /\ m \div BlockTokens <= BlocksFor(m)
           /\ BlockTokens \in Nat \ {0}
<1>1. BlockTokens \in Nat \ {0}
  BY Sizes
<1> HIDE DEF BlockTokens
<1>2. /\ m + BlockTokens - 1 \in Nat /\ n + BlockTokens - 1 \in Nat
      /\ m <= m + BlockTokens - 1
      /\ m + BlockTokens - 1 <= n + BlockTokens - 1
  BY <1>1
<1> DEFINE p == m + BlockTokens - 1
           q == n + BlockTokens - 1
<1>3. p \in Nat /\ q \in Nat /\ m <= p /\ p <= q
  BY <1>2
<1>4. BlocksFor(m) = p \div BlockTokens /\ BlocksFor(n) = q \div BlockTokens
  BY DEF BlocksFor
<1> HIDE DEF p, q
<1>5. /\ p \div BlockTokens \in Nat /\ q \div BlockTokens \in Nat /\ m \div BlockTokens \in Nat
      /\ p \div BlockTokens <= q \div BlockTokens
      /\ m \div BlockTokens <= p \div BlockTokens
  BY <1>1, <1>3, DivMonotone, DivMod
<1> QED
  BY <1>1, <1>4, <1>5

-----------------------------------------------------------------------------
(* The first state, and the beginning of a step. *)

LEMMA KeepsTracked ==
    ASSUME TrackedInv, UNCHANGED <<runner, tracker>>
    PROVE  TrackedInv'
  BY DEF TrackedInv, Own, runner, tracker

LEMMA InitInv == Init => IInv
<1> SUFFICES ASSUME Init PROVE IInv
  OBVIOUS
<1>1. TypesInv
  <2>1. Idle \in Counters
    BY DEF Idle, Counters
  <2>2. /\ batch \in Partial(Req, Grant) /\ worker \in Partial(Req, States)
        /\ unsettled \in Partial(Req, Nat) /\ DOMAIN unsettled = {}
    BY NoPartial DEF Init
  <2>3. request \in [Req -> Counters]
    BY <2>1 DEF Init
  <2>4. Cardinality(Block) \in Nat
    BY FS_CardinalityType, ServingAssumption
  <2>5. /\ cachedAt \in [Block -> 0 .. Cardinality(Block)] /\ tokenBudget \in 0 .. Budget
    BY <2>4, ServingAssumption DEF Init
  <2> QED
    BY <2>2, <2>3, <2>5 DEF Init, TypesInv
<1>2. Running = {} /\ Range(waiting) = {} /\ Unfinished = {} /\ DOMAIN batch = {}
      /\ DOMAIN worker = {}
  BY NoPartial DEF Init, Running, Unfinished, Range
<1>3. QueuesInv
  BY <1>2 DEF Init, QueuesInv, IsInjective
<1>4. FlightInv
  BY <1>2 DEF Init, FlightInv, Depth
<1>5. RequestInv
  BY <1>2 DEF Init, RequestInv
<1>6. CountInv /\ BatchInv
  BY <1>2 DEF CountInv, BatchInv
<1>7. TablesInv
  <2>1. BlocksFor(MaxLen) \in Nat
    BY Lengths, ServingAssumption
  <2> QED
    BY <1>2, <2>1 DEF Init, TablesInv, Idle
<1>8. TrackedInv
  <2>1. NoBlocks \in Fillings(Block) /\ \A r \in Req : NoBlocks \in Fillings(Own(r))
    BY NoFillings
  <2>2. \A r \in Req : NoBlocks \in Placings(Own(r))
    BY NoPlacings
  <2> QED
    BY <2>1, <2>2 DEF Init, TrackerInit, Nothing, TrackedInv
<1> QED
  BY <1>1, <1>3, <1>4, <1>5, <1>6, <1>7, <1>8 DEF Init, IInv, RowsNeverDropped

LEMMA StartStepInv ==
    ASSUME IInv, StartStep
    PROVE  IInv'
<1>1. /\ phase = "idle" /\ Len(inflight) < Depth /\ phase' = "scheduling"
      /\ tokenBudget' = Budget
      /\ async' = async /\ request' = request /\ running' = running /\ waiting' = waiting
      /\ cachedAt' = cachedAt /\ batch' = batch /\ finished' = finished
      /\ preempted' = preempted /\ inflight' = inflight
      /\ UNCHANGED <<runner, tracker>>
  BY DEF StartStep, MayStartStep, queues
<1>2. /\ worker' = worker /\ unsettled' = unsettled /\ needed' = needed /\ full' = full
      /\ dropped' = dropped
  BY <1>1 DEF runner
<1>3. Running' = Running /\ Unfinished' = Unfinished /\ Depth' = Depth
  BY <1>1 DEF Running, Unfinished, Depth
<1>4. \A r : Awaiting(r)' = Awaiting(r) /\ Behind(r)' = Behind(r)
  BY <1>1, SameFlight
<1>5. TypesInv'
  BY <1>1, <1>2, ServingAssumption DEF IInv, TypesInv
<1>6. QueuesInv'
  <2>1. \A r : Schedulable(r)' = Schedulable(r)
    BY <1>1, <1>3 DEF Schedulable
  <2> QED
    BY <1>1, <1>3, <2>1 DEF IInv, QueuesInv
<1>7. FlightInv'
  BY <1>1, <1>2, <1>3 DEF IInv, FlightInv, InFlight
<1>8. RequestInv'
  BY <1>1, <1>3, <1>4 DEF IInv, RequestInv
<1>9. CountInv' /\ BatchInv' /\ TablesInv'
  BY <1>1, <1>2, <1>3, <1>4 DEF IInv, CountInv, BatchInv, TablesInv
<1>10. TrackedInv'
  BY <1>1, KeepsTracked DEF IInv
<1> QED
  BY <1>2, <1>5, <1>6, <1>7, <1>8, <1>9, <1>10 DEF IInv, RowsNeverDropped

-----------------------------------------------------------------------------
(* The running requests. *)

LEMMA RequestTypes ==
    ASSUME TypesInv, NEW r \in Req
    PROVE  /\ request[r].computed \in Nat /\ request[r].total \in Nat
           /\ request[r].placeholders \in Nat /\ request[r].decoding \in BOOLEAN
           /\ request[r].table \in Seq(Block) /\ Len(request[r].table) \in Nat
           /\ request[r] \in Counters
<1>1. request[r] \in Counters
  BY DEF TypesInv
<1> QED
  BY <1>1 DEF Counters

LEMMA RunningTypes ==
    ASSUME TypesInv
    PROVE  /\ Running \subseteq Req /\ Range(waiting) \subseteq Req /\ Unfinished \subseteq Req
           /\ DOMAIN running = 1 .. Len(running) /\ Len(running) \in Nat
           /\ \A i \in DOMAIN running : running[i] \in Running
<1>1. running \in Seq(Req) /\ waiting \in Seq(Req)
  BY DEF TypesInv
<1> QED
  BY <1>1, SeqItems DEF Running, Unfinished

\* What schedule() grants a running request.
LEMMA GrantBounds ==
    ASSUME TypesInv, FlightInv, RequestInv, phase = "scheduling",
           NEW r \in Running, Schedulable(r), tokenBudget > 0,
           NEW n, n = Granted(r), NEW q, q = request[r], NEW d, d = Drafts(q, n)
    PROVE  /\ n \in Nat \ {0} /\ n <= tokenBudget /\ q.computed + n <= MaxLen
           /\ d \in Nat /\ d <= Lookahead /\ d <= n
           /\ q.computed + n <= q.total + q.placeholders + d
           /\ d > 0 => q.total + q.placeholders <= q.computed + n
<1>1. r \in Req /\ r \in Unfinished
  BY RunningTypes DEF Unfinished
<1>2. /\ q.computed \in Nat /\ q.total \in Nat
      /\ q.placeholders \in Nat /\ q.decoding \in BOOLEAN
  BY <1>1, RequestTypes
<1>3. tokenBudget \in Nat /\ Lookahead \in Nat /\ MaxLen \in Nat
  BY ServingAssumption DEF TypesInv
<1>4. q.computed <= q.total + q.placeholders
  <2>1. /\ q.placeholders = (IF async THEN Awaiting(r) ELSE 0)
        /\ q.computed <= q.total + Awaiting(r)
    BY <1>1 DEF RequestInv
  <2>2. Awaiting(r) \in Nat /\ (~async => Awaiting(r) = 0)
    BY <1>3, FlightSums
  <2> QED
    BY <1>2, <2>1, <2>2
<1> DEFINE spec == IF q.decoding THEN Lookahead ELSE 0
<1>5. /\ Wanted(q) > 0 /\ Wanted(q) \in Int
      /\ Wanted(q) <= q.total + spec + q.placeholders - q.computed
      /\ Wanted(q) <= MaxLen - q.computed - 1
  <2>1. Wanted(q) > 0
    BY DEF Schedulable
  <2> QED
    BY <1>2, <1>3, <2>1 DEF Wanted, Lesser
<1>6. n \in Nat \ {0} /\ n <= tokenBudget /\ n <= Wanted(q)
  BY <1>3, <1>5 DEF Granted, Lesser
<1> HIDE DEF spec
<1>7. q.computed + n <= MaxLen
  BY <1>2, <1>3, <1>5, <1>6
<1>8. CASE q.decoding
  <2>1. d = Monus(n + q.computed, q.total + q.placeholders)
    BY <1>8 DEF Drafts
  <2>2. n <= q.total + Lookahead + q.placeholders - q.computed
    BY <1>2, <1>3, <1>5, <1>6, <1>8 DEF spec
  <2> QED
    BY <1>2, <1>3, <1>4, <1>6, <1>7, <2>1, <2>2 DEF Monus
<1>9. CASE ~q.decoding
  <2>1. d = 0
    BY <1>9 DEF Drafts
  <2>2. n <= q.total + q.placeholders - q.computed
    BY <1>2, <1>3, <1>5, <1>6, <1>9 DEF spec
  <2> QED
    BY <1>2, <1>3, <1>6, <1>7, <2>1, <2>2
<1> QED
  BY <1>8, <1>9

\* allocate_slots: a table grows to its slots and not beyond the longest.
LEMMA TableGrows ==
    ASSUME TypesInv, NEW table \in Seq(Block), NEW slots \in Nat, slots <= MaxLen,
           Len(table) <= BlocksFor(MaxLen), NEW new \in Extensions(table, slots)
    PROVE  /\ table \o new \in Seq(Block) /\ Len(table \o new) <= BlocksFor(MaxLen)
           /\ Range(table) \subseteq Range(table \o new)
           /\ Range(new) \subseteq Block
<1>1. MaxLen \in Nat
  BY ServingAssumption
<1> DEFINE k == Monus(BlocksFor(slots), Len(table))
<1>2. new \in [1 .. k -> FreeBlocks \ Range(table)]
  BY DEF Extensions
<1>3. k \in Nat /\ Len(table) \in Nat /\ Len(table) + k <= BlocksFor(MaxLen)
  <2>1. BlocksFor(slots) \in Nat /\ BlocksFor(MaxLen) \in Nat /\ BlocksFor(slots) <= BlocksFor(MaxLen)
    BY <1>1, Lengths
  <2> QED
    BY <2>1 DEF Monus
<1> HIDE DEF k
<1>4. new \in Seq(Block) /\ Len(new) = k
  BY <1>2, <1>3 DEF FreeBlocks
<1>5. /\ table \o new \in Seq(Block) /\ Len(table \o new) = Len(table) + Len(new)
      /\ Range(table \o new) = Range(table) \cup Range(new)
  BY <1>4, Concatenation
<1>6. Range(new) \subseteq Block
  BY <1>4, SeqItems
<1> QED
  BY <1>3, <1>4, <1>5, <1>6

\* Blocks are cached for positions a table can have.
LEMMA CachedTypes ==
    ASSUME TypesInv, NEW table \in Seq(Block), Len(table) <= BlocksFor(MaxLen), NEW new,
           NEW tokens \in Nat
    PROVE  Cached(table, new, tokens) \in [Block -> 0 .. Cardinality(Block)]
<1>1. Cardinality(Block) \in Nat /\ BlocksFor(MaxLen) <= Cardinality(Block)
  BY FS_CardinalityType, ServingAssumption DEF BlocksFor, BlockTokens
<1>2. BlocksFor(MaxLen) \in Nat
  BY Lengths, ServingAssumption
<1>3. DOMAIN table \subseteq 0 .. Cardinality(Block) /\ 1 .. Len(table) = DOMAIN table
  BY <1>1, <1>2
<1> SUFFICES ASSUME NEW b \in Block
             PROVE  Cached(table, new, tokens)[b] \in 0 .. Cardinality(Block)
  BY DEF Cached
<1>4. CASE \E i \in 1 .. Lesser(tokens \div BlockTokens, Len(table)) : table[i] = b
  <2>1. \E i \in DOMAIN table : table[i] = b
    <3>1. PICK i \in 1 .. Lesser(tokens \div BlockTokens, Len(table)) : table[i] = b
      BY <1>4
    <3>2. i \in 1 .. Len(table)
      <4>1. tokens \div BlockTokens \in Nat /\ Len(table) \in Nat
        BY Lengths
      <4> HIDE DEF BlockTokens
      <4> QED
        BY <4>1 DEF Lesser
    <3> QED
      BY <1>3, <3>1, <3>2
  <2>2. Cached(table, new, tokens)[b] = CHOOSE i \in DOMAIN table : table[i] = b
    BY <1>4 DEF Cached
  <2>3. (CHOOSE i \in DOMAIN table : table[i] = b) \in DOMAIN table
    BY <2>1
  <2> QED
    BY <1>3, <2>2, <2>3
<1>5. CASE ~ \E i \in 1 .. Lesser(tokens \div BlockTokens, Len(table)) : table[i] = b
  <2>1. Cached(table, new, tokens)[b] = IF b \in Range(new) THEN 0 ELSE cachedAt[b]
    BY <1>5 DEF Cached
  <2>2. cachedAt[b] \in 0 .. Cardinality(Block)
    BY DEF TypesInv
  <2> QED
    BY <1>1, <2>1, <2>2
<1> QED
  BY <1>4, <1>5

LEMMA ScheduleRunningInv ==
    ASSUME IInv, ScheduleRunning
    PROVE  IInv'
<1>1. PICK r \in Running :
        /\ Turn(r)
        /\ \E new \in Extensions(request[r].table, RunningSlots(r, Granted(r))) :
              /\ request' = [request EXCEPT ![r].table = @ \o new]
              /\ cachedAt' = Cached(request[r].table \o new, new,
                                    Lesser(request[r].computed + Granted(r), request[r].total))
        /\ batch' = With(batch, r, [start |-> request[r].computed, sched |-> Granted(r),
                                    drafts |-> Drafts(request[r], Granted(r))])
        /\ tokenBudget' = tokenBudget - Granted(r)
  BY DEF ScheduleRunning
<1> DEFINE q == request[r]
           n == Granted(r)
           d == Drafts(q, n)
           e == [start |-> q.computed, sched |-> n, drafts |-> d]
<1>2. PICK new \in Extensions(q.table, RunningSlots(r, n)) :
        /\ request' = [request EXCEPT ![r].table = @ \o new]
        /\ cachedAt' = Cached(q.table \o new, new, Lesser(q.computed + n, q.total))
  BY <1>1
<1>3. /\ phase = "scheduling" /\ tokenBudget > 0
      /\ async' = async /\ running' = running /\ waiting' = waiting
      /\ phase' = phase /\ finished' = finished
      /\ preempted' = preempted /\ inflight' = inflight
      /\ UNCHANGED <<runner, tracker>>
  BY DEF ScheduleRunning, queues
<1>4. /\ worker' = worker /\ unsettled' = unsettled /\ needed' = needed /\ full' = full
      /\ dropped' = dropped
  BY <1>3 DEF runner
<1>5. Running' = Running /\ Unfinished' = Unfinished /\ Depth' = Depth
  BY <1>3 DEF Running, Unfinished, Depth
<1>6. \A x : Awaiting(x)' = Awaiting(x) /\ Behind(x)' = Behind(x)
  BY <1>3, SameFlight
<1>7. TypesInv /\ QueuesInv /\ FlightInv /\ RequestInv
  BY DEF IInv
<1>8. r \in Req /\ r \in Unfinished /\ Schedulable(r) /\ r \notin DOMAIN batch
  BY <1>1, <1>7, RunningTypes DEF Turn, Schedulable, Unfinished
<1>9. /\ q.computed \in Nat /\ q.total \in Nat /\ q.placeholders \in Nat
      /\ q.decoding \in BOOLEAN /\ q.table \in Seq(Block) /\ q \in Counters
  BY <1>7, <1>8, RequestTypes
<1>10. /\ n \in Nat \ {0} /\ n <= tokenBudget /\ q.computed + n <= MaxLen
       /\ d \in Nat /\ d <= Lookahead /\ d <= n
       /\ q.computed + n <= q.total + q.placeholders + d
       /\ d > 0 => q.total + q.placeholders <= q.computed + n
  BY <1>3, <1>7, <1>8, GrantBounds
<1>11. /\ q.table \o new \in Seq(Block) /\ Len(q.table \o new) <= BlocksFor(MaxLen)
       /\ Range(q.table) \subseteq Range(q.table \o new)
  <2>1. RunningSlots(r, n) \in Nat /\ RunningSlots(r, n) <= MaxLen
    BY <1>9, <1>10, ServingAssumption DEF RunningSlots, Lesser
  <2>2. Len(q.table) <= BlocksFor(MaxLen)
    BY <1>8 DEF IInv, TablesInv
  <2> HIDE DEF n, q
  <2> QED
    BY <1>7, <1>9, <2>1, <2>2, TableGrows
<1>12. /\ request' = [request EXCEPT ![r].table = q.table \o new]
       /\ batch' = With(batch, r, e) /\ e \in Grant
  BY <1>1, <1>2, <1>9, <1>10 DEF Grant
<1>13. /\ e.start = q.computed /\ e.sched = n /\ e.drafts = d
  OBVIOUS
<1> HIDE DEF e, d, n
<1>14. /\ batch' \in Partial(Req, Grant) /\ DOMAIN (batch') = DOMAIN batch \cup {r}
       /\ batch'[r] = e /\ \A x \in DOMAIN batch : x # r => batch'[x] = batch[x]
  <2>1. batch \in Partial(Req, Grant)
    BY <1>7 DEF TypesInv
  <2>2. r \in Req /\ e \in Grant
    BY <1>8, <1>12
  <2> DEFINE b == With(batch, r, e)
  <2>3. b \in Partial(Req, Grant)
    BY <2>1, <2>2, WithPartial
  <2>4. /\ DOMAIN b = DOMAIN batch \cup {r} /\ b[r] = e
        /\ \A x \in DOMAIN batch : x # r => b[x] = batch[x]
    BY DEF With
  <2> QED
    BY <1>12, <2>3, <2>4
<1>15. /\ request' \in [Req -> Counters] /\ request'[r].table = q.table \o new
       /\ \A x \in Req : x # r => request'[x] = request[x]
       /\ \A x \in Req : /\ request'[x].computed = request[x].computed
                         /\ request'[x].total = request[x].total
                         /\ request'[x].placeholders = request[x].placeholders
                         /\ request'[x].decoding = request[x].decoding
  <2>1. request \in [Req -> Counters]
    BY <1>7 DEF TypesInv
  <2> QED
    BY <1>8, <1>9, <1>11, <1>12, <2>1 DEF Counters
<1>16. TypesInv'
  <2>1. cachedAt' \in [Block -> 0 .. Cardinality(Block)]
    <3>1. Lesser(q.computed + n, q.total) \in Nat
      BY <1>9, <1>10 DEF Lesser
    <3> HIDE DEF q
    <3> QED
      BY <1>2, <1>7, <1>11, <3>1, CachedTypes DEF n
  <2>2. tokenBudget' \in 0 .. Budget
    BY <1>1, <1>7, <1>10, ServingAssumption DEF TypesInv, n
  <2> QED
    BY <1>3, <1>4, <1>7, <1>14, <1>15, <2>1, <2>2 DEF TypesInv
<1>17. QueuesInv'
  <2>1. PICK k \in DOMAIN running :
          running[k] = r /\ \A j \in 1 .. k - 1 : ~Schedulable(running[j])
    BY <1>1 DEF Turn
  <2>2. ASSUME NEW i \in DOMAIN running, NEW j \in DOMAIN running, i < j,
               running[j] \in DOMAIN (batch')
        PROVE  ~Schedulable(running[i])'
    <3>1. ~Schedulable(running[i])
      <4>1. CASE running[j] \in DOMAIN batch
        BY <1>7, <2>2, <4>1 DEF QueuesInv
      <4>2. CASE running[j] = r
        <5>1. j = k
          BY <1>7, <2>1, <4>2 DEF QueuesInv, IsInjective
        <5>2. i \in 1 .. k - 1
          BY <1>7, <2>2, <5>1, RunningTypes
        <5> QED
          BY <2>1, <5>2
      <4> QED
        BY <1>14, <2>2, <4>1, <4>2
    <3>2. PICK x \in Req : x = running[i]
      BY <1>7, RunningTypes
    <3>3. ~Schedulable(x)'
      BY <1>5, <1>14, <1>15, <3>1, <3>2, StaysUnschedulable
    <3> QED
      BY <3>2, <3>3, <1>3
  <2> QED
    BY <1>3, <1>5, <1>7, <1>14, <2>2 DEF QueuesInv
<1>18. FlightInv'
  BY <1>3, <1>4, <1>5, <1>7, <1>14 DEF FlightInv, InFlight
<1>19. RequestInv'
  BY <1>3, <1>5, <1>6, <1>7, <1>8, <1>15, RunningTypes DEF RequestInv
<1>20. CountInv'
  BY <1>4, <1>5, <1>6, <1>7, <1>15, RunningTypes DEF IInv, CountInv
<1>21. BatchInv'
  <2> SUFFICES ASSUME NEW x \in DOMAIN (batch')
               PROVE  /\ batch'[x].start = request'[x].computed
                      /\ batch'[x].drafts <= Lookahead /\ batch'[x].drafts <= batch'[x].sched
                      /\ batch'[x].start + batch'[x].sched <= MaxLen
                      /\ batch'[x].start + batch'[x].sched
                            <= request'[x].total + request'[x].placeholders + batch'[x].drafts
                      /\ batch'[x].drafts > 0 => request'[x].total + request'[x].placeholders
                                                    <= batch'[x].start + batch'[x].sched
    BY DEF BatchInv
  <2>1. CASE x = r
    BY <1>8, <1>9, <1>10, <1>13, <1>14, <1>15, <2>1
  <2>2. CASE x # r
    <3>1. x \in DOMAIN batch /\ x \in Req /\ batch'[x] = batch[x] /\ request'[x] = request[x]
      <4>1. x \in DOMAIN batch /\ x \in Running
        BY <1>7, <1>14, <2>2 DEF QueuesInv
      <4> QED
        BY <1>7, <1>14, <1>15, <2>2, <4>1, RunningTypes
    <3> QED
      BY <3>1 DEF IInv, BatchInv
  <2> QED
    BY <2>1, <2>2
<1>22. TablesInv'
  <2>1. /\ \A x \in Running \cap DOMAIN worker :
              Range(worker[x].ids) \subseteq Range(request[x].table)
        /\ \A x \in Req : Len(request[x].table) <= BlocksFor(MaxLen)
    BY DEF IInv, TablesInv
  <2>2. \A x \in Req : /\ Range(request[x].table) \subseteq Range(request'[x].table)
                       /\ Len(request'[x].table) <= BlocksFor(MaxLen)
    BY <1>11, <1>15, <2>1
  <2>3. Running \subseteq Req
    BY <1>7, RunningTypes
  <2> QED
    BY <1>4, <1>5, <2>1, <2>2, <2>3 DEF TablesInv, BlocksFor
<1>23. TrackedInv'
  BY <1>3, KeepsTracked DEF IInv
<1> QED
  BY <1>4, <1>16, <1>17, <1>18, <1>19, <1>20, <1>21, <1>22, <1>23 DEF IInv, RowsNeverDropped

\* The request that gives way has been granted nothing in this step.
LEMMA LastNotGranted ==
    ASSUME TypesInv, QueuesInv, NEW r, Turn(r)
    PROVE  running # << >> /\ Last(running) \notin DOMAIN batch
<1>1. PICK i \in DOMAIN running : running[i] = r /\ Schedulable(r)
  BY DEF Turn
<1>2. running # << >> /\ Len(running) \in DOMAIN running /\ i <= Len(running)
  BY <1>1, RunningTypes
<1>3. Last(running) = running[Len(running)]
  BY DEF Last
<1>4. CASE i = Len(running)
  BY <1>1, <1>2, <1>3, <1>4 DEF Schedulable
<1>5. CASE i < Len(running)
  BY <1>1, <1>2, <1>3, <1>5 DEF QueuesInv
<1> QED
  BY <1>2, <1>4, <1>5, RunningTypes

LEMMA PreemptInv ==
    ASSUME IInv, Preempt
    PROVE  IInv'
<1> DEFINE v == Last(running)
<1>1. /\ \E r \in Running : Turn(r)
      /\ request' = [request EXCEPT ![v].computed = 0, ![v].decoding = FALSE,
                                    ![v].table = << >>]
      /\ preempted' = preempted \cup {v} /\ waiting' = << v >> \o waiting
      /\ running' = Front(running)
  BY DEF Preempt
<1>2. /\ phase = "scheduling" /\ async' = async /\ cachedAt' = cachedAt /\ batch' = batch
      /\ tokenBudget' = tokenBudget /\ phase' = phase /\ finished' = finished
      /\ inflight' = inflight /\ UNCHANGED <<runner, tracker>>
  BY DEF Preempt
<1>3. /\ worker' = worker /\ unsettled' = unsettled /\ needed' = needed /\ full' = full
      /\ dropped' = dropped
  BY <1>2 DEF runner
<1>4. TypesInv /\ QueuesInv /\ FlightInv /\ RequestInv
  BY DEF IInv
<1>5. running # << >> /\ v \notin DOMAIN batch
  BY <1>1, <1>4, LastNotGranted
<1>6. /\ running' \in Seq(Req) /\ v \in Req /\ Len(running') = Len(running) - 1
      /\ \A i \in 1 .. Len(running) - 1 : running'[i] = running[i]
      /\ Running = Running' \cup {v} /\ IsInjective(running') /\ v \notin Running'
  <2>1. running \in Seq(Req) /\ IsInjective(running)
    BY <1>4 DEF TypesInv, QueuesInv
  <2> HIDE DEF v
  <2>2. /\ Front(running) \in Seq(Req) /\ Len(Front(running)) = Len(running) - 1
        /\ \A i \in 1 .. Len(running) - 1 : Front(running)[i] = running[i]
        /\ v \in Req /\ Range(running) = Range(Front(running)) \cup {v}
        /\ IsInjective(Front(running)) /\ v \notin Range(Front(running))
    BY <1>5, <2>1, FrontAndLast DEF v
  <2> QED
    BY <1>1, <2>2 DEF Running
<1> HIDE DEF v
<1>7. /\ waiting' \in Seq(Req) /\ Range(waiting)' = Range(waiting) \cup {v}
      /\ IsInjective(waiting')
  <2>1. waiting \in Seq(Req) /\ IsInjective(waiting) /\ v \notin Range(waiting)
    BY <1>4, <1>6 DEF TypesInv, QueuesInv
  <2> DEFINE one == << v >>
             w == one \o waiting
  <2>2. one \in Seq(Req) /\ Range(one) = {v} /\ IsInjective(one)
    BY <1>6 DEF Range, IsInjective
  <2>3. Range(one) \cap Range(waiting) = {}
    BY <2>1, <2>2
  <2>4. w \in Seq(Req) /\ Range(w) = Range(one) \cup Range(waiting) /\ IsInjective(w)
    <3> HIDE DEF one
    <3> QED
      BY <2>1, <2>2, <2>3, Concatenation
  <2>5. waiting' = w
    BY <1>1
  <2> HIDE DEF w
  <2> QED
    BY <2>2, <2>4, <2>5
<1>8. Unfinished' = Unfinished /\ Depth' = Depth
  BY <1>2, <1>6, <1>7 DEF Unfinished, Depth
<1>9. \A x : Awaiting(x)' = Awaiting(x) /\ Behind(x)' = Behind(x)
  BY <1>2, SameFlight
<1>10. /\ request' \in [Req -> Counters]
       /\ \A x \in Req : x # v => request'[x] = request[x]
       /\ request'[v].computed = 0 /\ request'[v].table = << >>
       /\ request'[v].total = request[v].total
       /\ request'[v].placeholders = request[v].placeholders
  <2>1. request \in [Req -> Counters] /\ request[v] \in Counters
    BY <1>4, <1>6 DEF TypesInv
  <2> DEFINE w == [request[v] EXCEPT !.computed = 0, !.decoding = FALSE, !.table = << >>]
  <2>2. /\ w \in Counters /\ w.computed = 0 /\ w.table = << >>
        /\ w.total = request[v].total /\ w.placeholders = request[v].placeholders
    <3>1. << >> \in Seq(Block)
      OBVIOUS
    <3> QED
      BY <2>1, <3>1 DEF Counters
  <2>3. request' = [request EXCEPT ![v] = w]
    BY <1>1, <1>6, <2>1
  <2> HIDE DEF w
  <2> QED
    BY <1>6, <2>1, <2>2, <2>3
<1>11. TypesInv'
  BY <1>1, <1>2, <1>3, <1>4, <1>6, <1>7, <1>10 DEF TypesInv
<1>12. QueuesInv'
  <2>1. ASSUME NEW i \in DOMAIN (running'), NEW j \in DOMAIN (running'), i < j,
               running'[j] \in DOMAIN batch
        PROVE  ~Schedulable(running[i])'
    <3>1. /\ i \in DOMAIN running /\ j \in DOMAIN running
          /\ running'[i] = running[i] /\ running'[j] = running[j] /\ running'[i] \in Running'
      <4>1. DOMAIN (running') = 1 .. Len(running) - 1 /\ DOMAIN running = 1 .. Len(running)
        BY <1>4, <1>6, RunningTypes
      <4>2. Len(running) \in Nat
        BY <1>4, RunningTypes
      <4> QED
        BY <1>6, <4>1, <4>2, SeqItems DEF Running
    <3>2. ~Schedulable(running[i])
      BY <1>4, <2>1, <3>1 DEF QueuesInv
    <3>3. PICK x \in Req : x = running[i] /\ x # v
      BY <1>4, <1>6, <3>1, RunningTypes
    <3>4. ~Schedulable(x)'
      BY <1>2, <1>6, <1>10, <3>2, <3>3, StaysUnschedulable
    <3> QED
      BY <3>1, <3>3, <3>4
  <2> QED
    BY <1>1, <1>2, <1>4, <1>5, <1>6, <1>7, <1>8, <2>1 DEF QueuesInv
<1>13. FlightInv'
  BY <1>1, <1>2, <1>3, <1>4, <1>6, <1>7, <1>8 DEF FlightInv, InFlight
<1>14. RequestInv'
  <2>1. ASSUME NEW x \in Unfinished
        PROVE  /\ request'[x].total = request[x].total
               /\ request'[x].placeholders = request[x].placeholders
               /\ request'[x].computed <= request[x].total + Awaiting(x)
               /\ request'[x].computed <= MaxLen
    <3>1. x \in Req /\ Awaiting(x) \in Nat /\ request[x].total \in Nat /\ MaxLen \in Nat
      BY <1>4, RunningTypes, FlightSums, RequestTypes, ServingAssumption
    <3> QED
      BY <1>4, <1>10, <3>1 DEF RequestInv
  <2>2. ASSUME NEW x \in Req \ Unfinished PROVE request'[x] = Idle
    <3>1. x # v
      BY <1>6 DEF Unfinished
    <3> QED
      BY <1>4, <1>10, <3>1 DEF RequestInv
  <2>3. ASSUME NEW x \in Range(waiting)' PROVE request'[x].computed = 0
    <3>1. CASE x = v
      BY <1>10, <3>1
    <3>2. CASE x # v
      <4>1. x \in Range(waiting) /\ x \in Req
        BY <1>4, <1>7, <3>2, RunningTypes
      <4> QED
        BY <1>4, <1>10, <3>2, <4>1 DEF RequestInv
    <3> QED
      BY <3>1, <3>2
  <2>4. ASSUME NEW x \in Unfinished
        PROVE  /\ request[x].total \in 1 .. Limit
               /\ request[x].placeholders = (IF async THEN Awaiting(x) ELSE 0)
    BY <1>4 DEF RequestInv
  <2> QED
    BY <1>2, <1>8, <1>9, <2>1, <2>2, <2>3, <2>4 DEF RequestInv, Limit
<1>15. CountInv'
  BY <1>3, <1>4, <1>6, <1>9, <1>10, RunningTypes DEF IInv, CountInv
<1>16. BatchInv'
  <2>1. \A x \in DOMAIN batch : x \in Req /\ x # v
    BY <1>4, <1>5, RunningTypes DEF QueuesInv
  <2> QED
    BY <1>2, <1>10, <2>1 DEF IInv, BatchInv
<1>17. TablesInv'
  <2>1. BlocksFor(MaxLen) \in Nat /\ BlocksFor(MaxLen)' = BlocksFor(MaxLen)
    BY Lengths, ServingAssumption DEF BlocksFor
  <2>2. \A x \in Req : Len(request'[x].table) <= BlocksFor(MaxLen)
    BY <1>6, <1>10, <2>1 DEF IInv, TablesInv
  <2>3. \A x \in Running' : x \in Running /\ x \in Req /\ x # v
    BY <1>4, <1>6, RunningTypes
  <2> QED
    BY <1>3, <1>10, <2>1, <2>2, <2>3 DEF IInv, TablesInv
<1>18. TrackedInv'
  BY <1>2, KeepsTracked DEF IInv
<1> QED
  BY <1>3, <1>11, <1>12, <1>13, <1>14, <1>15, <1>16, <1>17, <1>18 DEF IInv, RowsNeverDropped

-----------------------------------------------------------------------------
(* New and resumed requests. *)

LEMMA LimitType ==
    Limit \in Nat /\ Limit <= MaxLen /\ Limit <= MaxTokens /\ MaxLen \in Nat /\ MaxTokens \in Nat
  BY ServingAssumption DEF Limit, Lesser

\* A prefix hit leaves a token to compute and fits the longest table.
LEMMA HitTypes ==
    ASSUME NEW total \in 1 .. Limit, NEW hit \in Hits(total)
    PROVE  /\ hit \in Seq(Block) /\ Len(hit) <= BlocksFor(MaxLen)
           /\ Len(hit) * BlockTokens \in Nat /\ Len(hit) * BlockTokens <= total - 1
<1> DEFINE t == total - 1
           w == t \div BlockTokens
<1>1. t \in Nat /\ t <= MaxLen /\ total \in Nat
  BY LimitType
<1> HIDE DEF t
<1>2. w \in Nat /\ w <= BlocksFor(t) /\ BlocksFor(t) <= BlocksFor(MaxLen)
      /\ BlocksFor(t) \in Nat /\ BlocksFor(MaxLen) \in Nat /\ BlockTokens \in Nat \ {0}
  BY <1>1, Lengths, LimitType
<1>3. Hittable(total) \in Nat /\ Hittable(total) <= w
  <2>1. Hittable(total) = Monus(w, IF UseEagle THEN 1 ELSE 0)
    BY DEF Hittable, t
  <2> HIDE DEF w
  <2> QED
    BY <1>2, <2>1 DEF Monus
<1>4. PICK m \in 0 .. Hittable(total) : hit \in [1 .. m -> {b \in Block : cachedAt[b] > 0}]
  BY DEF Hits
<1>5. m \in Nat /\ m <= w
  <2> HIDE DEF w
  <2> QED
    BY <1>2, <1>3
<1>6. hit \in Seq(Block) /\ Len(hit) = m
  BY <1>4, <1>5
<1>7. BlockTokens * m <= BlockTokens * w /\ BlockTokens * w <= t /\ BlockTokens * m \in Nat
  <2>1. t = BlockTokens * w + (t % BlockTokens) /\ t % BlockTokens \in Nat
    BY <1>1, <1>2, DivMod
  <2>2. BlockTokens * w \in Nat /\ BlockTokens * m \in Nat
    <3> HIDE DEF w, BlockTokens
    <3> QED
      BY <1>2, <1>5
  <2>3. BlockTokens * m <= BlockTokens * w
    <3> HIDE DEF w, BlockTokens
    <3> QED
      BY <1>2, <1>5, TimesMonotone
  <2> QED
    BY <1>1, <2>1, <2>2, <2>3
<1>8. m * BlockTokens = BlockTokens * m
  <2> HIDE DEF BlockTokens
  <2> QED
    BY <1>2, <1>5
<1>9. m <= BlocksFor(MaxLen)
  <2> HIDE DEF w
  <2> QED
    BY <1>2, <1>5
<1>10. BlockTokens * m <= t
  <2> HIDE DEF w, BlockTokens
  <2> QED
    BY <1>1, <1>2, <1>5, <1>7
<1> QED
  BY <1>6, <1>7, <1>8, <1>9, <1>10 DEF t

LEMMA PaddedSums ==
    ASSUME NEW start \in Nat, NEW drafts \in Nat, NEW limit \in Nat,
           start + 1 + drafts <= limit
    PROVE  /\ start + (1 + drafts) <= limit
           /\ start + (1 + drafts) <= (start + 1) + drafts
           /\ start + 1 <= start + (1 + drafts)
  OBVIOUS

\* What schedule() grants a request it admits.
LEMMA AdmitBounds ==
    ASSUME TypesInv, tokenBudget > 0, NEW total \in 1 .. Limit, NEW hit \in Hits(total),
           MayStart(total, hit),
           NEW start, start = Len(hit) * BlockTokens,
           NEW n, n = FirstTokens(total, start),
           NEW d, d = IF Padded(total - start) THEN Lookahead ELSE 0
    PROVE  /\ start \in Nat /\ start <= total - 1 /\ start <= MaxLen
           /\ n \in Nat \ {0} /\ n <= tokenBudget /\ start + n <= MaxLen
           /\ d \in Nat /\ d <= Lookahead /\ d <= n
           /\ start + n <= total + d
           /\ d > 0 => total <= start + n
           /\ FirstSlots(total, start) \in Nat /\ FirstSlots(total, start) <= MaxLen
<1>1. /\ tokenBudget \in Nat \ {0} /\ Lookahead \in Nat \ {0} /\ MaxLen \in Nat
      /\ total \in Nat /\ total <= MaxLen
  BY ServingAssumption, LimitType DEF TypesInv
<1>2. start \in Nat /\ start <= total - 1
  BY HitTypes
<1>3. /\ n \in Nat \ {0} /\ n <= tokenBudget /\ start + n <= MaxLen
      /\ d \in Nat /\ d <= Lookahead /\ d <= n
      /\ start + n <= total + d
      /\ d > 0 => total <= start + n
  <2>1. CASE Padded(total - start)
    <3>1. total - start = 1
      BY <2>1 DEF Padded
    <3>2. 1 + Lookahead <= tokenBudget /\ start + 1 + Lookahead <= MaxLen
      BY <2>1 DEF MayStart
    <3>3. n = 1 + Lookahead /\ d = Lookahead
      BY <2>1 DEF FirstTokens
    <3>4. total = start + 1
      BY <1>1, <1>2, <3>1
    <3>5. /\ n \in Nat \ {0} /\ n <= tokenBudget /\ d \in Nat /\ d <= Lookahead /\ d <= n
      BY <1>1, <3>2, <3>3
    <3>6. start + n <= MaxLen /\ start + n <= total + d /\ total <= start + n
      BY <1>1, <1>2, <3>2, <3>3, <3>4, PaddedSums
    <3> QED
      BY <3>5, <3>6
  <2>2. CASE ~Padded(total - start)
    <3>1. n = Lesser(total - start, tokenBudget) /\ d = 0
      BY <2>2 DEF FirstTokens
    <3> QED
      BY <1>1, <1>2, <3>1 DEF Lesser
  <2> QED
    BY <2>1, <2>2
<1>4. FirstSlots(total, start) \in Nat /\ FirstSlots(total, start) <= MaxLen
  BY <1>1, <1>2, <1>3 DEF FirstSlots, Lesser
<1> QED
  BY <1>1, <1>2, <1>3, <1>4

LEMMA AdmitInv ==
    ASSUME IInv, AdmissionOpen, NEW r \in Req,
           r \notin Running, r \notin InFlight, r \notin DOMAIN worker, r \notin finished,
           request[r].placeholders = 0,
           NEW total \in 1 .. Limit, NEW hit \in Hits(total), Admit(r, total, hit),
           waiting' \in Seq(Req), IsInjective(waiting'),
           Range(waiting)' = Range(waiting) \ {r}
    PROVE  IInv'
<1> DEFINE start == Len(hit) * BlockTokens
           n     == FirstTokens(total, start)
           d     == IF Padded(total - start) THEN Lookahead ELSE 0
           e     == [start |-> start, sched |-> n, drafts |-> d]
<1>1. PICK new \in Extensions(hit, FirstSlots(total, start)) :
        /\ request' = [request EXCEPT ![r].computed = start, ![r].total = total,
                                      ![r].table = hit \o new]
        /\ cachedAt' = Cached(hit \o new, new, Lesser(start + n, total))
  BY DEF Admit
<1>2. /\ MayStart(total, hit) /\ batch' = With(batch, r, e) /\ tokenBudget' = tokenBudget - n
      /\ running' = Append(running, r)
  BY DEF Admit
<1>3. /\ async' = async /\ phase' = phase /\ finished' = finished
      /\ preempted' = preempted /\ inflight' = inflight
      /\ UNCHANGED <<runner, tracker>>
  BY DEF Admit
<1>4. /\ worker' = worker /\ unsettled' = unsettled /\ needed' = needed /\ full' = full
      /\ dropped' = dropped
  BY <1>3 DEF runner
<1>5. /\ phase = "scheduling" /\ preempted = {} /\ tokenBudget > 0
      /\ \A x \in Running : ~Schedulable(x)
  BY DEF AdmissionOpen, AllHadTheirTurn
<1>6. TypesInv /\ QueuesInv /\ FlightInv /\ RequestInv
  BY DEF IInv
<1>7. /\ start \in Nat /\ start <= total - 1 /\ start <= MaxLen
      /\ n \in Nat \ {0} /\ n <= tokenBudget /\ start + n <= MaxLen
      /\ d \in Nat /\ d <= Lookahead /\ d <= n
      /\ start + n <= total + d
      /\ d > 0 => total <= start + n
      /\ FirstSlots(total, start) \in Nat /\ FirstSlots(total, start) <= MaxLen
  BY <1>2, <1>5, <1>6, AdmitBounds
<1>8. /\ e \in Grant /\ e.start = start /\ e.sched = n /\ e.drafts = d
  BY <1>7 DEF Grant
<1> HIDE DEF e, d, n, start
<1>9. /\ hit \in Seq(Block) /\ hit \o new \in Seq(Block)
      /\ Len(hit \o new) <= BlocksFor(MaxLen)
  BY <1>1, <1>6, <1>7, HitTypes, TableGrows
<1>10. /\ running' \in Seq(Req) /\ IsInjective(running') /\ Running' = Running \cup {r}
       /\ DOMAIN (running') = 1 .. Len(running) + 1
       /\ \A i \in 1 .. Len(running) : running'[i] = running[i]
  <2>1. running \in Seq(Req) /\ IsInjective(running)
    BY <1>6 DEF TypesInv, QueuesInv
  <2> DEFINE s == Append(running, r)
  <2>2. /\ s \in Seq(Req) /\ Range(s) = Range(running) \cup {r}
        /\ r \notin Range(running) => IsInjective(s)
    BY <2>1, AppendItem
  <2>3. DOMAIN s = 1 .. Len(running) + 1 /\ \A i \in 1 .. Len(running) : s[i] = running[i]
    BY <2>1
  <2>4. running' = s
    BY <1>2
  <2> HIDE DEF s
  <2> QED
    BY <2>2, <2>3, <2>4 DEF Running
<1>11. Unfinished' = Unfinished \cup {r} /\ Depth' = Depth
  BY <1>3, <1>10 DEF Unfinished, Depth
<1>12. \A x : Awaiting(x)' = Awaiting(x) /\ Behind(x)' = Behind(x)
  BY <1>3, SameFlight
<1>13. /\ request' \in [Req -> Counters]
       /\ \A x \in Req : x # r => request'[x] = request[x]
       /\ request'[r].computed = start /\ request'[r].table = hit \o new
       /\ request'[r].total = total /\ request'[r].placeholders = 0
  <2>1. request \in [Req -> Counters] /\ request[r] \in Counters
    BY <1>6 DEF TypesInv
  <2> DEFINE w == [request[r] EXCEPT !.computed = start, !.total = total, !.table = hit \o new]
  <2>2. /\ w \in Counters /\ w.computed = start /\ w.table = hit \o new
        /\ w.total = total /\ w.placeholders = 0
    <3> DEFINE t == hit \o new
    <3>1. t \in Seq(Block) /\ total \in Nat
      BY <1>9, LimitType
    <3> HIDE DEF t
    <3>2. [request[r] EXCEPT !.computed = start, !.total = total, !.table = t] \in Counters
      BY <1>7, <2>1, <3>1 DEF Counters
    <3> QED
      BY <2>1, <3>2 DEF Counters, t
  <2>3. request' = [request EXCEPT ![r] = w]
    BY <1>1, <2>1
  <2> HIDE DEF w
  <2> QED
    BY <2>1, <2>2, <2>3
<1>14. /\ batch' \in Partial(Req, Grant) /\ DOMAIN (batch') = DOMAIN batch \cup {r}
       /\ batch'[r] = e /\ \A x \in DOMAIN batch : x # r => batch'[x] = batch[x]
  <2>1. batch \in Partial(Req, Grant)
    BY <1>6 DEF TypesInv
  <2> DEFINE b == With(batch, r, e)
  <2>2. b \in Partial(Req, Grant)
    BY <1>8, <2>1, WithPartial
  <2>3. /\ DOMAIN b = DOMAIN batch \cup {r} /\ b[r] = e
        /\ \A x \in DOMAIN batch : x # r => b[x] = batch[x]
    BY DEF With
  <2> QED
    BY <1>2, <2>2, <2>3
<1>15. TypesInv'
  <2>1. cachedAt' \in [Block -> 0 .. Cardinality(Block)]
    <3>1. Lesser(start + n, total) \in Nat
      BY <1>7, LimitType DEF Lesser
    <3> QED
      BY <1>1, <1>6, <1>9, <3>1, CachedTypes DEF n, start
  <2>2. tokenBudget' \in 0 .. Budget
    BY <1>2, <1>6, <1>7, ServingAssumption DEF TypesInv
  <2> QED
    BY <1>3, <1>4, <1>6, <1>10, <1>13, <1>14, <2>1, <2>2 DEF TypesInv
<1>16. QueuesInv'
  <2>1. ASSUME NEW i \in DOMAIN (running'), NEW j \in DOMAIN (running'), i < j
        PROVE  ~Schedulable(running[i])' /\ running'[i] = running[i]
    <3>1. i \in 1 .. Len(running)
      BY <1>6, <1>10, <2>1, RunningTypes
    <3>2. PICK x \in Req : x = running[i] /\ x \in Running
      BY <1>6, <3>1, RunningTypes
    <3>3. ~Schedulable(x) /\ x # r
      BY <1>5, <3>2
    <3>4. ~Schedulable(x)'
      BY <1>10, <1>13, <1>14, <3>2, <3>3, StaysUnschedulable
    <3>5. running'[i] = x
      BY <1>10, <3>1, <3>2
    <3> QED
      BY <3>2, <3>4, <3>5
  <2>2. DOMAIN (batch') \subseteq Running'
    BY <1>6, <1>10, <1>14 DEF QueuesInv
  <2> QED
    BY <1>3, <1>5, <1>6, <1>10, <1>11, <2>1, <2>2 DEF QueuesInv
<1>17. FlightInv'
  BY <1>3, <1>4, <1>6, <1>10, <1>11, <1>14 DEF FlightInv, InFlight
<1>18. RequestInv'
  <2>1. Awaiting(r) = 0
    BY <1>6, FlightSums
  <2>2. \A x \in Unfinished : x \in Req
    BY <1>6, RunningTypes
  <2>3. ASSUME NEW x \in Unfinished \cup {r}
        PROVE  /\ request'[x].total \in 1 .. Limit
               /\ request'[x].placeholders = (IF async THEN Awaiting(x) ELSE 0)
               /\ request'[x].computed <= request'[x].total + Awaiting(x)
               /\ request'[x].computed <= MaxLen
    <3>1. CASE x = r
      BY <1>7, <1>13, <2>1, <3>1, LimitType
    <3>2. CASE x # r
      BY <1>6, <1>13, <2>2, <3>2 DEF RequestInv
    <3> QED
      BY <3>1, <3>2
  <2>4. ASSUME NEW x \in Req \ (Unfinished \cup {r}) PROVE request'[x] = Idle
    BY <1>6, <1>13, <2>4 DEF RequestInv
  <2>5. ASSUME NEW x \in Range(waiting)' PROVE request'[x].computed = 0
    <3>1. x \in Range(waiting) /\ x # r /\ x \in Req
      BY <1>6, RunningTypes
    <3> QED
      BY <1>6, <1>13, <3>1 DEF RequestInv
  <2> QED
    BY <1>3, <1>11, <1>12, <2>3, <2>4, <2>5 DEF RequestInv, Limit
<1>19. CountInv'
  BY <1>4, <1>6, <1>10, <1>12, <1>13, RunningTypes DEF IInv, CountInv
<1>20. BatchInv'
  <2> SUFFICES ASSUME NEW x \in DOMAIN (batch')
               PROVE  /\ batch'[x].start = request'[x].computed
                      /\ batch'[x].drafts <= Lookahead /\ batch'[x].drafts <= batch'[x].sched
                      /\ batch'[x].start + batch'[x].sched <= MaxLen
                      /\ batch'[x].start + batch'[x].sched
                            <= request'[x].total + request'[x].placeholders + batch'[x].drafts
                      /\ batch'[x].drafts > 0 => request'[x].total + request'[x].placeholders
                                                    <= batch'[x].start + batch'[x].sched
    BY DEF BatchInv
  <2>1. CASE x = r
    <3>1. total + 0 + d = total + d /\ total + 0 = total
      BY <1>7, LimitType
    <3> QED
      BY <1>7, <1>8, <1>13, <1>14, <2>1, <3>1
  <2>2. CASE x # r
    <3>1. x \in DOMAIN batch /\ x \in Req /\ batch'[x] = batch[x] /\ request'[x] = request[x]
      <4>1. x \in DOMAIN batch /\ x \in Running
        BY <1>6, <1>14, <2>2 DEF QueuesInv
      <4> QED
        BY <1>6, <1>13, <1>14, <2>2, <4>1, RunningTypes
    <3> QED
      BY <3>1 DEF IInv, BatchInv
  <2> QED
    BY <2>1, <2>2
<1>21. TablesInv'
  <2>1. \A x \in Req : Len(request'[x].table) <= BlocksFor(MaxLen)
    BY <1>9, <1>13 DEF IInv, TablesInv
  <2>2. \A x \in Running' \cap DOMAIN worker : x \in Running /\ x \in Req /\ x # r
    BY <1>6, <1>10, RunningTypes
  <2> QED
    BY <1>4, <1>13, <2>1, <2>2 DEF IInv, TablesInv, BlocksFor
<1>22. TrackedInv'
  BY <1>3, KeepsTracked DEF IInv
<1> QED
  BY <1>4, <1>15, <1>16, <1>17, <1>18, <1>19, <1>20, <1>21, <1>22 DEF IInv, RowsNeverDropped

LEMMA AdmitNewInv ==
    ASSUME IInv, NEW r \in Req, AdmitNew(r)
    PROVE  IInv'
<1>1. /\ AdmissionOpen /\ waiting = << >> /\ r \in Unused /\ waiting' = waiting
  BY DEF AdmitNew
<1>2. PICK total \in Prompts : \E hit \in Hits(total) : Admit(r, total, hit)
  BY DEF AdmitNew
<1>3. PICK hit \in Hits(total) : Admit(r, total, hit)
  BY <1>2
<1>4. /\ r \notin Running /\ r \notin Range(waiting) /\ r \notin InFlight
      /\ r \notin DOMAIN worker /\ r \notin finished /\ r \notin Unfinished
  BY <1>1 DEF Unused, Unfinished
<1>5. request[r].placeholders = 0
  BY <1>4 DEF IInv, RequestInv, Idle
<1>6. total \in 1 .. Limit
  BY ServingAssumption, LimitType DEF Limit
<1>7. waiting' \in Seq(Req) /\ IsInjective(waiting') /\ Range(waiting)' = Range(waiting) \ {r}
  BY <1>1, <1>4 DEF IInv, TypesInv, QueuesInv
<1> QED
  BY <1>1, <1>3, <1>4, <1>5, <1>6, <1>7, AdmitInv

LEMMA ResumeInv ==
    ASSUME IInv, Resume
    PROVE  IInv'
<1>1. /\ AdmissionOpen /\ waiting # << >> /\ waiting' = Tail(waiting)
  BY DEF Resume
<1>2. PICK r : r = Head(waiting)
  OBVIOUS
<1>3. PICK hit \in Hits(request[r].total) : Admit(r, request[r].total, hit)
  BY <1>2 DEF Resume
<1>4. /\ r \in Req /\ waiting' \in Seq(Req) /\ IsInjective(waiting')
      /\ r \in Range(waiting) /\ Range(waiting)' = Range(waiting) \ {r}
  <2>1. waiting \in Seq(Req) /\ IsInjective(waiting)
    BY DEF IInv, TypesInv, QueuesInv
  <2> DEFINE s == Tail(waiting)
  <2>2. /\ s \in Seq(Req) /\ r \in Req /\ Range(waiting) = Range(s) \cup {r}
        /\ IsInjective(s) /\ r \notin Range(s)
    BY <1>1, <1>2, <2>1, HeadAndTail
  <2>3. waiting' = s
    BY <1>1
  <2> HIDE DEF s
  <2> QED
    BY <2>2, <2>3
<1>5. /\ phase = "scheduling" /\ preempted = {}
  BY <1>1 DEF AdmissionOpen
<1>6. r \notin Running /\ r \notin finished /\ r \in Unfinished
  BY <1>4 DEF IInv, QueuesInv, Unfinished
<1>7. r \notin DOMAIN worker
  BY <1>5, <1>6 DEF IInv, FlightInv
<1>8. r \notin InFlight
  <2>1. ASSUME NEW i \in DOMAIN inflight, r \in DOMAIN inflight[i]
        PROVE  FALSE
    <3>1. Len(inflight) = Depth /\ Len(inflight) < Depth
      BY <1>4, <1>5, <2>1 DEF IInv, FlightInv
    <3>2. Depth \in Nat
      BY DEF Depth
    <3> QED
      BY <3>1, <3>2
  <2> QED
    BY <2>1 DEF InFlight
<1>9. request[r].total \in 1 .. Limit /\ request[r].placeholders = 0
  <2>1. Awaiting(r) = 0
    BY <1>8, FlightSums DEF IInv
  <2> QED
    BY <1>6, <2>1 DEF IInv, RequestInv
<1> QED
  BY <1>1, <1>3, <1>4, <1>6, <1>7, <1>8, <1>9, AdmitInv

-----------------------------------------------------------------------------
(* Outcomes, and the end of a request. *)

LEMMA SettleInv ==
    ASSUME IInv, Settle
    PROVE  IInv'
<1> DEFINE tables == [r \in DOMAIN worker |-> worker[r].ids]
<1>1. /\ ResolveAsync(unsettled, tables) /\ unsettled' = NoBatch
      /\ UNCHANGED <<scheduler, inflight, worker, needed, full, dropped, lost>>
  BY DEF Settle
<1>2. /\ async' = async /\ request' = request /\ running' = running /\ waiting' = waiting
      /\ cachedAt' = cachedAt /\ batch' = batch /\ tokenBudget' = tokenBudget
      /\ phase' = phase /\ finished' = finished /\ preempted' = preempted
      /\ inflight' = inflight /\ worker' = worker /\ needed' = needed /\ full' = full
      /\ dropped' = dropped
  BY <1>1 DEF scheduler, queues
<1>3. Running' = Running /\ Unfinished' = Unfinished /\ Depth' = Depth
  BY <1>2 DEF Running, Unfinished, Depth
<1>4. \A x : Awaiting(x)' = Awaiting(x) /\ Behind(x)' = Behind(x)
  BY <1>2, SameFlight
<1>5. TypesInv /\ TrackedInv
  BY DEF IInv
<1>6. TypesInv'
  <2>1. unsettled' \in Partial(Req, Nat) /\ DOMAIN (unsettled') = {}
    BY <1>1, NoPartial
  <2> QED
    BY <1>2, <1>5, <2>1 DEF TypesInv
<1>7. QueuesInv'
  <2>1. \A x : Schedulable(x)' = Schedulable(x)
    BY <1>2, <1>3 DEF Schedulable
  <2> QED
    BY <1>2, <1>3, <2>1 DEF IInv, QueuesInv
<1>8. FlightInv' /\ RequestInv' /\ CountInv' /\ BatchInv' /\ TablesInv'
  <2>1. FlightInv'
    BY <1>2, <1>3 DEF IInv, FlightInv, InFlight
  <2>2. RequestInv'
    BY <1>2, <1>3, <1>4 DEF IInv, RequestInv
  <2>3. CountInv'
    BY <1>2, <1>3, <1>4 DEF IInv, CountInv
  <2>4. BatchInv'
    BY <1>2 DEF IInv, BatchInv
  <2>5. TablesInv'
    BY <1>2, <1>3 DEF IInv, TablesInv
  <2> QED
    BY <2>1, <2>2, <2>3, <2>4, <2>5
<1>9. TrackedInv'
  <2>1. ASSUME NEW r \in Req
        PROVE  /\ requestBlocks'[r] \in Fillings(Own(r)) /\ epochBlocks'[r] \in Fillings(Own(r))
               /\ resolvedBlocks'[r] \in Fillings(Own(r))
               /\ pendingBlocks'[r] \in Placings(Own(r))
    <3>1. ASSUME r \in DOMAIN unsettled
          PROVE  /\ unsettled[r] \in Nat /\ tables[r] \in Seq(Block)
                 /\ Members(tables[r]) \subseteq Own(r)
      <4>1. r \in DOMAIN worker /\ unsettled[r] \in Nat
        BY <1>5, <3>1, PartialParts DEF TypesInv
      <4>2. worker[r] \in States
        BY <1>5, <4>1, PartialParts DEF TypesInv
      <4>3. tables[r] = worker[r].ids
        BY <4>1
      <4>4. Members(tables[r]) = Own(r)
        BY <4>1, <4>3, MembersAreRange DEF Own
      <4> QED
        BY <4>1, <4>2, <4>3, <4>4 DEF States
    <3>2. /\ requestBlocks[r] \in Fillings(Own(r)) /\ epochBlocks[r] \in Fillings(Own(r))
          /\ resolvedBlocks[r] \in Fillings(Own(r)) /\ pendingBlocks[r] \in Placings(Own(r))
      BY <1>5 DEF TrackedInv
    <3> HIDE DEF tables
    <3> QED
      BY <1>1, <3>1, <3>2, ResolvedTables
  <2>2. /\ DOMAIN (requestBlocks') = Req /\ DOMAIN (epochBlocks') = Req
        /\ DOMAIN (resolvedBlocks') = Req /\ DOMAIN (pendingBlocks') = Req
        /\ stepBlocks' = stepBlocks
    BY <1>1 DEF ResolveAsync
  <2>3. \A r : Own(r)' = Own(r)
    BY <1>2 DEF Own
  <2> QED
    BY <1>5, <2>1, <2>2, <2>3 DEF TrackedInv
<1> QED
  BY <1>2, <1>6, <1>7, <1>8, <1>9 DEF IInv, RowsNeverDropped

\* Requests leave the queues.
LEMMA LeavingQueues ==
    ASSUME TypesInv, QueuesInv, NEW stopped, LeaveQueues(stopped)
    PROVE  /\ running' \in Seq(Req) /\ waiting' \in Seq(Req)
           /\ IsInjective(running') /\ IsInjective(waiting')
           /\ Running' = Running \ stopped /\ Range(waiting)' = Range(waiting) \ stopped
           /\ Unfinished' = Unfinished \ stopped
<1>1. /\ running \in Seq(Req) /\ waiting \in Seq(Req)
      /\ IsInjective(running) /\ IsInjective(waiting)
  BY DEF TypesInv, QueuesInv
<1>2. running' = RemoveAll(running, stopped) /\ waiting' = RemoveAll(waiting, stopped)
  BY DEF LeaveQueues
<1>3. /\ RemoveAll(running, stopped) \in Seq(Req)
      /\ Range(RemoveAll(running, stopped)) = Range(running) \ stopped
      /\ IsInjective(RemoveAll(running, stopped))
  BY <1>1, RemovedItems
<1>4. /\ RemoveAll(waiting, stopped) \in Seq(Req)
      /\ Range(RemoveAll(waiting, stopped)) = Range(waiting) \ stopped
      /\ IsInjective(RemoveAll(waiting, stopped))
  BY <1>1, RemovedItems
<1> QED
  BY <1>2, <1>3, <1>4 DEF Running, Unfinished

LEMMA AbortInv ==
    ASSUME IInv, NEW r \in Req, Abort(r)
    PROVE  IInv'
<1>1. /\ phase = "idle" /\ r \in Unfinished /\ request' = [request EXCEPT ![r] = Idle]
      /\ LeaveQueues({r}) /\ finished' = finished \cup {r}
      /\ async' = async /\ cachedAt' = cachedAt /\ batch' = batch
      /\ tokenBudget' = tokenBudget /\ phase' = phase /\ preempted' = preempted
      /\ inflight' = inflight /\ UNCHANGED <<runner, tracker>>
  BY DEF Abort
<1>2. /\ worker' = worker /\ unsettled' = unsettled /\ needed' = needed /\ full' = full
      /\ dropped' = dropped
  BY <1>1 DEF runner
<1>3. TypesInv /\ QueuesInv /\ FlightInv /\ RequestInv
  BY DEF IInv
<1>4. preempted = {} /\ DOMAIN batch = {}
  BY <1>1, <1>3, NoPartial DEF QueuesInv
<1>5. /\ running' \in Seq(Req) /\ waiting' \in Seq(Req)
      /\ IsInjective(running') /\ IsInjective(waiting')
      /\ Running' = Running \ {r} /\ Range(waiting)' = Range(waiting) \ {r}
      /\ Unfinished' = Unfinished \ {r}
  BY <1>1, <1>3, LeavingQueues
<1>6. Depth' = Depth /\ \A x : Awaiting(x)' = Awaiting(x) /\ Behind(x)' = Behind(x)
  BY <1>1, SameFlight DEF Depth
<1>7. /\ request' \in [Req -> Counters] /\ request'[r] = Idle
      /\ \A x \in Req : x # r => request'[x] = request[x]
  <2>1. Idle \in Counters
    BY DEF Idle, Counters
  <2> QED
    BY <1>1, <1>3, <2>1 DEF TypesInv
<1>8. TypesInv'
  BY <1>1, <1>2, <1>3, <1>5, <1>7 DEF TypesInv
<1>9. QueuesInv'
  BY <1>1, <1>3, <1>4, <1>5 DEF QueuesInv
<1>10. FlightInv'
  BY <1>1, <1>2, <1>3, <1>4, <1>5, <1>6 DEF FlightInv, InFlight
<1>11. RequestInv'
  BY <1>1, <1>3, <1>5, <1>6, <1>7, RunningTypes DEF RequestInv, Limit
<1>12. CountInv'
  BY <1>2, <1>3, <1>5, <1>6, <1>7, RunningTypes DEF IInv, CountInv
<1>13. BatchInv'
  BY <1>1, <1>4 DEF BatchInv
<1>14. TablesInv'
  <2>1. BlocksFor(MaxLen) \in Nat
    BY Lengths, ServingAssumption
  <2>2. \A x \in Req : Len(request'[x].table) <= BlocksFor(MaxLen)
    BY <1>7, <2>1 DEF IInv, TablesInv, Idle
  <2>3. \A x \in Running' : x \in Running /\ x \in Req /\ x # r
    BY <1>3, <1>5, RunningTypes
  <2> QED
    BY <1>2, <1>7, <2>2, <2>3 DEF IInv, TablesInv, BlocksFor
<1>15. TrackedInv'
  BY <1>1, KeepsTracked DEF IInv
<1> QED
  BY <1>2, <1>8, <1>9, <1>10, <1>11, <1>12, <1>13, <1>14, <1>15 DEF IInv, RowsNeverDropped

\* What a request keeps of a batch is what the scheduler still awaited of it,
\* less what was rejected.
LEMMA ReceivedCounts ==
    ASSUME TypesInv, FlightInv, RequestInv, inflight # << >>,
           NEW e, e = inflight[1], NEW r \in Unfinished, r \in DOMAIN e,
           NEW q, q = request[r], NEW o \in Outcomes(q, e[r]), ~o.stops,
           NEW x, x = Received(q, e[r], o)
    PROVE  /\ x \in Counters /\ x.table = q.table
           /\ x.computed = Monus(q.computed, Rejected(1, r))
           /\ x.total \in 1 .. Limit
           /\ x.placeholders = (IF async THEN Awaiting(r) - Sampled(1, r) ELSE 0)
           /\ x.computed <= x.total + (Awaiting(r) - Sampled(1, r))
           /\ x.computed <= q.computed
<1>1. 1 \in DOMAIN inflight
  BY DEF TypesInv
<1> DEFINE drafts == e[r].drafts
           rej    == e[r].rej
           kept   == o.kept
<1>2. /\ drafts \in Nat /\ rej \in Nat /\ e[r].sampled \in BOOLEAN
      /\ rej <= drafts /\ (~e[r].sampled => drafts = 0)
      /\ Rejected(1, r) = rej
      /\ Sampled(1, r) = IF e[r].sampled THEN 1 + drafts ELSE 0
  BY <1>1, FlightTypes, ServingAssumption DEF FlightInv, Sampled, Rejected
<1>3. r \in Req
  BY RunningTypes
<1>4. /\ q \in Counters /\ q.computed \in Nat /\ q.total \in Nat /\ q.placeholders \in Nat
      /\ q.decoding \in BOOLEAN /\ q.table \in Seq(Block)
  BY <1>3, RequestTypes
<1>5. /\ q.total \in 1 .. Limit /\ q.placeholders = (IF async THEN Awaiting(r) ELSE 0)
      /\ q.computed <= q.total + Awaiting(r) /\ async \in BOOLEAN
  BY DEF RequestInv, TypesInv
<1>6. Awaiting(r) \in Nat /\ Sampled(1, r) \in Nat /\ Sampled(1, r) <= Awaiting(r)
  <2>1. Sampled(1, r) \in Nat /\ Sampled(2, r) \in Nat
    BY FlightBounds, ServingAssumption
  <2> QED
    BY <2>1 DEF Awaiting
<1>7. /\ kept \in Nat /\ q.total + kept <= Limit
      /\ kept = (IF e[r].sampled THEN 1 + drafts - rej ELSE 0)
  <2>1. kept \in Nat
    BY ServingAssumption DEF Outcomes
  <2>2. CASE e[r].sampled
    <3>1. q.total + kept <= Limit /\ kept = 1 + drafts - rej
      BY <2>2 DEF Outcomes
    <3> QED
      BY <2>1, <2>2, <3>1
  <2>3. CASE ~e[r].sampled
    <3>1. kept = 0
      BY <2>3 DEF Outcomes
    <3>2. q.total + 0 <= Limit
      BY <1>4, <1>5, LimitType
    <3> QED
      BY <2>3, <3>1, <3>2
  <2> QED
    BY <1>2, <2>2, <2>3
<1>8. x = [q EXCEPT !.computed = Monus(q.computed, rej),
                    !.placeholders = Awaited(q, e[r], o), !.total = q.total + kept]
  BY DEF Received
<1> DEFINE a == Awaited(q, e[r], o)
<1>9. /\ x.computed = Monus(q.computed, rej) /\ x.placeholders = a
      /\ x.total = q.total + kept /\ x.table = q.table /\ x.decoding = q.decoding
      /\ x = [computed |-> Monus(q.computed, rej), total |-> q.total + kept,
              placeholders |-> a, decoding |-> q.decoding, table |-> q.table]
  <2> HIDE DEF a
  <2> QED
    BY <1>4, <1>8 DEF Counters, a
<1>10. a = (IF async THEN Awaiting(r) - Sampled(1, r) ELSE 0)
  <2>1. CASE ~async
    BY <2>1 DEF Awaited
  <2>2. CASE async
    <3>1. a = IF q.placeholders > 0 THEN q.placeholders - rej - kept ELSE q.placeholders - kept
      BY <2>2 DEF Awaited
    <3>2. q.placeholders = Awaiting(r)
      BY <1>5, <2>2
    <3>3. CASE e[r].sampled
      <4>1. kept = 1 + drafts - rej /\ Sampled(1, r) = 1 + drafts
        BY <1>2, <1>7, <3>3
      <4> HIDE DEF a, kept, rej, drafts
      <4> QED
        BY <1>2, <1>6, <2>2, <3>1, <3>2, <4>1
    <3>4. CASE ~e[r].sampled
      <4>1. kept = 0 /\ Sampled(1, r) = 0 /\ rej = 0
        BY <1>2, <1>7, <3>4
      <4> HIDE DEF a, kept, rej, drafts
      <4> QED
        BY <1>6, <2>2, <3>1, <3>2, <4>1
    <3> QED
      BY <3>3, <3>4
  <2> QED
    BY <2>1, <2>2
<1>11. a \in Nat
  <2> HIDE DEF a
  <2> QED
    BY <1>6, <1>10
<1>12. Monus(q.computed, rej) \in Nat /\ Monus(q.computed, rej) <= q.computed
       /\ Monus(q.computed, rej) <= (q.total + kept) + (Awaiting(r) - Sampled(1, r))
  <2> HIDE DEF kept, rej, drafts
  <2>1. CASE e[r].sampled
    <3>1. kept = 1 + drafts - rej /\ Sampled(1, r) = 1 + drafts
      BY <1>2, <1>7, <2>1
    <3>2. (q.total + kept) + (Awaiting(r) - Sampled(1, r)) = q.total + Awaiting(r) - rej
      BY <1>2, <1>4, <1>6, <3>1
    <3>3. q.total + Awaiting(r) - rej \in Nat
      BY <1>2, <1>4, <1>6, <1>7, <2>1
    <3>4. q.computed <= q.total + Awaiting(r)
      BY <1>5
    <3> DEFINE c == q.computed  t == q.total + Awaiting(r)
    <3>5. c \in Nat /\ rej \in Nat /\ t \in Nat /\ c <= t /\ t - rej \in Nat
      BY <1>2, <1>4, <1>6, <3>3, <3>4
    <3> HIDE DEF c, t
    <3>6. Monus(c, rej) \in Nat /\ Monus(c, rej) <= c /\ Monus(c, rej) <= t - rej
      BY <3>5 DEF Monus
    <3> QED
      BY <1>2, <1>4, <1>6, <1>7, <3>2, <3>3, <3>6 DEF c, t
  <2>2. CASE ~e[r].sampled
    <3>1. kept = 0 /\ Sampled(1, r) = 0 /\ rej = 0
      BY <1>2, <1>7, <2>2
    <3> QED
      BY <1>4, <1>5, <1>6, <3>1 DEF Monus
  <2> QED
    BY <1>2, <2>1, <2>2
<1>13. q.total + kept \in 1 .. Limit
  <2> HIDE DEF kept
  <2> QED
    BY <1>4, <1>5, <1>7, LimitType
<1> HIDE DEF a, kept, drafts
<1>14. x \in Counters
  <2>1. q.total + kept \in Nat
    BY <1>13, LimitType
  <2> QED
    BY <1>4, <1>9, <1>11, <1>12, <2>1 DEF Counters
<1> QED
  BY <1>2, <1>9, <1>10, <1>12, <1>13, <1>14

\* What Complete does to a request: it goes, keeps what was sampled for it, or
\* was not in the batch.
LEMMA CompleteInv ==
    ASSUME IInv, Complete
    PROVE  IInv'
<1> DEFINE e     == Head(inflight)
           known == DOMAIN e \cap Unfinished
<1>1. /\ phase = "idle" /\ inflight # << >> /\ inflight' = Tail(inflight)
      /\ async' = async /\ batch' = batch /\ tokenBudget' = tokenBudget /\ phase' = phase
      /\ preempted' = preempted /\ UNCHANGED <<runner, tracker>>
  BY DEF Complete, MayComplete
<1>2. /\ worker' = worker /\ unsettled' = unsettled /\ needed' = needed /\ full' = full
      /\ dropped' = dropped
  BY <1>1 DEF runner
<1>3. TypesInv /\ QueuesInv /\ FlightInv /\ RequestInv /\ CountInv
  BY DEF IInv
<1>4. preempted = {} /\ DOMAIN batch = {}
  BY <1>1, <1>3, NoPartial DEF QueuesInv
<1>5. PICK o \in [known -> [kept : 0 .. Lookahead + 1, stops : BOOLEAN]] :
            LET hashed == UNION {NewlyCached(request[r], e[r], o[r]) : r \in known \cap Running}
            IN  /\ \A r \in known : o[r] \in Outcomes(request[r], e[r])
                /\ request' = [r \in Req |-> IF r \in known
                                THEN Received(request[r], e[r], o[r]) ELSE request[r]]
                /\ cachedAt' = [b \in Block |->
                        IF \E i \in 1 .. Cardinality(Block) : <<b, i>> \in hashed
                        THEN CHOOSE i \in 1 .. Cardinality(Block) : <<b, i>> \in hashed
                        ELSE cachedAt[b]]
                /\ finished' = finished \cup {r \in known : o[r].stops}
                /\ LeaveQueues({r \in known : o[r].stops})
  BY DEF Complete
<1> DEFINE stopped == {r \in known : o[r].stops}
           hashed  == UNION {NewlyCached(request[r], e[r], o[r]) : r \in known \cap Running}
<1>6. e = inflight[1] /\ 1 \in DOMAIN inflight
  BY <1>1, <1>3 DEF TypesInv
<1> HIDE DEF e
<1>7. /\ \A r \in known : o[r] \in Outcomes(request[r], e[r]) /\ o[r].stops \in BOOLEAN
      /\ request' = [r \in Req |-> IF r \in known
                                THEN Received(request[r], e[r], o[r]) ELSE request[r]]
      /\ finished' = finished \cup stopped
      /\ LeaveQueues(stopped)
  BY <1>5
<1>8. cachedAt' \in [Block -> 0 .. Cardinality(Block)]
  <2>1. cachedAt' = [b \in Block |->
                        IF \E i \in 1 .. Cardinality(Block) : <<b, i>> \in hashed
                        THEN CHOOSE i \in 1 .. Cardinality(Block) : <<b, i>> \in hashed
                        ELSE cachedAt[b]]
    BY <1>5
  <2>2. Cardinality(Block) \in Nat
    BY FS_CardinalityType, ServingAssumption
  <2>3. cachedAt \in [Block -> 0 .. Cardinality(Block)]
    BY <1>3 DEF TypesInv
  <2> HIDE DEF hashed
  <2>4. \A b \in Block : (\E i \in 1 .. Cardinality(Block) : <<b, i>> \in hashed)
            => (CHOOSE i \in 1 .. Cardinality(Block) : <<b, i>> \in hashed)
                    \in 1 .. Cardinality(Block)
    OBVIOUS
  <2>5. \A b \in Block : cachedAt'[b] \in 0 .. Cardinality(Block)
    BY <2>1, <2>2, <2>3, <2>4
  <2> QED
    BY <2>1, <2>5
<1>9. stopped \subseteq known /\ known \subseteq Unfinished /\ Unfinished \subseteq Req
  BY <1>3, RunningTypes
<1>10. /\ running' \in Seq(Req) /\ waiting' \in Seq(Req)
       /\ IsInjective(running') /\ IsInjective(waiting')
       /\ Running' = Running \ stopped /\ Range(waiting)' = Range(waiting) \ stopped
       /\ Unfinished' = Unfinished \ stopped
  BY <1>3, <1>7, LeavingQueues
<1>11. /\ \A x \in stopped : request'[x] = Idle
       /\ \A x \in Req \ known : request'[x] = request[x]
  BY <1>7, <1>9 DEF Received
<1>12. ASSUME NEW x \in known \ stopped
       PROVE  /\ request'[x] \in Counters /\ request'[x].table = request[x].table
              /\ request'[x].computed = Monus(request[x].computed, Rejected(1, x))
              /\ request'[x].total \in 1 .. Limit
              /\ request'[x].placeholders = (IF async THEN Awaiting(x) - Sampled(1, x) ELSE 0)
              /\ request'[x].computed <= request'[x].total + (Awaiting(x) - Sampled(1, x))
              /\ request'[x].computed <= request[x].computed
  <2>1. /\ x \in Unfinished /\ x \in DOMAIN e /\ x \in Req
        /\ o[x] \in Outcomes(request[x], e[x]) /\ ~o[x].stops
        /\ request'[x] = Received(request[x], e[x], o[x])
    BY <1>7, <1>9
  <2> QED
    BY <1>1, <1>3, <1>6, <2>1, ReceivedCounts
<1>13. \A x : Awaiting(x)' = Awaiting(x) - Sampled(1, x) /\ Behind(x)' = Behind(x) - Rejected(1, x)
  BY <1>1, <1>3, LeavesFlight
<1>14. ASSUME NEW x PROVE /\ Awaiting(x) \in Nat /\ Behind(x) \in Nat
                          /\ Sampled(1, x) \in Nat /\ Rejected(1, x) \in Nat
                          /\ Rejected(1, x) <= Behind(x)
  <2>1. Sampled(1, x) \in Nat /\ Rejected(1, x) \in Nat /\ Rejected(2, x) \in Nat
    BY <1>3, FlightBounds, ServingAssumption
  <2>2. Awaiting(x) \in Nat /\ Behind(x) \in Nat
    BY <1>3, FlightSums, ServingAssumption
  <2> QED
    BY <2>1, <2>2 DEF Behind
<1>15. \A x \in Unfinished \ known : Sampled(1, x) = 0 /\ Rejected(1, x) = 0
  <2>1. \A x \in Unfinished \ known : x \notin DOMAIN inflight[1]
    BY <1>6
  <2> QED
    BY <2>1 DEF Sampled, Rejected
<1>16. request' \in [Req -> Counters]
  <2>1. \A x \in Req : request'[x] \in Counters
    <3>1. Idle \in Counters
      BY DEF Idle, Counters
    <3>2. \A x \in Req : request[x] \in Counters
      BY <1>3 DEF TypesInv
    <3> HIDE DEF known, stopped
    <3> QED
      BY <1>9, <1>11, <1>12, <3>1, <3>2
  <2> QED
    BY <1>7, <2>1
<1>17. /\ inflight' \in Seq(Partial(Req, Outcome)) /\ Len(inflight') = Len(inflight) - 1
       /\ DOMAIN (inflight') = 1 .. Len(inflight) - 1
       /\ \A i \in 1 .. Len(inflight) - 1 : inflight'[i] = inflight[i + 1]
       /\ Len(inflight) \in Nat \ {0} /\ DOMAIN inflight = 1 .. Len(inflight)
  BY <1>1, <1>3, HeadAndTail DEF TypesInv
<1> HIDE DEF known, stopped
<1>18. TypesInv'
  BY <1>1, <1>2, <1>3, <1>7, <1>8, <1>9, <1>10, <1>16, <1>17 DEF TypesInv
<1>19. QueuesInv'
  <2>1. preempted' = {} /\ DOMAIN (batch') = {} /\ batch' = NoBatch
    BY <1>1, <1>3, <1>4 DEF QueuesInv
  <2>2. Running' \cap Range(waiting)' = {} /\ finished' \cap Unfinished' = {}
    BY <1>3, <1>7, <1>10 DEF QueuesInv
  <2> QED
    BY <1>10, <2>1, <2>2 DEF QueuesInv
<1>20. FlightInv'
  <2>1. Depth' = Depth /\ Depth \in Nat
    BY <1>1 DEF Depth
  <2>2. Len(inflight') <= Depth'
    BY <1>3, <1>17, <2>1 DEF FlightInv
  <2>3. ASSUME NEW i \in DOMAIN (inflight'), NEW x \in DOMAIN (inflight'[i])
        PROVE  /\ inflight'[i][x].rej <= inflight'[i][x].drafts
               /\ ~inflight'[i][x].sampled => inflight'[i][x].drafts = 0
               /\ x \notin Range(waiting)' \ preempted'
    <3>1. i + 1 \in DOMAIN inflight /\ inflight'[i] = inflight[i + 1] /\ i + 1 # 1
      BY <1>17
    <3> QED
      BY <1>1, <1>3, <1>10, <3>1 DEF FlightInv
  <2>4. DOMAIN worker \subseteq Running' \cup finished' \cup preempted'
    BY <1>1, <1>3, <1>7, <1>10 DEF FlightInv
  <2>5. \A x \in Running' : x \in DOMAIN worker
    BY <1>3, <1>4, <1>10 DEF FlightInv
  <2> QED
    BY <1>1, <1>2, <2>2, <2>3, <2>4, <2>5 DEF FlightInv
<1>21. RequestInv'
  <2>1. \A x \in Req \ Unfinished' : request'[x] = Idle
    BY <1>3, <1>9, <1>10, <1>11 DEF RequestInv
  <2>2. ASSUME NEW x \in Unfinished'
        PROVE  /\ request'[x].total \in 1 .. Limit
               /\ request'[x].placeholders = (IF async THEN Awaiting(x)' ELSE 0)
               /\ request'[x].computed <= request'[x].total + Awaiting(x)'
               /\ request'[x].computed <= MaxLen
               /\ x \in Range(waiting)' => request'[x].computed = 0
    <3>0. /\ x \in Unfinished /\ x \in Req /\ x \notin stopped
          /\ Awaiting(x)' = Awaiting(x) - Sampled(1, x)
          /\ x \in Range(waiting)' => x \in Range(waiting)
      BY <1>9, <1>10, <1>13
    <3>1. /\ request[x].total \in 1 .. Limit /\ request[x].computed <= MaxLen
          /\ request[x].placeholders = (IF async THEN Awaiting(x) ELSE 0)
          /\ request[x].computed <= request[x].total + Awaiting(x)
          /\ x \in Range(waiting) => request[x].computed = 0
      BY <1>3, <3>0 DEF RequestInv
    <3>2. request[x].computed \in Nat
      BY <1>3, <3>0, RequestTypes
    <3>3. CASE x \in known
      <4>1. /\ request'[x].computed <= request[x].computed
            /\ request'[x].total \in 1 .. Limit
            /\ request'[x].placeholders = (IF async THEN Awaiting(x)' ELSE 0)
            /\ request'[x].computed <= request'[x].total + Awaiting(x)'
        BY <1>12, <3>0, <3>3
      <4>2. request'[x].computed \in Nat
        BY <1>18, <3>0, RequestTypes DEF TypesInv, Counters
      <4> QED
        BY <3>0, <3>1, <3>2, <4>1, <4>2, LimitType
    <3>4. CASE x \notin known
      <4>1. request'[x] = request[x] /\ Sampled(1, x) = 0
        BY <1>11, <1>15, <3>0, <3>4
      <4>2. Awaiting(x)' = Awaiting(x)
        BY <1>14, <3>0, <4>1
      <4> QED
        BY <3>0, <3>1, <4>1, <4>2
    <3> QED
      BY <3>3, <3>4
  <2>3. \A x \in Range(waiting)' : x \in Unfinished'
    BY DEF Unfinished
  <2> QED
    BY <1>1, <2>1, <2>2, <2>3 DEF RequestInv, Limit
<1>22. CountInv'
  <2>1. ASSUME NEW x \in Running' \cap DOMAIN worker
        PROVE  request'[x].computed = worker[x].rows + Behind(x)'
    <3>0. /\ x \in Running /\ x \in Unfinished /\ x \notin stopped /\ x \in Req
          /\ Behind(x)' = Behind(x) - Rejected(1, x)
      BY <1>3, <1>10, <1>13, RunningTypes DEF Unfinished
    <3>1. request[x].computed = worker[x].rows + Behind(x)
      BY <1>3, <2>1, <3>0 DEF CountInv
    <3>2. worker[x].rows \in Nat
      <4>1. worker[x] \in States
        BY <1>3, <2>1, PartialParts DEF TypesInv
      <4> QED
        BY <4>1 DEF States
    <3>3. /\ Behind(x) \in Nat /\ Rejected(1, x) \in Nat /\ Rejected(1, x) <= Behind(x)
      BY <1>14
    <3>4. CASE x \in known
      <4>1. request'[x].computed = Monus(request[x].computed, Rejected(1, x))
        BY <1>12, <3>0, <3>4
      <4> QED
        BY <3>0, <3>1, <3>2, <3>3, <4>1 DEF Monus
    <3>5. CASE x \notin known
      <4>1. request'[x] = request[x] /\ Rejected(1, x) = 0
        BY <1>11, <1>15, <3>0, <3>5
      <4> QED
        BY <3>0, <3>1, <3>3, <4>1
    <3> QED
      BY <3>4, <3>5
  <2> QED
    BY <1>2, <2>1 DEF CountInv
<1>23. BatchInv'
  BY <1>1, <1>4 DEF BatchInv
<1>24. TablesInv'
  <2>1. BlocksFor(MaxLen) \in Nat
    BY Lengths, ServingAssumption
  <2>2. \A x \in Req : request'[x].table = request[x].table \/ x \in stopped
    BY <1>11, <1>12
  <2>3. \A x \in Req : Len(request'[x].table) <= BlocksFor(MaxLen)
    BY <1>11, <2>1, <2>2 DEF IInv, TablesInv, Idle
  <2>4. \A x \in Running' : x \in Running /\ x \in Req /\ x \notin stopped
    BY <1>3, <1>10, RunningTypes
  <2> QED
    BY <1>2, <2>2, <2>3, <2>4 DEF IInv, TablesInv, BlocksFor
<1>25. TrackedInv'
  BY <1>1, KeepsTracked DEF IInv
<1> QED
  BY <1>2, <1>18, <1>19, <1>20, <1>21, <1>22, <1>23, <1>24, <1>25 DEF IInv, RowsNeverDropped

-----------------------------------------------------------------------------
(* The batch is dispatched. *)

\* _update_after_schedule of a batched request.
LEMMA AdvancedCounts ==
    ASSUME TypesInv, QueuesInv, RequestInv, BatchInv, NEW r \in DOMAIN batch,
           NEW q, q = request[r], NEW x, x = Advanced(r)
    PROVE  /\ batch[r].start \in Nat /\ batch[r].sched \in Nat /\ batch[r].drafts \in Nat
           /\ r \in Running /\ r \in Req /\ r \notin Removed
           /\ x \in Counters /\ x.total = q.total /\ x.table = q.table
           /\ x.computed = q.computed + batch[r].sched
           /\ x.decoding = (q.computed + batch[r].sched >= q.total + q.placeholders)
           /\ x.decoding \in BOOLEAN
           /\ x.placeholders = IF x.decoding /\ async
                               THEN q.placeholders + 1 + batch[r].drafts ELSE q.placeholders
           /\ batch[r].drafts > 0 => x.decoding
<1>1. batch[r] \in Grant
  BY PartialParts DEF TypesInv
<1>2. batch[r].start \in Nat /\ batch[r].sched \in Nat /\ batch[r].drafts \in Nat
  BY <1>1 DEF Grant
<1>3. r \in Running /\ r \in Req
  BY RunningTypes DEF QueuesInv
<1>4. r \notin Removed
  BY <1>3 DEF QueuesInv, Removed, Unfinished
<1>5. /\ q \in Counters /\ q.computed \in Nat /\ q.total \in Nat /\ q.placeholders \in Nat
      /\ q.decoding \in BOOLEAN /\ q.table \in Seq(Block)
  BY <1>3, RequestTypes
<1> DEFINE done == q.computed + batch[r].sched >= q.total + q.placeholders
           p    == IF done /\ async THEN q.placeholders + 1 + batch[r].drafts
                   ELSE q.placeholders
<1>6. x = [q EXCEPT !.computed = q.computed + batch[r].sched, !.decoding = done,
                    !.placeholders = p]
  BY DEF Advanced
<1>7. p \in Nat /\ done \in BOOLEAN /\ q.computed + batch[r].sched \in Nat
  <2>1. q.computed + batch[r].sched \in Nat /\ q.placeholders + 1 + batch[r].drafts \in Nat
    BY <1>2, <1>5
  <2>2. done \in BOOLEAN
    OBVIOUS
  <2> HIDE DEF done
  <2> QED
    BY <1>5, <2>1, <2>2
<1>8. /\ x \in Counters /\ x.total = q.total /\ x.table = q.table
      /\ x.computed = q.computed + batch[r].sched
      /\ x.decoding = done /\ x.placeholders = p
  <2> HIDE DEF p, done
  <2> QED
    BY <1>5, <1>6, <1>7 DEF Counters
<1>9. batch[r].drafts > 0 => done
  BY <1>2, <1>5 DEF BatchInv
<1> QED
  BY <1>2, <1>3, <1>4, <1>7, <1>8, <1>9

\* The request states of the worker once the batch is known.
LEMMA UpdatedStates ==
    ASSUME TypesInv, QueuesInv, RequestInv, BatchInv, NEW s, s = Updated
    PROVE  /\ s = [r \in DOMAIN s |-> s[r]]
           /\ DOMAIN s = (DOMAIN worker \ Removed) \cup DOMAIN batch
           /\ DOMAIN s \subseteq Req
           /\ \A r \in DOMAIN s : s[r] \in States
           /\ \A r \in DOMAIN batch :
                /\ s[r].ids = request[r].table
                /\ s[r].rows = IF r \in DOMAIN worker THEN worker[r].rows ELSE batch[r].start
           /\ \A r \in DOMAIN s \ DOMAIN batch : r \in DOMAIN worker /\ s[r] = worker[r]
<1>1. /\ s = [r \in DOMAIN s |-> s[r]]
      /\ DOMAIN s = (DOMAIN worker \ Removed) \cup DOMAIN batch
  BY DEF Updated
<1>2. /\ DOMAIN worker \subseteq Req /\ DOMAIN batch \subseteq Req
      /\ \A r \in DOMAIN worker : worker[r] \in States
      /\ \A r \in DOMAIN batch : batch[r] \in Grant
  BY PartialParts DEF TypesInv
<1>3. ASSUME NEW r \in DOMAIN s
      PROVE  s[r] = [ids |-> IF r \in DOMAIN batch THEN request[r].table ELSE worker[r].ids,
                     rows |-> IF r \in DOMAIN worker THEN worker[r].rows ELSE batch[r].start]
  BY <1>1 DEF Updated
<1>4. ASSUME NEW r \in DOMAIN batch
      PROVE  /\ s[r].ids = request[r].table
             /\ s[r].rows = IF r \in DOMAIN worker THEN worker[r].rows ELSE batch[r].start
             /\ s[r] \in States
  <2>1. r \in DOMAIN s /\ r \in Req
    BY <1>1, <1>2
  <2>2. request[r].table \in Seq(Block)
    BY <2>1, RequestTypes
  <2>3. r \in DOMAIN worker => worker[r].rows \in Nat
    BY <1>2 DEF States
  <2>4. batch[r].start \in Nat
    BY <1>2 DEF Grant
  <2> QED
    BY <1>3, <2>1, <2>2, <2>3, <2>4 DEF States
<1>5. ASSUME NEW r \in DOMAIN s \ DOMAIN batch
      PROVE  r \in DOMAIN worker /\ s[r] = worker[r]
  <2>1. r \in DOMAIN worker
    BY <1>1
  <2>2. worker[r] \in States
    BY <1>2, <2>1
  <2>3. s[r] = [ids |-> worker[r].ids, rows |-> worker[r].rows]
    BY <1>3, <2>1
  <2> QED
    BY <2>1, <2>2, <2>3 DEF States
<1> QED
  BY <1>1, <1>2, <1>4, <1>5

\* What the tracker is told of a batched request covers what the step writes:
\* the rows the GPU has are behind the start by what is still to be rejected.
LEMMA BatchEntry ==
    ASSUME IInv, phase = "scheduling", NEW r \in DOMAIN batch,
           NEW e, e = Entry(r, request[r].table), NEW w, w = Updated[r]
    PROVE  /\ Sound(e) /\ e.table = request[r].table /\ e.table \in Seq(Block)
           /\ Members(e.table) = Range(request[r].table) /\ Members(e.table) \subseteq Block
           /\ Own(r) \subseteq Members(e.table)
           /\ MinStart(e) \in Nat /\ MaxEnd(e) \in Nat
           /\ w.ids = e.table /\ w.rows \in Nat
           /\ MinStart(e) <= w.rows /\ w.rows + batch[r].sched + Lookahead <= MaxEnd(e)
           /\ request[r].computed = w.rows + Behind(r)
<1>1. TypesInv /\ QueuesInv /\ FlightInv /\ RequestInv /\ CountInv /\ BatchInv /\ TablesInv
  BY DEF IInv
<1>2. /\ batch[r].start \in Nat /\ batch[r].sched \in Nat /\ batch[r].drafts \in Nat
      /\ r \in Running /\ r \in Req /\ r \notin Removed
  BY <1>1, AdvancedCounts
<1>3. Lookahead \in Nat
  BY ServingAssumption
<1>4. /\ e.start = batch[r].start /\ e.tokens = batch[r].sched + Lookahead
      /\ e.rollback = batch[r].drafts + Lookahead /\ e.table = request[r].table
  BY DEF Entry
<1>5. e.table \in Seq(Block)
  BY <1>1, <1>2, <1>4, RequestTypes
<1>6. /\ MinStart(e) = Monus(batch[r].start, batch[r].drafts + Lookahead)
      /\ MinEnd(e) = MinStart(e) + (batch[r].sched + Lookahead)
      /\ MaxEnd(e) = batch[r].start + (batch[r].sched + Lookahead)
  BY <1>4 DEF MinStart, MinEnd, MaxEnd
<1>7. MinStart(e) \in Nat
  BY <1>2, <1>3, <1>6 DEF Monus
<1>8. MinEnd(e) \in Nat /\ MaxEnd(e) \in Nat
  BY <1>2, <1>3, <1>6, <1>7
<1>9. Sound(e)
  BY <1>5, <1>7, <1>8 DEF Sound
<1>10. Members(e.table) = Range(request[r].table) /\ Members(e.table) \subseteq Block
  BY <1>4, <1>5, MembersAreRange, SeqItems
<1>11. Own(r) \subseteq Members(e.table)
  BY <1>1, <1>2, <1>10 DEF Own, TablesInv
<1>12. /\ w.ids = e.table
       /\ w.rows = IF r \in DOMAIN worker THEN worker[r].rows ELSE batch[r].start
       /\ w.rows \in Nat
  <2>1. r \in DOMAIN Updated /\ Updated[r] \in States
    BY <1>1, UpdatedStates
  <2>2. /\ w.ids = request[r].table
        /\ w.rows = IF r \in DOMAIN worker THEN worker[r].rows ELSE batch[r].start
    BY <1>1, UpdatedStates
  <2> QED
    BY <1>4, <2>1, <2>2 DEF States
<1>13. batch[r].start = request[r].computed
  BY <1>1 DEF BatchInv
<1>14. Behind(r) \in Nat /\ Behind(r) <= Lookahead
       /\ (r \notin InFlight => Behind(r) = 0)
  BY <1>1, FlightSums
<1>15. request[r].computed = w.rows + Behind(r)
  <2>1. CASE r \in DOMAIN worker
    BY <1>1, <1>2, <1>12, <2>1 DEF CountInv
  <2>2. CASE r \notin DOMAIN worker
    <3>1. r \notin InFlight
      BY <1>1, <1>2, <2>2 DEF FlightInv
    <3> QED
      BY <1>2, <1>12, <1>13, <1>14, <2>2, <3>1
  <2> QED
    BY <2>1, <2>2
<1>16. MinStart(e) <= w.rows /\ w.rows + batch[r].sched + Lookahead <= MaxEnd(e)
  <2> DEFINE s == batch[r].start  n == batch[r].sched  d == batch[r].drafts
             b == Behind(r)  w0 == w.rows  m == MinStart(e)  t == MaxEnd(e)
  <2>1. /\ s \in Nat /\ n \in Nat /\ d \in Nat /\ b \in Nat /\ w0 \in Nat
        /\ b <= Lookahead /\ s = w0 + b /\ m = Monus(s, d + Lookahead)
        /\ t = s + (n + Lookahead)
    BY <1>2, <1>6, <1>12, <1>13, <1>14, <1>15
  <2> HIDE DEF s, n, d, b, w0, m, t
  <2>2. m <= w0 /\ w0 + n + Lookahead <= t
    BY <1>3, <2>1 DEF Monus
  <2> QED
    BY <2>2 DEF m, w0, n, t
<1> QED
  BY <1>4, <1>5, <1>7, <1>8, <1>9, <1>10, <1>11, <1>12, <1>15, <1>16

\* What the worker is left with of the tables the tracker may keep.
Left(r) ==
    IF r \in DOMAIN batch THEN Range(request[r].table)
    ELSE IF r \in Removed THEN {} ELSE Own(r)

LEMMA DispatchTracks ==
    ASSUME IInv, Dispatch
    PROVE  /\ DOMAIN (requestBlocks') = Req /\ DOMAIN (epochBlocks') = Req
           /\ DOMAIN (resolvedBlocks') = Req /\ DOMAIN (pendingBlocks') = Req
           /\ stepBlocks' \in Fillings(Block)
           /\ \A r \in Req :
                /\ requestBlocks'[r] \in Fillings(Left(r)) /\ epochBlocks'[r] \in Fillings(Left(r))
                /\ resolvedBlocks'[r] = NoBlocks /\ pendingBlocks'[r] \in Placings(Left(r))
           /\ DOMAIN (stepBlocks') \subseteq
                (UNION {Own(r) : r \in DOMAIN worker})
                    \cup (UNION {Range(request[r].table) : r \in DOMAIN batch})
<1> DEFINE scheduled == [r \in DOMAIN batch |-> Entry(r, request[r].table)]
<1>1. phase = "scheduling" /\ Update(Removed, scheduled)
  BY DEF Dispatch, MayDispatch
<1>2. TypesInv /\ QueuesInv /\ RequestInv /\ BatchInv /\ TrackedInv
  BY DEF IInv
<1>3. ASSUME NEW r \in DOMAIN batch
      PROVE  /\ r \in Req /\ r \notin Removed
             /\ Sound(scheduled[r])
             /\ Members(scheduled[r].table) = Range(request[r].table)
             /\ Members(scheduled[r].table) \subseteq Block
             /\ Own(r) \subseteq Members(scheduled[r].table)
  <2>1. r \in Req /\ r \notin Removed
    BY <1>2, AdvancedCounts
  <2>2. scheduled[r] = Entry(r, request[r].table)
    OBVIOUS
  <2> HIDE DEF scheduled
  <2> QED
    BY <1>1, <2>1, <2>2, BatchEntry
<1>4. ASSUME NEW r \in Req PROVE Own(r) \subseteq Block
  <2>1. ASSUME r \in DOMAIN worker PROVE worker[r].ids \in Seq(Block)
    <3>1. worker \in Partial(Req, States)
      BY <1>2 DEF TypesInv
    <3>2. worker[r] \in States
      BY <2>1, <3>1, PartialParts
    <3> QED
      BY <3>2 DEF States
  <2> QED
    BY <2>1, SeqItems DEF Own
<1>5. DOMAIN scheduled = DOMAIN batch
  OBVIOUS
<1> HIDE DEF scheduled
<1>6. /\ DOMAIN (requestBlocks') = Req /\ DOMAIN (epochBlocks') = Req
      /\ DOMAIN (resolvedBlocks') = Req /\ DOMAIN (pendingBlocks') = Req
  <2>1. DOMAIN (requestBlocks') = Req
    BY <1>1 DEF Update
  <2>2. DOMAIN (epochBlocks') = Req
    BY <1>1 DEF Update
  <2>3. DOMAIN (pendingBlocks') = Req
    BY <1>1 DEF Update
  <2>4. DOMAIN (resolvedBlocks') = Req
    BY <1>1 DEF Update, Nothing
  <2> QED
    BY <2>1, <2>2, <2>3, <2>4
<1>7. /\ stepBlocks' \in Fillings(Block)
      /\ DOMAIN stepBlocks' \subseteq
            (UNION {DOMAIN resolvedBlocks[r] : r \in Req})
                \cup (UNION {Members(scheduled[r].table) : r \in DOMAIN scheduled})
  <2>1. \A r \in Req : resolvedBlocks[r] \in Fillings(Block)
    BY <1>2, <1>4, FillingMonotone DEF TrackedInv
  <2>2. \A r \in DOMAIN scheduled :
            Sound(scheduled[r]) /\ Members(scheduled[r].table) \subseteq Block
    BY <1>3, <1>5
  <2> QED
    BY <1>1, <2>1, <2>2, UpdatedSteps
<1>8. ASSUME NEW r \in Req
      PROVE  /\ requestBlocks'[r] \in Fillings(Left(r)) /\ epochBlocks'[r] \in Fillings(Left(r))
             /\ resolvedBlocks'[r] = NoBlocks /\ pendingBlocks'[r] \in Placings(Left(r))
  <2>1. /\ requestBlocks[r] \in Fillings(Own(r)) /\ epochBlocks[r] \in Fillings(Own(r))
        /\ pendingBlocks[r] \in Placings(Own(r))
    BY <1>2 DEF TrackedInv
  <2>2. CASE r \in DOMAIN batch
    <3> DEFINE M == Members(scheduled[r].table)
    <3>1. M = Left(r) /\ Sound(scheduled[r]) /\ Own(r) \subseteq M
      <4>1. M = Range(request[r].table) /\ Sound(scheduled[r]) /\ Own(r) \subseteq M
        BY <1>3, <2>2
      <4>2. Left(r) = Range(request[r].table)
        BY <2>2 DEF Left
      <4> HIDE DEF M
      <4> QED
        BY <4>1, <4>2
    <3>2. /\ requestBlocks[r] \in Fillings(M) /\ epochBlocks[r] \in Fillings(M)
          /\ pendingBlocks[r] \in Placings(M)
      BY <2>1, <3>1, FillingMonotone, PlacingMonotone
    <3>3. /\ requestBlocks'[r] \in Fillings(M) /\ epochBlocks'[r] \in Fillings(M)
          /\ pendingBlocks'[r] \in Placings(M) /\ resolvedBlocks'[r] = NoBlocks
      BY <1>1, <1>5, <1>7, <2>2, <3>1, <3>2, UpdatedScheduled
    <3> HIDE DEF M
    <3> QED
      BY <3>1, <3>3
  <2>3. CASE r \notin DOMAIN batch
    <3>1. /\ requestBlocks'[r] = IF r \in Removed THEN NoBlocks ELSE requestBlocks[r]
          /\ epochBlocks'[r] = IF r \in Removed THEN NoBlocks ELSE epochBlocks[r]
          /\ pendingBlocks'[r] = IF r \in Removed THEN NoBlocks ELSE pendingBlocks[r]
          /\ resolvedBlocks'[r] = NoBlocks
      BY <1>1, <1>5, <2>3, UpdatedOthers
    <3>2. NoBlocks \in Fillings({}) /\ NoBlocks \in Placings({})
      BY NoFillings, NoPlacings
    <3>3. Left(r) = IF r \in Removed THEN {} ELSE Own(r)
      BY <2>3 DEF Left
    <3> QED
      BY <2>1, <3>1, <3>2, <3>3
  <2> QED
    BY <2>2, <2>3
<1>9. DOMAIN (stepBlocks') \subseteq
                (UNION {Own(r) : r \in DOMAIN worker})
                    \cup (UNION {Range(request[r].table) : r \in DOMAIN batch})
  <2>1. ASSUME NEW b \in DOMAIN (stepBlocks')
        PROVE  \/ \E r \in DOMAIN worker : b \in Own(r)
               \/ \E r \in DOMAIN batch : b \in Range(request[r].table)
    <3>1. CASE \E r \in Req : b \in DOMAIN resolvedBlocks[r]
      <4>1. PICK r \in Req : b \in DOMAIN resolvedBlocks[r]
        BY <3>1
      <4>2. resolvedBlocks[r] \in Fillings(Own(r))
        BY <1>2 DEF TrackedInv
      <4>3. b \in Own(r)
        BY <4>1, <4>2, FillingParts
      <4>4. r \in DOMAIN worker
        BY <4>3 DEF Own
      <4> QED
        BY <4>3, <4>4
    <3>2. CASE \E r \in DOMAIN scheduled : b \in Members(scheduled[r].table)
      BY <1>3, <1>5, <3>2
    <3> QED
      BY <1>7, <2>1, <3>1, <3>2
  <2> QED
    BY <2>1
<1> QED
  BY <1>6, <1>7, <1>8, <1>9

\* What the dispatch leaves on the worker and in the queue, with tokens or
\* without.
LEMMA DispatchEffect ==
    ASSUME IInv, Dispatch
    PROVE  \E b \in Partial(Req, Outcome) :
             /\ inflight' = Append(inflight, b) /\ DOMAIN b = DOMAIN batch
             /\ \A r \in DOMAIN batch :
                  /\ b[r].rej \in Nat /\ b[r].rej <= batch[r].drafts
                  /\ b[r].drafts = batch[r].drafts /\ b[r].sampled = Advanced(r).decoding
             /\ worker' \in Partial(Req, States)
             /\ DOMAIN (worker') = (DOMAIN worker \ Removed) \cup DOMAIN batch
             /\ \A r \in DOMAIN batch :
                  /\ worker'[r].ids = request[r].table
                  /\ worker'[r].rows = Updated[r].rows + batch[r].sched - b[r].rej
             /\ \A r \in DOMAIN (worker') \ DOMAIN batch :
                  r \in DOMAIN worker /\ worker'[r] = worker[r]
             /\ unsettled' \in Partial(Req, Nat) /\ DOMAIN (unsettled') \subseteq DOMAIN (worker')
<1> DEFINE s == Updated
<1>1. TypesInv /\ QueuesInv /\ RequestInv /\ BatchInv
  BY DEF IInv
<1>2. /\ s = [r \in DOMAIN s |-> s[r]]
      /\ DOMAIN s = (DOMAIN worker \ Removed) \cup DOMAIN batch
      /\ DOMAIN s \subseteq Req
      /\ \A r \in DOMAIN s : s[r] \in States
      /\ \A r \in DOMAIN batch : s[r].ids = request[r].table
      /\ \A r \in DOMAIN s \ DOMAIN batch : r \in DOMAIN worker /\ s[r] = worker[r]
  BY <1>1, UpdatedStates
<1>3. unsettled = NoBatch
  BY DEF Dispatch, MayDispatch
<1>4. CASE batch = NoBatch
  <2>1. worker' = s /\ inflight' = Append(inflight, NoBatch) /\ unsettled' = unsettled
    BY <1>4 DEF Dispatch, ReturnEmpty
  <2>2. /\ NoBatch \in Partial(Req, Outcome) /\ NoBatch \in Partial(Req, Nat)
        /\ DOMAIN NoBatch = {}
    BY NoPartial
  <2> HIDE DEF s
  <2>3. worker' \in Partial(Req, States)
    BY <1>2, <2>1, PartialDef
  <2>4. /\ \A r \in DOMAIN batch : FALSE
        /\ DOMAIN NoBatch = DOMAIN batch /\ DOMAIN (unsettled') = {}
    BY <1>3, <1>4, <2>1, <2>2
  <2> HIDE DEF NoBatch
  <2> QED
    BY <1>2, <1>3, <2>1, <2>2, <2>3, <2>4
<1>5. CASE batch # NoBatch
  <2>1. PrepareAndForward(s, BlockFills')
    BY <1>5 DEF Dispatch
  <2> HIDE DEF s
  <2>2. PICK rej \in [DOMAIN batch -> 0 .. Lookahead] :
            /\ \A r \in DOMAIN batch : rej[r] <= batch[r].drafts
            /\ worker' = [r \in DOMAIN s |->
                  IF r \in DOMAIN batch
                  THEN [s[r] EXCEPT !.rows = @ + batch[r].sched - rej[r]]
                  ELSE s[r]]
            /\ unsettled' = [r \in DOMAIN batch |->
                  batch[r].start + batch[r].sched - rej[r]]
            /\ inflight' = Append(inflight, [r \in DOMAIN batch |->
                  [drafts |-> batch[r].drafts, rej |-> rej[r],
                   sampled |-> Advanced(r).decoding]])
    BY <2>1 DEF PrepareAndForward
  <2> DEFINE b == [r \in DOMAIN batch |->
                    [drafts |-> batch[r].drafts, rej |-> rej[r],
                     sampled |-> Advanced(r).decoding]]
  <2>3. ASSUME NEW r \in DOMAIN batch
        PROVE  /\ batch[r].start \in Nat /\ batch[r].sched \in Nat /\ batch[r].drafts \in Nat
               /\ batch[r].drafts <= Lookahead /\ batch[r].drafts <= batch[r].sched
               /\ rej[r] \in Nat /\ rej[r] <= batch[r].drafts
               /\ Advanced(r).decoding \in BOOLEAN /\ r \in Req
    <3>1. /\ batch[r].start \in Nat /\ batch[r].sched \in Nat /\ batch[r].drafts \in Nat
          /\ Advanced(r).decoding \in BOOLEAN /\ r \in Req
      BY <1>1, AdvancedCounts
    <3> QED
      BY <1>1, <2>2, <3>1, ServingAssumption DEF BatchInv
  <2>4. /\ DOMAIN b = DOMAIN batch /\ b = [r \in DOMAIN b |-> b[r]]
        /\ \A r \in DOMAIN batch :
            /\ b[r].rej = rej[r] /\ b[r].drafts = batch[r].drafts
            /\ b[r].sampled = Advanced(r).decoding
            /\ b[r] = [drafts |-> batch[r].drafts, rej |-> rej[r],
                       sampled |-> Advanced(r).decoding]
    OBVIOUS
  <2>5. inflight' = Append(inflight, b)
    BY <2>2
  <2> HIDE DEF b
  <2>6. b \in Partial(Req, Outcome)
    <3>1. \A r \in DOMAIN b : b[r] \in Outcome
      BY <2>3, <2>4, ServingAssumption DEF Outcome
    <3>2. DOMAIN b \subseteq Req
      BY <2>3, <2>4
    <3> QED
      BY <2>4, <3>1, <3>2, PartialDef
  <2>7. /\ DOMAIN (worker') = DOMAIN s /\ worker' = [r \in DOMAIN (worker') |-> worker'[r]]
        /\ \A r \in DOMAIN s \ DOMAIN batch : worker'[r] = s[r]
    BY <2>2
  <2>8. ASSUME NEW r \in DOMAIN batch
        PROVE  /\ worker'[r].ids = s[r].ids
               /\ worker'[r].rows = s[r].rows + batch[r].sched - rej[r]
               /\ worker'[r] \in States
    <3>1. r \in DOMAIN s /\ s[r] \in States
      BY <1>2
    <3>2. worker'[r] = [s[r] EXCEPT !.rows = s[r].rows + batch[r].sched - rej[r]]
      BY <2>2, <3>1
    <3>3. s[r].rows \in Nat
      BY <3>1 DEF States
    <3>4. s[r].rows + batch[r].sched - rej[r] \in Nat
      BY <2>3, <3>3
    <3> QED
      BY <3>1, <3>2, <3>4 DEF States
  <2>9. worker' \in Partial(Req, States)
    <3>1. \A r \in DOMAIN (worker') : worker'[r] \in States
      BY <1>2, <2>7, <2>8
    <3> QED
      BY <1>2, <2>7, <3>1, PartialDef
  <2>10. unsettled' \in Partial(Req, Nat) /\ DOMAIN (unsettled') = DOMAIN batch
    <3>1. DOMAIN (unsettled') = DOMAIN batch /\ unsettled' = [r \in DOMAIN (unsettled') |-> unsettled'[r]]
      BY <2>2
    <3>2. \A r \in DOMAIN batch : unsettled'[r] \in Nat
      <4> SUFFICES ASSUME NEW r \in DOMAIN batch PROVE unsettled'[r] \in Nat
        OBVIOUS
      <4>1. unsettled'[r] = batch[r].start + batch[r].sched - rej[r]
        BY <2>2
      <4> QED
        BY <2>3, <4>1
    <3>3. DOMAIN batch \subseteq Req
      BY <2>3
    <3> QED
      BY <3>1, <3>2, <3>3, PartialDef
  <2>11. \A r \in DOMAIN batch :
            /\ b[r].rej \in Nat /\ b[r].rej <= batch[r].drafts
            /\ worker'[r].ids = request[r].table
            /\ worker'[r].rows = s[r].rows + batch[r].sched - b[r].rej
    BY <1>2, <2>3, <2>4, <2>8
  <2>12. \A r \in DOMAIN (worker') \ DOMAIN batch :
            r \in DOMAIN worker /\ worker'[r] = worker[r]
    BY <1>2, <2>7
  <2>13. /\ DOMAIN (worker') = (DOMAIN worker \ Removed) \cup DOMAIN batch
         /\ DOMAIN (unsettled') \subseteq DOMAIN (worker')
    BY <1>2, <2>7, <2>10
  <2> QED
    BY <2>4, <2>5, <2>6, <2>9, <2>10, <2>11, <2>12, <2>13 DEF s
<1> QED
  BY <1>4, <1>5

\* The blocks a request still owns after the dispatch, and the tracker with it.
LEMMA DispatchTracked ==
    ASSUME IInv, Dispatch
    PROVE  /\ \A r \in Req : Own(r)' = Left(r) /\ Own(r)' \subseteq Block
           /\ TrackedInv'
           /\ DOMAIN BlockFills' \subseteq Block
           /\ DOMAIN BlockFills' = DOMAIN (stepBlocks') \cup
                UNION {DOMAIN requestBlocks'[r] \cup DOMAIN epochBlocks'[r] : r \in Req}
<1>1. PICK b \in Partial(Req, Outcome) :
             /\ worker' \in Partial(Req, States)
             /\ DOMAIN (worker') = (DOMAIN worker \ Removed) \cup DOMAIN batch
             /\ \A r \in DOMAIN batch : worker'[r].ids = request[r].table
             /\ \A r \in DOMAIN (worker') \ DOMAIN batch :
                  r \in DOMAIN worker /\ worker'[r] = worker[r]
  BY DispatchEffect
<1>2. ASSUME NEW r \in Req PROVE Own(r)' = Left(r)
  <2>1. CASE r \in DOMAIN batch
    BY <1>1, <2>1 DEF Own, Left
  <2>2. CASE r \notin DOMAIN batch /\ r \in DOMAIN (worker')
    BY <1>1, <2>2 DEF Own, Left
  <2>3. CASE r \notin DOMAIN (worker')
    BY <1>1, <2>3 DEF Own, Left
  <2> QED
    BY <2>1, <2>2, <2>3
<1>3. ASSUME NEW r \in Req PROVE Own(r)' \subseteq Block
  <2>1. ASSUME r \in DOMAIN (worker') PROVE worker'[r].ids \in Seq(Block)
    <3>1. worker'[r] \in States
      BY <1>1, <2>1, PartialParts
    <3> QED
      BY <3>1 DEF States
  <2> QED
    BY <2>1, SeqItems DEF Own
<1>4. /\ DOMAIN (requestBlocks') = Req /\ DOMAIN (epochBlocks') = Req
      /\ DOMAIN (resolvedBlocks') = Req /\ DOMAIN (pendingBlocks') = Req
      /\ stepBlocks' \in Fillings(Block)
      /\ \A r \in Req :
            /\ requestBlocks'[r] \in Fillings(Left(r)) /\ epochBlocks'[r] \in Fillings(Left(r))
            /\ resolvedBlocks'[r] = NoBlocks /\ pendingBlocks'[r] \in Placings(Left(r))
  BY DispatchTracks
<1>5. TrackedInv'
  <2>1. \A r \in Req : NoBlocks \in Fillings(Own(r)')
    BY NoFillings
  <2> QED
    BY <1>2, <1>4, <2>1 DEF TrackedInv
<1>6. ASSUME NEW r \in Req
      PROVE  /\ requestBlocks'[r] \in Fillings(Block) /\ epochBlocks'[r] \in Fillings(Block)
             /\ resolvedBlocks'[r] \in Fillings(Block) /\ DOMAIN resolvedBlocks'[r] = {}
  BY <1>2, <1>3, <1>4, FillingMonotone, NoFillings
<1>7. /\ MergeAll(requestBlocks') \in Fillings(Block)
      /\ DOMAIN MergeAll(requestBlocks') = UNION {DOMAIN requestBlocks'[r] : r \in Req}
      /\ MergeAll(epochBlocks') \in Fillings(Block)
      /\ DOMAIN MergeAll(epochBlocks') = UNION {DOMAIN epochBlocks'[r] : r \in Req}
      /\ MergeAll(resolvedBlocks') \in Fillings(Block)
      /\ DOMAIN MergeAll(resolvedBlocks') = UNION {DOMAIN resolvedBlocks'[r] : r \in Req}
  <2>1. /\ MergeAll(requestBlocks') \in Fillings(Block)
        /\ DOMAIN MergeAll(requestBlocks')
             = UNION {DOMAIN requestBlocks'[r] : r \in DOMAIN (requestBlocks')}
    BY <1>4, <1>6, MergeAllFilling
  <2>2. /\ MergeAll(epochBlocks') \in Fillings(Block)
        /\ DOMAIN MergeAll(epochBlocks')
             = UNION {DOMAIN epochBlocks'[r] : r \in DOMAIN (epochBlocks')}
    BY <1>4, <1>6, MergeAllFilling
  <2>3. /\ MergeAll(resolvedBlocks') \in Fillings(Block)
        /\ DOMAIN MergeAll(resolvedBlocks')
             = UNION {DOMAIN resolvedBlocks'[r] : r \in DOMAIN (resolvedBlocks')}
    BY <1>4, <1>6, MergeAllFilling
  <2> QED
    BY <1>4, <2>1, <2>2, <2>3
<1>8. /\ DOMAIN BlockFills' \subseteq Block
      /\ DOMAIN BlockFills' = (DOMAIN (stepBlocks') \cup DOMAIN MergeAll(requestBlocks'))
                \cup (DOMAIN MergeAll(epochBlocks') \cup DOMAIN MergeAll(resolvedBlocks'))
  <2> DEFINE f == Merge(stepBlocks', MergeAll(requestBlocks'))
             g == Merge(MergeAll(epochBlocks'), MergeAll(resolvedBlocks'))
  <2>1. /\ f \in Fillings(Block)
        /\ DOMAIN f = DOMAIN (stepBlocks') \cup DOMAIN MergeAll(requestBlocks')
    <3>1. stepBlocks' \in Fillings(Block) /\ MergeAll(requestBlocks') \in Fillings(Block)
      BY <1>4, <1>7
    <3> QED
      BY <3>1, MergeFilling
  <2>2. /\ g \in Fillings(Block)
        /\ DOMAIN g = DOMAIN MergeAll(epochBlocks') \cup DOMAIN MergeAll(resolvedBlocks')
    BY <1>7, MergeFilling
  <2>3. BlockFills' = Merge(f, g)
    BY DEF BlockFills
  <2> HIDE DEF f, g
  <2>4. Merge(f, g) \in Fillings(Block) /\ DOMAIN Merge(f, g) = DOMAIN f \cup DOMAIN g
    BY <2>1, <2>2, MergeFilling
  <2> QED
    BY <2>1, <2>2, <2>3, <2>4, FillingParts
<1>9. DOMAIN BlockFills' = DOMAIN (stepBlocks') \cup
                UNION {DOMAIN requestBlocks'[r] \cup DOMAIN epochBlocks'[r] : r \in Req}
  <2>1. UNION {DOMAIN resolvedBlocks'[r] : r \in Req} = {}
    BY <1>6
  <2>2. UNION {DOMAIN requestBlocks'[r] \cup DOMAIN epochBlocks'[r] : r \in Req}
          = (UNION {DOMAIN requestBlocks'[r] : r \in Req})
                \cup UNION {DOMAIN epochBlocks'[r] : r \in Req}
    OBVIOUS
  <2> QED
    BY <1>7, <1>8, <2>1, <2>2
<1> QED
  BY <1>2, <1>3, <1>5, <1>8, <1>9

\* The rows a step stores are in blocks of the snapshot published before it.
LEMMA NothingDropped ==
    ASSUME IInv, Dispatch
    PROVE  /\ dropped' = {}
           /\ needed' \subseteq Block /\ full' \subseteq needed'
           /\ needed' = needed \/ needed' = DOMAIN BlockFills'
<1>1. dropped = {} /\ needed \subseteq Block /\ full \subseteq needed
  BY DEF IInv, RowsNeverDropped, TypesInv
<1>2. CASE batch = NoBatch
  <2>1. dropped' = dropped /\ needed' = needed /\ full' = full
    BY <1>2 DEF Dispatch, ReturnEmpty
  <2> QED
    BY <1>1, <2>1
<1>3. CASE batch # NoBatch
  <2> DEFINE F == DOMAIN BlockFills'
             s == Updated
  <2>1. PrepareAndForward(s, BlockFills')
    BY <1>3 DEF Dispatch
  <2>2. /\ needed' = F /\ full' = Published(BlockFills') \ (needed \ F)
        /\ dropped' = dropped \cup ((UNION {Written(r, s[r]) : r \in DOMAIN batch}) \ F)
    BY <2>1 DEF PrepareAndForward
  <2>3. Published(BlockFills') \subseteq F \cup (full \ F)
    BY DEF Published
  <2>4. full' \subseteq needed'
    BY <1>1, <2>2, <2>3
  <2>5. F \subseteq Block
    BY DispatchTracked
  <2>6. ASSUME NEW r \in DOMAIN batch PROVE Written(r, s[r]) \subseteq F
    <3> DEFINE scheduled == [x \in DOMAIN batch |-> Entry(x, request[x].table)]
               e == Entry(r, request[r].table)
               w == s[r]
               to == w.rows + batch[r].sched + Lookahead
    <3>1. phase = "scheduling" /\ Update(Removed, scheduled)
      BY DEF Dispatch, MayDispatch
    <3>2. r \in DOMAIN scheduled /\ scheduled[r] = e
      OBVIOUS
    <3>3. Written(r, w) = BlocksOf(w.ids, w.rows, to)
      BY DEF Written
    <3>4. batch[r].sched \in Nat /\ Lookahead \in Nat
      BY AdvancedCounts, ServingAssumption DEF IInv
    <3> HIDE DEF scheduled, e
    <3>5. /\ w.ids = e.table /\ e.table \in Seq(Block)
          /\ MinStart(e) \in Nat /\ MaxEnd(e) \in Nat
          /\ w.rows \in Nat /\ MinStart(e) <= w.rows /\ to <= MaxEnd(e)
      BY <3>1, BatchEntry DEF e
    <3>6. to \in Nat
      BY <3>4, <3>5
    <3> HIDE DEF w, to, s
    <3>7. BlocksOf(e.table, w.rows, to) \subseteq {e.table[k + 1] : k \in Touched(e)}
      BY <3>5, <3>6, WrittenAreTouched
    <3>8. {e.table[k + 1] : k \in Touched(e)} \subseteq F
      <4>1. {scheduled[r].table[k + 1] : k \in Touched(scheduled[r])} \subseteq DOMAIN BlockFills'
        BY <3>1, <3>2, TouchedInSnapshot
      <4> QED
        BY <3>2, <4>1
    <3> QED
      BY <3>3, <3>5, <3>7, <3>8 DEF w
  <2> HIDE DEF F, s
  <2>7. (UNION {Written(r, s[r]) : r \in DOMAIN batch}) \ F = {}
    BY <2>6
  <2> QED
    BY <1>1, <2>2, <2>4, <2>5, <2>7 DEF F
<1> QED
  BY <1>2, <1>3

LEMMA DispatchInv ==
    ASSUME IInv, Dispatch
    PROVE  IInv'
<1>1. /\ phase = "scheduling" /\ async' = async /\ running' = running /\ waiting' = waiting
      /\ cachedAt' = cachedAt /\ batch' = NoBatch /\ tokenBudget' = 0 /\ phase' = "idle"
      /\ finished' = {} /\ preempted' = {}
      /\ request' = [r \in Req |-> IF r \in DOMAIN batch THEN Advanced(r) ELSE request[r]]
  BY DEF Dispatch, MayDispatch, queues
<1>2. TypesInv /\ QueuesInv /\ FlightInv /\ RequestInv /\ CountInv /\ BatchInv /\ TablesInv
  BY DEF IInv
<1>3. PICK b \in Partial(Req, Outcome) :
             /\ inflight' = Append(inflight, b) /\ DOMAIN b = DOMAIN batch
             /\ \A r \in DOMAIN batch :
                  /\ b[r].rej \in Nat /\ b[r].rej <= batch[r].drafts
                  /\ b[r].drafts = batch[r].drafts /\ b[r].sampled = Advanced(r).decoding
             /\ worker' \in Partial(Req, States)
             /\ DOMAIN (worker') = (DOMAIN worker \ Removed) \cup DOMAIN batch
             /\ \A r \in DOMAIN batch :
                  /\ worker'[r].ids = request[r].table
                  /\ worker'[r].rows = Updated[r].rows + batch[r].sched - b[r].rej
             /\ \A r \in DOMAIN (worker') \ DOMAIN batch :
                  r \in DOMAIN worker /\ worker'[r] = worker[r]
             /\ unsettled' \in Partial(Req, Nat) /\ DOMAIN (unsettled') \subseteq DOMAIN (worker')
  BY DispatchEffect
<1>4. Running' = Running /\ Unfinished' = Unfinished /\ Depth' = Depth
      /\ Range(waiting)' = Range(waiting)
  BY <1>1 DEF Running, Unfinished, Depth
<1>5. NoBatch \in Partial(Req, Grant) /\ DOMAIN NoBatch = {}
  BY NoPartial
<1>6. ASSUME NEW r \in DOMAIN batch
      PROVE  /\ batch[r].start \in Nat /\ batch[r].sched \in Nat /\ batch[r].drafts \in Nat
             /\ r \in Running /\ r \in Req /\ r \notin Removed
             /\ request'[r] \in Counters /\ request'[r].total = request[r].total
             /\ request'[r].table = request[r].table
             /\ request'[r].computed = request[r].computed + batch[r].sched
             /\ b[r].sampled = (request[r].computed + batch[r].sched
                                    >= request[r].total + request[r].placeholders)
             /\ b[r].sampled \in BOOLEAN
             /\ request'[r].placeholders
                  = IF b[r].sampled /\ async
                    THEN request[r].placeholders + 1 + batch[r].drafts ELSE request[r].placeholders
             /\ batch[r].drafts > 0 => b[r].sampled
  <2>1. r \in Req
    BY <1>2, AdvancedCounts
  <2>2. request'[r] = Advanced(r) /\ b[r].sampled = Advanced(r).decoding
    BY <1>1, <1>3, <2>1
  <2> QED
    BY <1>2, <2>2, AdvancedCounts
<1>7. \A r \in Req \ DOMAIN batch : request'[r] = request[r]
  BY <1>1
<1>8. ASSUME NEW r
      PROVE  /\ Awaiting(r)' = Awaiting(r) + (IF r \in DOMAIN batch /\ b[r].sampled
                                              THEN 1 + b[r].drafts ELSE 0)
             /\ Behind(r)' = Behind(r) + (IF r \in DOMAIN batch THEN b[r].rej ELSE 0)
             /\ Awaiting(r) \in Nat /\ Behind(r) \in Nat
             /\ ~async => Awaiting(r) = 0
  <2>1. /\ Awaiting(r)' = Awaiting(r) + (IF r \in DOMAIN b /\ b[r].sampled
                                         THEN 1 + b[r].drafts ELSE 0)
        /\ Behind(r)' = Behind(r) + (IF r \in DOMAIN b THEN b[r].rej ELSE 0)
    BY <1>1, <1>2, <1>3, JoinsFlight
  <2>2. /\ Awaiting(r) \in Nat /\ Behind(r) \in Nat /\ (~async => Awaiting(r) = 0)
    BY <1>1, <1>2, FlightSums, ServingAssumption
  <2> QED
    BY <1>3, <2>1, <2>2
<1>9. DOMAIN batch \subseteq Running /\ Running \subseteq Req /\ Unfinished \subseteq Req
  BY <1>2, <1>6, RunningTypes
<1>10. dropped' = {} /\ needed' \subseteq Block /\ full' \subseteq needed'
  BY NothingDropped
<1>11. TypesInv'
  <2>1. request' \in [Req -> Counters]
    <3>1. \A r \in Req : request'[r] \in Counters
      BY <1>2, <1>6, <1>7 DEF TypesInv
    <3> QED
      BY <1>1, <3>1
  <2>2. inflight' \in Seq(Partial(Req, Outcome))
    BY <1>2, <1>3 DEF TypesInv
  <2>3. tokenBudget' \in 0 .. Budget
    BY <1>1, ServingAssumption
  <2>4. /\ async' \in BOOLEAN /\ running' \in Seq(Req) /\ waiting' \in Seq(Req)
        /\ cachedAt' \in [Block -> 0 .. Cardinality(Block)]
    BY <1>1, <1>2 DEF TypesInv
  <2> QED
    BY <1>1, <1>3, <1>5, <1>10, <2>1, <2>2, <2>3, <2>4 DEF TypesInv
<1>12. QueuesInv'
  BY <1>1, <1>2, <1>4, <1>5 DEF QueuesInv
<1>13. FlightInv'
  <2> DEFINE n == Len(inflight)
  <2>1. /\ n \in {0, 1} /\ (n = 1 => Depth = 2) /\ n + 1 <= Depth
    <3>1. n \in Nat /\ async \in BOOLEAN /\ n < Depth
      BY <1>1, <1>2 DEF TypesInv, FlightInv
    <3> HIDE DEF n
    <3> QED
      BY <3>1 DEF Depth
  <2>2. /\ DOMAIN inflight = 1 .. n /\ DOMAIN (inflight') = 1 .. n + 1 /\ Len(inflight') = n + 1
        /\ inflight'[n + 1] = b /\ \A i \in 1 .. n : inflight'[i] = inflight[i]
    BY <1>2, <1>3 DEF TypesInv
  <2>3. ASSUME NEW i \in DOMAIN (inflight'), NEW r \in DOMAIN (inflight'[i])
        PROVE  /\ inflight'[i][r].rej <= inflight'[i][r].drafts
               /\ ~inflight'[i][r].sampled => inflight'[i][r].drafts = 0
               /\ r \in Range(waiting) => i = 1 /\ n + 1 = Depth
    <3> HIDE DEF n
    <3>1. CASE i = n + 1
      <4>1. inflight'[i] = b /\ r \in DOMAIN batch
        BY <1>3, <2>2, <2>3, <3>1
      <4>2. r \notin Range(waiting)
        BY <1>2, <1>9, <4>1 DEF QueuesInv
      <4>3. ~b[r].sampled => b[r].drafts = 0
        <5>1. b[r].drafts = batch[r].drafts /\ batch[r].drafts \in Nat
              /\ (batch[r].drafts > 0 => b[r].sampled)
          BY <1>3, <1>6, <4>1
        <5> QED
          BY <5>1
      <4>4. b[r].rej <= b[r].drafts
        BY <1>3, <4>1
      <4> QED
        BY <4>1, <4>2, <4>3, <4>4
    <3>2. CASE i # n + 1
      <4>1. i \in 1 .. n /\ n = 1 /\ i = 1 /\ n + 1 = Depth
        BY <2>1, <2>2, <3>2
      <4>2. i \in DOMAIN inflight /\ inflight'[i] = inflight[i]
        BY <2>2, <4>1
      <4> QED
        BY <1>2, <2>3, <4>1, <4>2 DEF FlightInv
    <3> QED
      BY <3>1, <3>2
  <2>4. DOMAIN (worker') \subseteq Running
    <3>1. DOMAIN worker \subseteq Running \cup finished \cup preempted
      BY <1>2 DEF FlightInv
    <3> QED
      BY <1>3, <1>9, <3>1 DEF Removed
  <2>5. \A r \in Running : r \in DOMAIN (worker')
    <3>1. \A r \in Running : r \notin Removed
      BY <1>2 DEF QueuesInv, Removed, Unfinished
    <3>2. \A r \in Running : r \in DOMAIN worker \/ r \in DOMAIN batch
      BY <1>2 DEF FlightInv
    <3> QED
      BY <1>3, <3>1, <3>2
  <2> HIDE DEF n
  <2> QED
    BY <1>1, <1>4, <2>1, <2>2, <2>3, <2>4, <2>5 DEF FlightInv
<1>14. RequestInv'
  <2>1. \A r \in Req \ Unfinished : request'[r] = Idle
    BY <1>2, <1>7, <1>9 DEF RequestInv, Unfinished
  <2>2. \A r \in Range(waiting) : request'[r].computed = 0
    <3>1. \A r \in Range(waiting) : r \in Req \ DOMAIN batch
      BY <1>2, <1>9, RunningTypes DEF QueuesInv
    <3> QED
      BY <1>2, <1>7, <3>1 DEF RequestInv
  <2>3. ASSUME NEW r \in Unfinished
        PROVE  /\ request'[r].total \in 1 .. Limit
               /\ request'[r].placeholders = (IF async THEN Awaiting(r)' ELSE 0)
               /\ request'[r].computed <= request'[r].total + Awaiting(r)'
               /\ request'[r].computed <= MaxLen
    <3>1. /\ request[r].total \in 1 .. Limit
          /\ request[r].placeholders = (IF async THEN Awaiting(r) ELSE 0)
          /\ request[r].computed <= request[r].total + Awaiting(r)
          /\ request[r].computed <= MaxLen
      BY <1>2 DEF RequestInv
    <3>2. r \in Req /\ async \in BOOLEAN
      BY <1>2, <1>9 DEF TypesInv
    <3>3. CASE r \notin DOMAIN batch
      <4>1. request'[r] = request[r] /\ Awaiting(r)' = Awaiting(r)
        BY <1>7, <1>8, <3>2, <3>3
      <4> QED
        BY <3>1, <4>1
    <3>4. CASE r \in DOMAIN batch
      <4> DEFINE c == request[r].computed  t == request[r].total  p == request[r].placeholders
                 n == batch[r].sched  d == batch[r].drafts  a == Awaiting(r)
                 z == b[r].sampled
      <4>1. c \in Nat /\ t \in Nat /\ p \in Nat /\ n \in Nat /\ d \in Nat /\ a \in Nat
            /\ z \in BOOLEAN
        BY <1>2, <1>6, <1>8, <3>2, <3>4, RequestTypes
      <4>2. /\ z = (c + n >= t + p) /\ (d > 0 => z)
            /\ c + n <= t + p + d /\ c + n <= MaxLen
            /\ p = (IF async THEN a ELSE 0) /\ (~async => a = 0)
        <5>1. /\ batch[r].start = c /\ batch[r].start + n <= MaxLen
              /\ batch[r].start + n <= t + p + d
          BY <1>2, <3>4 DEF BatchInv
        <5>2. z = (c + n >= t + p) /\ (d > 0 => z)
          BY <1>6, <3>4
        <5> QED
          BY <1>8, <3>1, <5>1, <5>2
      <4>3. /\ request'[r].computed = c + n /\ request'[r].total = t
            /\ request'[r].placeholders = IF z /\ async THEN p + 1 + d ELSE p
        BY <1>6, <3>4
      <4>4. Awaiting(r)' = a + (IF z THEN 1 + d ELSE 0)
        BY <1>3, <1>8, <3>4
      <4> HIDE DEF c, t, p, n, d, a, z
      <4>5. (IF z /\ async THEN p + 1 + d ELSE p)
                = (IF async THEN a + (IF z THEN 1 + d ELSE 0) ELSE 0)
        BY <3>2, <4>1, <4>2
      <4>6. c + n <= t + (a + (IF z THEN 1 + d ELSE 0))
        <5>1. CASE z
          BY <3>2, <4>1, <4>2, <5>1
        <5>2. CASE ~z
          BY <3>2, <4>1, <4>2, <5>2
        <5> QED
          BY <4>1, <5>1, <5>2
      <4> QED
        BY <3>1, <4>2, <4>3, <4>4, <4>5, <4>6 DEF t
    <3> QED
      BY <3>3, <3>4
  <2> QED
    BY <1>1, <1>4, <2>1, <2>2, <2>3 DEF RequestInv, Limit
<1>15. CountInv'
  <2>1. ASSUME NEW r \in Running, r \in DOMAIN (worker')
        PROVE  request'[r].computed = worker'[r].rows + Behind(r)'
    <3>1. CASE r \in DOMAIN batch
      <4> DEFINE w == Updated[r].rows
      <4>1. w \in Nat /\ request[r].computed = w + Behind(r)
        BY <1>1, <3>1, BatchEntry
      <4>2. /\ request'[r].computed = request[r].computed + batch[r].sched
            /\ batch[r].sched \in Nat /\ b[r].rej \in Nat
            /\ worker'[r].rows = w + batch[r].sched - b[r].rej
        BY <1>3, <1>6, <3>1
      <4>3. Behind(r)' = Behind(r) + b[r].rej /\ Behind(r) \in Nat
        BY <1>8, <3>1
      <4> HIDE DEF w
      <4> QED
        BY <4>1, <4>2, <4>3
    <3>2. CASE r \notin DOMAIN batch
      <4>1. r \in DOMAIN worker /\ worker'[r] = worker[r] /\ request'[r] = request[r]
            /\ Behind(r)' = Behind(r)
        BY <1>3, <1>7, <1>8, <1>9, <2>1, <3>2
      <4> QED
        BY <1>2, <2>1, <4>1 DEF CountInv
    <3> QED
      BY <3>1, <3>2
  <2> QED
    BY <1>4, <2>1 DEF CountInv
<1>16. BatchInv'
  BY <1>1, <1>5 DEF BatchInv
<1>17. TablesInv'
  <2>1. \A r \in Req : request'[r].table = request[r].table
    BY <1>6, <1>7
  <2>2. ASSUME NEW r \in Running, r \in DOMAIN (worker')
        PROVE  Range(worker'[r].ids) \subseteq Range(request[r].table)
    <3>1. CASE r \in DOMAIN batch
      BY <1>3, <3>1
    <3>2. CASE r \notin DOMAIN batch
      BY <1>2, <1>3, <2>2, <3>2 DEF TablesInv
    <3> QED
      BY <3>1, <3>2
  <2> QED
    BY <1>2, <1>4, <1>9, <2>1, <2>2 DEF TablesInv, BlocksFor
<1>18. TrackedInv'
  BY DispatchTracked
<1> QED
  BY <1>10, <1>11, <1>12, <1>13, <1>14, <1>15, <1>16, <1>17, <1>18 DEF IInv, RowsNeverDropped

LEMMA NextInv == IInv /\ [Next]_vars => IInv'
<1> SUFFICES ASSUME IInv, [Next]_vars PROVE IInv'
  OBVIOUS
<1>1. CASE UNCHANGED vars
  <2>1. /\ async' = async /\ request' = request /\ running' = running /\ waiting' = waiting
        /\ cachedAt' = cachedAt /\ batch' = batch /\ tokenBudget' = tokenBudget
        /\ phase' = phase /\ finished' = finished /\ preempted' = preempted
        /\ inflight' = inflight /\ UNCHANGED <<runner, tracker>>
    BY <1>1 DEF vars, scheduler, queues
  <2>2. /\ worker' = worker /\ unsettled' = unsettled /\ needed' = needed /\ full' = full
        /\ dropped' = dropped
    BY <2>1 DEF runner
  <2>3. Running' = Running /\ Unfinished' = Unfinished /\ Depth' = Depth /\ InFlight' = InFlight
    BY <2>1 DEF Running, Unfinished, Depth, InFlight
  <2>4. \A r : Awaiting(r)' = Awaiting(r) /\ Behind(r)' = Behind(r)
    BY <2>1, SameFlight
  <2>5. \A r : Schedulable(r)' = Schedulable(r)
    BY <2>1, <2>3 DEF Schedulable
  <2>6. TypesInv' /\ QueuesInv' /\ FlightInv'
    <3>1. TypesInv'
      BY <2>1, <2>2 DEF IInv, TypesInv
    <3>2. QueuesInv'
      BY <2>1, <2>3, <2>5 DEF IInv, QueuesInv
    <3>3. FlightInv'
      BY <2>1, <2>2, <2>3 DEF IInv, FlightInv
    <3> QED
      BY <3>1, <3>2, <3>3
  <2>7. RequestInv' /\ CountInv' /\ BatchInv'
    <3>1. RequestInv'
      BY <2>1, <2>3, <2>4 DEF IInv, RequestInv
    <3>2. CountInv'
      BY <2>1, <2>2, <2>3, <2>4 DEF IInv, CountInv
    <3>3. BatchInv'
      BY <2>1 DEF IInv, BatchInv
    <3> QED
      BY <3>1, <3>2, <3>3
  <2>8. TablesInv'
    BY <2>1, <2>2, <2>3 DEF IInv, TablesInv
  <2>9. TrackedInv'
    BY <2>1, KeepsTracked DEF IInv
  <2> QED
    BY <2>2, <2>6, <2>7, <2>8, <2>9 DEF IInv, RowsNeverDropped
<1>2. CASE Next
  <2>1. CASE StartStep
    BY <2>1, StartStepInv
  <2>2. CASE ScheduleRunning
    BY <2>2, ScheduleRunningInv
  <2>3. CASE Preempt
    BY <2>3, PreemptInv
  <2>4. CASE Resume
    BY <2>4, ResumeInv
  <2>5. CASE Dispatch
    BY <2>5, DispatchInv
  <2>6. CASE Settle
    BY <2>6, SettleInv
  <2>7. CASE Complete
    BY <2>7, CompleteInv
  <2>8. CASE \E r \in Req : AdmitNew(r) \/ Abort(r)
    <3>1. PICK r \in Req : AdmitNew(r) \/ Abort(r)
      BY <2>8
    <3> QED
      BY <3>1, AdmitNewInv, AbortInv
  <2> QED
    BY <1>2, <2>1, <2>2, <2>3, <2>4, <2>5, <2>6, <2>7, <2>8 DEF Next
<1> QED
  BY <1>1, <1>2

-----------------------------------------------------------------------------
(* The theorems. *)

\* The inductive invariant holds of every engine.
LEMMA AlwaysIInv == Spec => []IInv
  BY InitInv, NextInv, PTL DEF Spec

\* The scheduler's counters, its queues and tables, the queue of batches, the
\* worker's request states and the fills of the tracker keep their types and
\* stay inside the limits of the request, the queue and the cache.
THEOREM TypeTheorem == Spec => []TypeOK
<1>1. IInv => TypeOK
  <2> SUFFICES ASSUME IInv PROVE TypeOK
    OBVIOUS
  <2>1. TypesInv /\ QueuesInv /\ FlightInv /\ RequestInv /\ TrackedInv
    BY DEF IInv
  <2>2. request \in [Req -> Requests]
    <3>1. ASSUME NEW r \in Req PROVE request[r] \in Requests
      <4>1. /\ request[r].computed \in Nat /\ request[r].total \in Nat
            /\ request[r].placeholders \in Nat /\ request[r] \in Counters
        BY <2>1, RequestTypes
      <4>2. /\ request[r].computed <= MaxLen /\ request[r].total <= MaxLen
            /\ request[r].placeholders \in 0 .. 2 * (Lookahead + 1)
        <5>1. Lookahead \in Nat
          BY ServingAssumption
        <5>2. CASE r \in Unfinished
          <6>1. /\ request[r].total \in 1 .. Limit /\ request[r].computed <= MaxLen
                /\ request[r].placeholders = (IF async THEN Awaiting(r) ELSE 0)
            BY <2>1, <5>2 DEF RequestInv
          <6>2. Awaiting(r) \in 0 .. 2 * (Lookahead + 1)
            BY <2>1, FlightSums
          <6> QED
            BY <4>1, <5>1, <6>1, <6>2, LimitType
        <5>3. CASE r \notin Unfinished
          <6>1. request[r] = Idle
            BY <2>1, <5>3 DEF RequestInv
          <6> QED
            BY <5>1, <6>1, LimitType DEF Idle
        <5> QED
          BY <5>2, <5>3
      <4> QED
        BY <4>1, <4>2, LimitType DEF Counters, Requests
    <3> QED
      BY <2>1, <3>1 DEF TypesInv
  <2>3. IsInjective(running \o waiting) /\ Unfinished \subseteq Req
    <3>1. /\ running \in Seq(Req) /\ waiting \in Seq(Req) /\ IsInjective(running)
          /\ IsInjective(waiting) /\ Range(running) \cap Range(waiting) = {}
      BY <2>1 DEF TypesInv, QueuesInv, Running
    <3> QED
      BY <2>1, <3>1, Concatenation, RunningTypes
  <2>4. DOMAIN batch \subseteq Req /\ DOMAIN worker \subseteq Req
    BY <2>1, PartialParts DEF TypesInv
  <2>5. stepBlocks \in Fills
    BY <2>1 DEF TrackedInv, Fills, Fillings
  <2>6. ASSUME NEW r \in Req
        PROVE  /\ DOMAIN requestBlocks[r] \subseteq Block /\ DOMAIN epochBlocks[r] \subseteq Block
               /\ DOMAIN resolvedBlocks[r] \subseteq Block
               /\ DOMAIN pendingBlocks[r] \subseteq Block
    <3>1. ASSUME r \in DOMAIN worker PROVE worker[r].ids \in Seq(Block)
      <4>1. worker[r] \in States
        BY <2>1, <3>1, PartialParts DEF TypesInv
      <4> QED
        BY <4>1 DEF States
    <3>2. Own(r) \subseteq Block
      BY <3>1, SeqItems DEF Own
    <3>3. /\ requestBlocks[r] \in Fillings(Own(r)) /\ epochBlocks[r] \in Fillings(Own(r))
          /\ resolvedBlocks[r] \in Fillings(Own(r)) /\ pendingBlocks[r] \in Placings(Own(r))
      BY <2>1 DEF TrackedInv
    <3>4. /\ DOMAIN requestBlocks[r] \subseteq Own(r) /\ DOMAIN epochBlocks[r] \subseteq Own(r)
          /\ DOMAIN resolvedBlocks[r] \subseteq Own(r)
          /\ DOMAIN pendingBlocks[r] \subseteq Own(r)
      BY <3>3, FillingParts, PlacingParts
    <3> QED
      BY <3>2, <3>4
  <2>7. \A t \in {requestBlocks, epochBlocks, resolvedBlocks, pendingBlocks} :
            DOMAIN t = Req /\ \A r \in Req : DOMAIN t[r] \subseteq Block
    BY <2>1, <2>6 DEF TrackedInv
  <2>8. Len(inflight) <= Depth
    BY <2>1 DEF FlightInv
  <2> QED
    BY <2>1, <2>2, <2>3, <2>4, <2>5, <2>7, <2>8 DEF TypesInv, TypeOK
<1> QED
  BY <1>1, AlwaysIInv, PTL

\* Between two steps the scheduler's optimistic counters and the rows on the
\* GPU agree once the outcomes in flight are accounted for.
THEOREM CountersTheorem == Spec => []CountersAgree
<1>1. IInv => CountersAgree
  <2> SUFFICES ASSUME IInv, phase = "idle", NEW r \in Running
               PROVE  /\ request[r].computed = worker[r].rows + Rejected(1, r) + Rejected(2, r)
                      /\ async => request[r].placeholders = Sampled(1, r) + Sampled(2, r)
    BY DEF CountersAgree
  <2>1. TypesInv /\ QueuesInv /\ FlightInv /\ RequestInv /\ CountInv
    BY DEF IInv
  <2>2. r \in DOMAIN worker /\ r \in Unfinished
    BY <2>1, NoPartial DEF QueuesInv, FlightInv, Unfinished
  <2>3. request[r].computed = worker[r].rows + Behind(r)
    BY <2>1, <2>2 DEF CountInv
  <2>4. async => request[r].placeholders = Awaiting(r)
    BY <2>1, <2>2 DEF RequestInv
  <2>5. worker[r].rows \in Nat
    <3>1. worker[r] \in States
      BY <2>1, <2>2, PartialParts DEF TypesInv
    <3> QED
      BY <3>1 DEF States
  <2>6. Rejected(1, r) \in Nat /\ Rejected(2, r) \in Nat
    BY <2>1, FlightBounds, ServingAssumption
  <2> QED
    BY <2>3, <2>4, <2>5, <2>6 DEF Behind, Awaiting
<1> QED
  BY <1>1, AlwaysIInv, PTL

\* Whatever is scheduled, preempted, resumed, aborted and rejected, scatter
\* finds a slot for every row of every step.
THEOREM ScatterTheorem == Spec => []RowsNeverDropped
<1>1. IInv => RowsNeverDropped
  BY DEF IInv
<1> QED
  BY <1>1, AlwaysIInv, PTL

\* A block in the snapshot of a step belongs to a request the worker knows
\* after the step, or to one that leaves in it: the slots of dead requests are
\* free again one step later.
THEOREM SlotsReturnTheorem == Spec => DeadBlocksLeave
<1>1. ASSUME IInv, Dispatch, batch # NoBatch, NEW b \in needed'
      PROVE  \/ \E r \in DOMAIN worker' : b \in Range(worker'[r].ids)
             \/ \E r \in DOMAIN worker \cap Removed : b \in Range(worker[r].ids)
  <2>1. TablesInv /\ QueuesInv
    BY <1>1 DEF IInv
  <2>2. b \in DOMAIN BlockFills'
    BY <1>1 DEF Dispatch, PrepareAndForward
  <2>3. PICK f \in Partial(Req, Outcome) :
            DOMAIN (worker') = (DOMAIN worker \ Removed) \cup DOMAIN batch
    BY <1>1, DispatchEffect
  <2>4. DOMAIN worker \subseteq Req /\ DOMAIN batch \subseteq Req
    BY <1>1, PartialParts DEF IInv, TypesInv
  <2>5. \A r \in Req : Own(r)' = Left(r)
    BY <1>1, DispatchTracked
  <2>6. ASSUME NEW r \in Req, b \in Left(r)
        PROVE  \E x \in DOMAIN worker' : b \in Range(worker'[x].ids)
    <3>1. b \in Own(r)'
      BY <2>5, <2>6
    <3> QED
      BY <3>1 DEF Own
  <2>7. CASE \E r \in Req : b \in DOMAIN requestBlocks'[r] \cup DOMAIN epochBlocks'[r]
    <3>1. PICK r \in Req : b \in DOMAIN requestBlocks'[r] \cup DOMAIN epochBlocks'[r]
      BY <2>7
    <3>2. /\ requestBlocks'[r] \in Fillings(Left(r)) /\ epochBlocks'[r] \in Fillings(Left(r))
      BY <1>1, DispatchTracks
    <3>3. b \in Left(r)
      BY <3>1, <3>2, FillingParts
    <3> QED
      BY <2>6, <3>3
  <2>8. CASE \E r \in DOMAIN batch : b \in Range(request[r].table)
    <3>1. PICK r \in DOMAIN batch : b \in Range(request[r].table)
      BY <2>8
    <3>2. r \in Req /\ b \in Left(r)
      BY <2>4, <3>1 DEF Left
    <3> QED
      BY <2>6, <3>2
  <2>9. CASE \E r \in DOMAIN worker : b \in Own(r)
    <3>1. PICK r \in DOMAIN worker : b \in Own(r)
      BY <2>9
    <3>2. b \in Range(worker[r].ids) /\ r \in Req
      BY <2>4, <3>1 DEF Own
    <3>3. CASE r \in Removed
      BY <3>2, <3>3
    <3>4. CASE r \notin Removed
      <4>1. r \in DOMAIN batch => b \in Range(request[r].table)
        BY <2>1, <3>2 DEF TablesInv, QueuesInv
      <4>2. b \in Left(r)
        BY <3>1, <3>4, <4>1 DEF Left
      <4> QED
        BY <2>6, <3>2, <4>2
    <3> QED
      BY <3>3, <3>4
  <2>10. /\ DOMAIN BlockFills' = DOMAIN (stepBlocks') \cup
                UNION {DOMAIN requestBlocks'[r] \cup DOMAIN epochBlocks'[r] : r \in Req}
         /\ DOMAIN (stepBlocks') \subseteq
                (UNION {Own(r) : r \in DOMAIN worker})
                    \cup (UNION {Range(request[r].table) : r \in DOMAIN batch})
    <3>1. DOMAIN BlockFills' = DOMAIN (stepBlocks') \cup
                UNION {DOMAIN requestBlocks'[r] \cup DOMAIN epochBlocks'[r] : r \in Req}
      BY <1>1, DispatchTracked
    <3>2. DOMAIN (stepBlocks') \subseteq
                (UNION {Own(r) : r \in DOMAIN worker})
                    \cup (UNION {Range(request[r].table) : r \in DOMAIN batch})
      BY <1>1, DispatchTracks
    <3> QED
      BY <3>1, <3>2
  <2> QED
    BY <2>2, <2>7, <2>8, <2>9, <2>10
<1>2. ASSUME [Next]_vars, phase = "scheduling", phase' = "idle"
      PROVE  Dispatch
  <2>1. phase' # phase
    BY <1>2
  <2>2. CASE UNCHANGED vars
    BY <2>1, <2>2 DEF vars, scheduler
  <2>3. ~StartStep
    BY <1>2 DEF StartStep
  <2>4. ~ScheduleRunning /\ ~Preempt
    BY <2>1 DEF ScheduleRunning, Preempt
  <2>5. ~Resume /\ \A r \in Req : ~AdmitNew(r) /\ ~Abort(r)
    BY <2>1 DEF Resume, AdmitNew, Admit, Abort
  <2>6. ~Settle
    BY <2>1 DEF Settle, scheduler
  <2>7. ~Complete
    BY <2>1 DEF Complete
  <2> QED
    BY <1>2, <2>2, <2>3, <2>4, <2>5, <2>6, <2>7 DEF Next
<1>3. IInv /\ [Next]_vars
        => [\A b \in needed' :
             (phase = "scheduling" /\ phase' = "idle" /\ batch # NoBatch) =>
                \/ \E r \in DOMAIN worker' : b \in Range(worker'[r].ids)
                \/ \E r \in DOMAIN worker \cap Removed : b \in Range(worker[r].ids)]_vars
  BY <1>1, <1>2
<1> QED
  BY <1>3, AlwaysIInv, PTL DEF Spec, DeadBlocksLeave
\* Only Dispatch opens an epoch and only Settle reports its outcome.
LEMMA DispatchEpochs ==
    ASSUME EpochsSettle, Dispatch
    PROVE  EpochsSettle'
<1>1. unsettled = NoBatch /\ DOMAIN NoBatch = {}
  BY DEF Dispatch, MayDispatch, NoBatch
<1>2. \A r \in Req : DOMAIN pendingBlocks[r] = {}
  BY <1>1 DEF EpochsSettle
<1> DEFINE scheduled == [r \in DOMAIN batch |-> Entry(r, request[r].table)]
<1>3. /\ Update(Removed, scheduled)
      /\ IF batch = NoBatch THEN ReturnEmpty(Updated)
         ELSE PrepareAndForward(Updated, BlockFills')
  BY DEF Dispatch
<1>4. \A r \in Req : r \notin DOMAIN batch => DOMAIN pendingBlocks'[r] = {}
  <2> SUFFICES ASSUME NEW r \in Req, r \notin DOMAIN batch
               PROVE  DOMAIN pendingBlocks'[r] = {}
    OBVIOUS
  <2>1. r \notin DOMAIN scheduled
    OBVIOUS
  <2> HIDE DEF scheduled
  <2>2. pendingBlocks'[r] = IF r \in Removed THEN NoBlocks ELSE pendingBlocks[r]
    BY <1>3, <2>1 DEF Update
  <2> QED
    BY <1>2, <2>2 DEF NoBlocks
<1>5. \A r \in DOMAIN batch : r \in DOMAIN unsettled'
  <2>1. CASE batch = NoBatch
    BY <1>1, <2>1
  <2>2. CASE batch # NoBatch
    BY <1>3, <2>2 DEF PrepareAndForward
  <2> QED
    BY <2>1, <2>2
<1> QED
  BY <1>4, <1>5 DEF EpochsSettle

LEMMA SettleEpochs ==
    ASSUME EpochsSettle, Settle
    PROVE  EpochsSettle'
<1>1. \A r \in Req : r \in DOMAIN unsettled => pendingBlocks'[r] = NoBlocks
  BY DEF Settle, ResolveAsync
<1>2. \A r \in Req : r \notin DOMAIN unsettled => pendingBlocks'[r] = pendingBlocks[r]
  BY DEF Settle, ResolveAsync
<1>3. DOMAIN NoBlocks = {}
  BY DEF NoBlocks
<1> QED
  BY <1>1, <1>2, <1>3 DEF EpochsSettle

LEMMA NextEpochs == EpochsSettle /\ [Next]_vars => EpochsSettle'
<1> SUFFICES ASSUME EpochsSettle, [Next]_vars PROVE EpochsSettle'
  OBVIOUS
<1>1. CASE UNCHANGED <<runner, tracker>>
  BY <1>1 DEF EpochsSettle, runner, tracker
<1>2. CASE StartStep
  BY <1>1, <1>2 DEF StartStep
<1>3. CASE ScheduleRunning
  BY <1>1, <1>3 DEF ScheduleRunning
<1>4. CASE Preempt
  BY <1>1, <1>4 DEF Preempt
<1>5. ASSUME NEW r, NEW total, NEW hit, Admit(r, total, hit)
      PROVE  EpochsSettle'
  BY <1>1, <1>5 DEF Admit
<1>6. CASE Resume
  BY <1>5, <1>6 DEF Resume
<1>7. CASE Complete
  BY <1>1, <1>7 DEF Complete
<1>8. ASSUME NEW r \in Req, AdmitNew(r) \/ Abort(r)
      PROVE  EpochsSettle'
  BY <1>1, <1>5, <1>8 DEF AdmitNew, Abort
<1>9. CASE UNCHANGED vars
  BY <1>1, <1>9 DEF vars
<1> QED
  BY <1>2, <1>3, <1>4, <1>6, <1>7, <1>8, <1>9, DispatchEpochs, SettleEpochs DEF Next

\* Whatever is scheduled, preempted, aborted or rejected, the tracker has
\* blocks pending only for the one batch whose outcome has not been reported,
\* so that _update_kvarn_mla_ownership never finds an epoch of an older batch.
THEOREM EpochTheorem == Spec => []EpochsSettle
<1>1. Init => EpochsSettle
  BY DEF Init, TrackerInit, Nothing, NoBlocks, EpochsSettle
<1> QED
  BY <1>1, NextEpochs, PTL DEF Spec


-----------------------------------------------------------------------------
(* Whole blocks. *)

\* The tokens of i whole blocks.
Span(i) == i * BlockTokens

LEMMA SpanType ==
    ASSUME NEW i \in Nat
    PROVE  Span(i) \in Nat /\ Span(0) = 0
<1>1. BlockTokens \in Nat \ {0}
  BY Sizes
<1> HIDE DEF BlockTokens
<1> QED
  BY <1>1 DEF Span

LEMMA SpanMonotone ==
    ASSUME NEW i \in Nat, NEW j \in Nat
    PROVE  /\ i <= j => Span(i) <= Span(j)
           /\ i < j => Span(i) < Span(j)
<1>1. BlockTokens \in Nat \ {0}
  BY Sizes
<1> HIDE DEF BlockTokens
<1>2. /\ i * BlockTokens = BlockTokens * i /\ j * BlockTokens = BlockTokens * j
      /\ BlockTokens * (i + 1) = BlockTokens * i + BlockTokens
      /\ BlockTokens * i \in Nat /\ BlockTokens * j \in Nat
  BY <1>1
<1>3. i <= j => BlockTokens * i <= BlockTokens * j
  BY <1>1, TimesMonotone
<1>4. i + 1 <= j => BlockTokens * (i + 1) <= BlockTokens * j
  BY <1>1, TimesMonotone
<1>5. i < j => i + 1 <= j
  OBVIOUS
<1> QED
  BY <1>1, <1>2, <1>3, <1>4, <1>5 DEF Span

LEMMA SpanDiv ==
    ASSUME NEW i \in Nat, NEW n \in Nat
    PROVE  /\ n \div BlockTokens \in Nat
           /\ i <= n \div BlockTokens <=> Span(i) <= n
<1>1. BlockTokens \in Nat \ {0}
  BY Sizes
<1> DEFINE q == n \div BlockTokens
<1>2. /\ q \in Nat /\ n % BlockTokens \in 0 .. BlockTokens - 1
      /\ n = BlockTokens * q + (n % BlockTokens)
  BY <1>1, DivMod
<1> HIDE DEF BlockTokens
<1>3. /\ Span(q) = BlockTokens * q /\ Span(q + 1) = BlockTokens * q + BlockTokens
      /\ BlockTokens * q \in Nat
  <2> HIDE DEF q
  <2> QED
    BY <1>1, <1>2 DEF Span
<1> DEFINE m == BlockTokens * q
           z == n % BlockTokens
<1> HIDE DEF q, m, z
<1>4. Span(q) <= n /\ n < Span(q + 1)
  <2>1. /\ m \in Nat /\ z \in 0 .. BlockTokens - 1 /\ n = m + z
        /\ Span(q) = m /\ Span(q + 1) = m + BlockTokens
    BY <1>2, <1>3 DEF m, z
  <2> QED
    BY <1>1, <2>1
<1>5. /\ Span(i) \in Nat /\ Span(q) \in Nat /\ Span(q + 1) \in Nat
  BY <1>2, SpanType
<1>6. CASE i <= q
  <2>1. Span(i) <= Span(q)
    BY <1>2, <1>6, SpanMonotone
  <2> QED
    BY <1>2, <1>4, <1>5, <1>6, <2>1 DEF q
<1>7. CASE q + 1 <= i
  <2>1. Span(q + 1) <= Span(i)
    BY <1>2, <1>7, SpanMonotone
  <2> QED
    BY <1>2, <1>4, <1>5, <1>7, <2>1 DEF q
<1> QED
  BY <1>2, <1>6, <1>7

LEMMA SpanCovers ==
    ASSUME NEW n \in Nat, NEW m \in Nat, BlocksFor(n) <= m
    PROVE  n <= Span(m)
<1>1. BlockTokens \in Nat \ {0}
  BY Sizes
<1> HIDE DEF BlockTokens
<1> QED
  BY <1>1, CeilCovers DEF BlocksFor, Span

-----------------------------------------------------------------------------
(* What the steps do, in the terms of the invariants that follow. *)

\* schedule() grants g to r, whose table keeps the blocks `kept` and gets `new`.
Grants(r, kept, new, g) ==
    /\ phase = "scheduling" /\ tokenBudget > 0
    /\ r \in Req /\ r \notin DOMAIN batch
    /\ kept \in Seq(Block) /\ new \in Seq(Block) /\ IsInjective(new)
    /\ Range(new) \cap (Owned \cup Range(kept)) = {}
    /\ request'[r].table = kept \o new
    /\ \A x \in Req : x # r => request'[x] = request[x]
    /\ g \in Grant /\ g.sched > 0 /\ g.sched <= tokenBudget
    /\ g.start = request'[r].computed
    /\ g.start + g.sched <= Span(Len(kept \o new))
    /\ cachedAt' = Cached(kept \o new, new, Lesser(g.start + g.sched, request'[r].total))
    /\ batch' \in Partial(Req, Grant) /\ DOMAIN (batch') = DOMAIN batch \cup {r}
    /\ batch'[r] = g /\ \A x \in DOMAIN batch : batch'[x] = batch[x]
    /\ tokenBudget' = tokenBudget - g.sched
    /\ UNCHANGED <<async, phase, finished, preempted, inflight, worker, unsettled, needed,
                   full, dropped, lost, requestBlocks, stepBlocks, pendingBlocks,
                   epochBlocks, resolvedBlocks>>

\* The blocks a table gets.
LEMMA NewBlocks ==
    ASSUME NEW table \in Seq(Block), NEW slots \in Nat, NEW new \in Extensions(table, slots)
    PROVE  /\ new \in Seq(Block) /\ IsInjective(new)
           /\ Range(new) \cap (Owned \cup Range(table)) = {}
           /\ table \o new \in Seq(Block) /\ Len(table \o new) \in Nat
           /\ slots <= Span(Len(table \o new))
<1> DEFINE k == Monus(BlocksFor(slots), Len(table))
<1>1. new \in [1 .. k -> FreeBlocks \ Range(table)] /\ IsInjective(new)
  BY DEF Extensions
<1>2. BlocksFor(slots) \in Nat /\ Len(table) \in Nat
  BY Lengths
<1>3. k \in Nat /\ BlocksFor(slots) <= Len(table) + k
  BY <1>2 DEF Monus
<1> HIDE DEF k
<1>4. new \in Seq(Block) /\ Len(new) = k
  BY <1>1, <1>3 DEF FreeBlocks
<1>5. Range(new) \cap (Owned \cup Range(table)) = {}
  BY <1>1 DEF Range, FreeBlocks
<1>6. table \o new \in Seq(Block) /\ Len(table \o new) = Len(table) + k
  BY <1>4, Concatenation
<1>7. slots <= Span(Len(table \o new))
  BY <1>2, <1>3, <1>6, SpanCovers
<1> QED
  BY <1>1, <1>2, <1>3, <1>4, <1>5, <1>6, <1>7

LEMMA ScheduleRunningGrants ==
    ASSUME IInv, ScheduleRunning
    PROVE  \E r, new, g :
              /\ r \in Running /\ Grants(r, request[r].table, new, g)
              /\ r \in DOMAIN worker
              /\ running' = running /\ waiting' = waiting
              /\ request'[r].computed = request[r].computed
              /\ request'[r].total = request[r].total
              /\ request'[r].placeholders = request[r].placeholders
              /\ g.drafts = Drafts(request[r], g.sched)
              /\ g.start + g.sched < MaxLen
              /\ g.sched = Granted(r) /\ Wanted(request[r]) > 0 /\ ~Finishing(request[r])
              /\ \A x \in Running : x \notin DOMAIN batch /\ Schedulable(x)
                    => \E i, j \in DOMAIN running : running[i] = r /\ running[j] = x /\ i <= j
<1>1. PICK r \in Running :
        /\ Turn(r)
        /\ \E new \in Extensions(request[r].table, RunningSlots(r, Granted(r))) :
              /\ request' = [request EXCEPT ![r].table = @ \o new]
              /\ cachedAt' = Cached(request[r].table \o new, new,
                                    Lesser(request[r].computed + Granted(r), request[r].total))
        /\ batch' = With(batch, r, [start |-> request[r].computed, sched |-> Granted(r),
                                    drafts |-> Drafts(request[r], Granted(r))])
        /\ tokenBudget' = tokenBudget - Granted(r)
  BY DEF ScheduleRunning
<1> DEFINE q == request[r]
           n == Granted(r)
           d == Drafts(q, n)
           e == [start |-> q.computed, sched |-> n, drafts |-> d]
<1>2. PICK new \in Extensions(q.table, RunningSlots(r, n)) :
        /\ request' = [request EXCEPT ![r].table = @ \o new]
        /\ cachedAt' = Cached(q.table \o new, new, Lesser(q.computed + n, q.total))
  BY <1>1
<1>3. /\ phase = "scheduling" /\ tokenBudget > 0
      /\ async' = async /\ running' = running /\ waiting' = waiting
      /\ phase' = phase /\ finished' = finished
      /\ preempted' = preempted /\ inflight' = inflight
      /\ UNCHANGED <<runner, tracker>>
  BY DEF ScheduleRunning, queues
<1>4. TypesInv /\ QueuesInv /\ FlightInv /\ RequestInv
  BY DEF IInv
<1>5. r \in Req /\ r \in Unfinished /\ Schedulable(r) /\ r \notin DOMAIN batch
  BY <1>1, <1>4, RunningTypes DEF Turn, Schedulable, Unfinished
<1>6. /\ q.computed \in Nat /\ q.total \in Nat /\ q.placeholders \in Nat
      /\ q.decoding \in BOOLEAN /\ q.table \in Seq(Block) /\ q \in Counters
  BY <1>4, <1>5, RequestTypes
<1>7. /\ n \in Nat \ {0} /\ n <= tokenBudget /\ q.computed + n <= MaxLen
      /\ d \in Nat
  BY <1>3, <1>4, <1>5, GrantBounds
<1>8. Wanted(q) > 0 /\ ~Finishing(q) /\ q.computed + n < MaxLen
  <2>1. Wanted(q) > 0 /\ ~Finishing(q)
    BY <1>5 DEF Schedulable
  <2>2. tokenBudget \in Nat /\ Lookahead \in Nat /\ MaxLen \in Nat
    BY <1>4, ServingAssumption DEF TypesInv
  <2>3. Wanted(q) \in Int /\ Wanted(q) <= MaxLen - q.computed - 1
    <3> DEFINE spec == IF q.decoding THEN Lookahead ELSE 0
               a    == q.total + spec + q.placeholders - q.computed
               z    == MaxLen - q.computed - 1
    <3>1. Wanted(q) = Lesser(a, z)
      BY DEF Wanted
    <3>2. spec \in Nat
      BY <2>2
    <3> HIDE DEF spec
    <3>3. a \in Int /\ z \in Int
      <4>1. q.computed \in Nat /\ q.total \in Nat /\ q.placeholders \in Nat
        BY <1>6
      <4> HIDE DEF q
      <4> QED
        BY <2>2, <3>2, <4>1
    <3> HIDE DEF a, z
    <3>4. Wanted(q) \in Int /\ Wanted(q) <= z
      BY <3>1, <3>3 DEF Lesser
    <3> QED
      BY <3>4 DEF z
  <2>4. n <= Wanted(q)
    BY <2>2, <2>3 DEF Granted, Lesser
  <2> HIDE DEF n
  <2> QED
    BY <1>6, <1>7, <2>1, <2>2, <2>3, <2>4
<1>9. /\ RunningSlots(r, n) \in Nat /\ q.computed + n <= RunningSlots(r, n)
  BY <1>6, <1>7, <1>8, ServingAssumption DEF RunningSlots, Lesser
<1>10. e \in Grant /\ e.start = q.computed /\ e.sched = n /\ e.drafts = d
  BY <1>6, <1>7 DEF Grant
<1>11. /\ request' = [request EXCEPT ![r].table = q.table \o new]
       /\ batch' = With(batch, r, e)
  BY <1>1, <1>2
<1> HIDE DEF e, d, n
<1>12. /\ new \in Seq(Block) /\ IsInjective(new)
       /\ Range(new) \cap (Owned \cup Range(q.table)) = {}
       /\ q.table \o new \in Seq(Block)
       /\ q.computed + n <= Span(Len(q.table \o new))
  <2>1. /\ new \in Seq(Block) /\ IsInjective(new)
        /\ Range(new) \cap (Owned \cup Range(q.table)) = {}
        /\ q.table \o new \in Seq(Block) /\ Len(q.table \o new) \in Nat
        /\ RunningSlots(r, n) <= Span(Len(q.table \o new))
    <3> HIDE DEF q
    <3> QED
      BY <1>2, <1>6, <1>9, NewBlocks
  <2> DEFINE m == Span(Len(q.table \o new))
  <2>2. m \in Nat
    BY <2>1, SpanType
  <2>3. RunningSlots(r, n) <= m
    BY <2>1
  <2> HIDE DEF m, q
  <2>4. q.computed + n <= m
    BY <1>6, <1>7, <1>9, <2>2, <2>3
  <2> QED
    BY <2>1, <2>4 DEF m
<1>13. /\ batch' \in Partial(Req, Grant) /\ DOMAIN (batch') = DOMAIN batch \cup {r}
       /\ batch'[r] = e /\ \A x \in DOMAIN batch : batch'[x] = batch[x]
  <2>1. batch \in Partial(Req, Grant)
    BY <1>4 DEF TypesInv
  <2> DEFINE b == With(batch, r, e)
  <2>2. b \in Partial(Req, Grant)
    BY <1>5, <1>10, <2>1, WithPartial
  <2>3. /\ DOMAIN b = DOMAIN batch \cup {r} /\ b[r] = e
        /\ \A x \in DOMAIN batch : b[x] = batch[x]
    BY <1>5 DEF With
  <2> QED
    BY <1>11, <2>2, <2>3
<1>14. /\ request'[r].table = q.table \o new
       /\ \A x \in Req : x # r => request'[x] = request[x]
       /\ request'[r].computed = q.computed /\ request'[r].total = q.total
       /\ request'[r].placeholders = q.placeholders
  <2>1. request \in [Req -> Counters]
    BY <1>4 DEF TypesInv
  <2> QED
    BY <1>5, <1>6, <1>11, <2>1 DEF Counters
<1>15. Grants(r, q.table, new, e)
  <2>1. cachedAt' = Cached(q.table \o new, new, Lesser(e.start + e.sched, request'[r].total))
    BY <1>2, <1>10, <1>14 DEF n
  <2>2. tokenBudget' = tokenBudget - e.sched
    BY <1>1, <1>10 DEF n
  <2> HIDE DEF q
  <2> QED
    BY <1>3, <1>5, <1>6, <1>7, <1>10, <1>12, <1>13, <1>14, <2>1, <2>2 DEF Grants, runner, tracker
<1>16. r \in DOMAIN worker
  BY <1>4, <1>5 DEF FlightInv
<1>17. ASSUME NEW x \in Running, x \notin DOMAIN batch, Schedulable(x)
       PROVE  \E i, j \in DOMAIN running : running[i] = r /\ running[j] = x /\ i <= j
  <2>1. PICK k \in DOMAIN running :
          running[k] = r /\ \A j \in 1 .. k - 1 : ~Schedulable(running[j])
    BY <1>1 DEF Turn
  <2>2. PICK j \in DOMAIN running : running[j] = x
    BY <1>17 DEF Running, Range
  <2>3. DOMAIN running = 1 .. Len(running) /\ Len(running) \in Nat
    BY <1>4, RunningTypes
  <2>4. ~ (j < k)
    BY <1>17, <2>1, <2>2, <2>3
  <2> QED
    BY <2>1, <2>2, <2>3, <2>4
<1>18. /\ r \in Running /\ running' = running /\ waiting' = waiting
       /\ e.drafts = Drafts(q, e.sched) /\ e.start + e.sched < MaxLen
       /\ e.sched = Granted(r) /\ Wanted(q) > 0 /\ ~Finishing(q)
  BY <1>1, <1>3, <1>8, <1>10 DEF n, d
<1>19. /\ request'[r].computed = request[r].computed
       /\ request'[r].total = request[r].total
       /\ request'[r].placeholders = request[r].placeholders
  BY <1>14
<1>20. Grants(r, request[r].table, new, e)
  BY <1>15
<1> HIDE DEF q
<1> WITNESS r, new, e
<1> QED
  BY <1>16, <1>17, <1>18, <1>19, <1>20 DEF q

\* What schedule() grants a request it admits.
Admits(r, total, hit, new, g) ==
    /\ Grants(r, hit, new, g)
    /\ r \notin Running /\ r \notin DOMAIN worker /\ r \notin InFlight
    /\ running' = Append(running, r) /\ Running' = Running \cup {r}
    /\ Unfinished' = Unfinished \cup {r}
    /\ total \in Nat /\ total <= Limit /\ hit \in Hits(total)
    /\ r \in Unfinished => total = request[r].total
    /\ r \notin Unfinished => total < Limit
    /\ request'[r].total = total /\ request'[r].placeholders = 0
    /\ request'[r].computed = Span(Len(hit)) /\ Span(Len(hit)) < total
    /\ Awaiting(r) = 0
    /\ g.drafts < g.sched /\ g.start + g.sched <= MaxLen
    /\ g.start + g.sched <= total + g.drafts
    /\ g.drafts > 0 => g.start + g.sched = total + g.drafts
    /\ \A x \in Running : ~Schedulable(x)

LEMMA AdmitGrants ==
    ASSUME IInv, AdmissionOpen, NEW r \in Req,
           r \notin Running, r \notin InFlight, r \notin DOMAIN worker, r \notin finished,
           request[r].placeholders = 0,
           NEW total \in 1 .. Limit, NEW hit \in Hits(total), Admit(r, total, hit),
           r \in Unfinished => total = request[r].total,
           r \notin Unfinished => total < Limit,
           Range(waiting)' = Range(waiting) \ {r}
    PROVE  \E new, g : Admits(r, total, hit, new, g)
<1> DEFINE start == Len(hit) * BlockTokens
           n     == FirstTokens(total, start)
           d     == IF Padded(total - start) THEN Lookahead ELSE 0
           e     == [start |-> start, sched |-> n, drafts |-> d]
<1>1. PICK new \in Extensions(hit, FirstSlots(total, start)) :
        /\ request' = [request EXCEPT ![r].computed = start, ![r].total = total,
                                      ![r].table = hit \o new]
        /\ cachedAt' = Cached(hit \o new, new, Lesser(start + n, total))
  BY DEF Admit
<1>2. /\ MayStart(total, hit) /\ batch' = With(batch, r, e) /\ tokenBudget' = tokenBudget - n
      /\ running' = Append(running, r)
  BY DEF Admit
<1>3. /\ async' = async /\ phase' = phase /\ finished' = finished
      /\ preempted' = preempted /\ inflight' = inflight
      /\ UNCHANGED <<runner, tracker>>
  BY DEF Admit
<1>5. /\ phase = "scheduling" /\ preempted = {} /\ tokenBudget > 0
      /\ \A x \in Running : ~Schedulable(x)
  BY DEF AdmissionOpen, AllHadTheirTurn
<1>6. TypesInv /\ QueuesInv /\ FlightInv /\ RequestInv
  BY DEF IInv
<1>7. /\ start \in Nat /\ start <= total - 1 /\ start <= MaxLen
      /\ n \in Nat \ {0} /\ n <= tokenBudget /\ start + n <= MaxLen
      /\ d \in Nat /\ d <= Lookahead /\ d <= n
      /\ start + n <= total + d
      /\ d > 0 => total <= start + n
      /\ FirstSlots(total, start) \in Nat /\ FirstSlots(total, start) <= MaxLen
  BY <1>2, <1>5, <1>6, AdmitBounds
<1>8. /\ e \in Grant /\ e.start = start /\ e.sched = n /\ e.drafts = d
  BY <1>7 DEF Grant
<1>9. total \in Nat /\ total <= Limit /\ Lookahead \in Nat /\ MaxLen \in Nat
  BY LimitType, ServingAssumption
<1>10. d < n /\ (d > 0 => start + n = total + d)
  <2>1. CASE Padded(total - start)
    <3>1. total - start = 1 /\ n = 1 + Lookahead /\ d = Lookahead
      BY <2>1 DEF Padded, FirstTokens
    <3> HIDE DEF start, n, d
    <3> QED
      BY <1>7, <1>9, <3>1
  <2>2. CASE ~Padded(total - start)
    <3>1. d = 0
      BY <2>2
    <3> HIDE DEF start, n, d
    <3> QED
      BY <1>7, <1>9, <3>1
  <2> QED
    BY <2>1, <2>2
<1>11. start + n <= FirstSlots(total, start)
  <2>1. FirstSlots(total, start) = Lesser(start + n + Lookahead, MaxLen)
    BY DEF FirstSlots
  <2> HIDE DEF start, n, d
  <2> QED
    BY <1>7, <1>9, <2>1 DEF Lesser
<1>12. start = Span(Len(hit)) /\ hit \in Seq(Block)
  BY HitTypes DEF Span
<1> HIDE DEF e, d, n, start
<1>13. /\ new \in Seq(Block) /\ IsInjective(new)
       /\ Range(new) \cap (Owned \cup Range(hit)) = {}
       /\ hit \o new \in Seq(Block)
       /\ start + n <= Span(Len(hit \o new))
  <2>1. /\ new \in Seq(Block) /\ IsInjective(new)
        /\ Range(new) \cap (Owned \cup Range(hit)) = {}
        /\ hit \o new \in Seq(Block) /\ Len(hit \o new) \in Nat
        /\ FirstSlots(total, start) <= Span(Len(hit \o new))
    BY <1>1, <1>7, <1>12, NewBlocks
  <2> DEFINE m == Span(Len(hit \o new))
  <2>2. m \in Nat
    BY <2>1, SpanType
  <2>3. FirstSlots(total, start) <= m
    BY <2>1
  <2> HIDE DEF m
  <2>4. start + n <= m
    BY <1>7, <1>11, <2>2, <2>3
  <2> QED
    BY <2>1, <2>4 DEF m
<1>14. Running' = Running \cup {r} /\ Unfinished' = Unfinished \cup {r}
  <2>1. running \in Seq(Req)
    BY <1>6 DEF TypesInv
  <2>2. Range(Append(running, r)) = Range(running) \cup {r}
    BY <2>1, AppendItem
  <2>3. Running' = Running \cup {r}
    BY <1>2, <2>2 DEF Running
  <2> QED
    BY <2>3 DEF Unfinished
<1>15. /\ batch' \in Partial(Req, Grant) /\ DOMAIN (batch') = DOMAIN batch \cup {r}
       /\ batch'[r] = e /\ \A x \in DOMAIN batch : batch'[x] = batch[x]
       /\ r \notin DOMAIN batch
  <2>1. batch \in Partial(Req, Grant) /\ r \notin DOMAIN batch
    BY <1>6 DEF TypesInv, QueuesInv
  <2> DEFINE b == With(batch, r, e)
  <2>2. b \in Partial(Req, Grant)
    BY <1>8, <2>1, WithPartial
  <2>3. /\ DOMAIN b = DOMAIN batch \cup {r} /\ b[r] = e
        /\ \A x \in DOMAIN batch : b[x] = batch[x]
    BY <2>1 DEF With
  <2> QED
    BY <1>2, <2>1, <2>2, <2>3
<1>16. /\ request'[r].table = hit \o new
       /\ \A x \in Req : x # r => request'[x] = request[x]
       /\ request'[r].computed = start /\ request'[r].total = total
       /\ request'[r].placeholders = 0
  <2>1. request \in [Req -> Counters] /\ request[r] \in Counters
    BY <1>6 DEF TypesInv
  <2> DEFINE w == [request[r] EXCEPT !.computed = start, !.total = total, !.table = hit \o new]
  <2>2. /\ w.computed = start /\ w.table = hit \o new
        /\ w.total = total /\ w.placeholders = 0
    BY <2>1 DEF Counters
  <2>3. request' = [request EXCEPT ![r] = w]
    BY <1>1, <2>1
  <2> HIDE DEF w
  <2> QED
    BY <2>1, <2>2, <2>3
<1>17. Grants(r, hit, new, e)
  <2>1. cachedAt' = Cached(hit \o new, new, Lesser(e.start + e.sched, request'[r].total))
    BY <1>1, <1>8, <1>16 DEF n, start
  <2>2. tokenBudget' = tokenBudget - e.sched
    BY <1>2, <1>8
  <2>3. /\ e.start = request'[r].computed /\ e.start + e.sched <= Span(Len(hit \o new))
        /\ e.sched > 0 /\ e.sched <= tokenBudget
    BY <1>7, <1>8, <1>13, <1>16
  <2> QED
    BY <1>3, <1>5, <1>8, <1>12, <1>13, <1>15, <1>16, <2>1, <2>2, <2>3
       DEF Grants, runner, tracker
<1>18. Awaiting(r) = 0
  BY <1>6, FlightSums
<1>19. /\ request'[r].computed = Span(Len(hit)) /\ Span(Len(hit)) < total
  BY <1>7, <1>9, <1>12, <1>16
<1> QED
  BY <1>2, <1>5, <1>7, <1>8, <1>9, <1>10, <1>14, <1>16, <1>17, <1>18, <1>19 DEF Admits

\* The request a preemption takes the blocks of.
Gives(v) ==
    /\ phase = "scheduling" /\ v \in Running /\ v \in Req /\ v \notin DOMAIN batch
    /\ Running' = Running \ {v} /\ Unfinished' = Unfinished
    /\ Range(waiting)' = Range(waiting) \cup {v} /\ preempted' = preempted \cup {v}
    /\ \A x \in Req : x # v => request'[x] = request[x]
    /\ request'[v].table = << >> /\ request'[v].total = request[v].total
    /\ UNCHANGED <<async, cachedAt, batch, tokenBudget, phase, finished, inflight, worker,
                   unsettled, needed, full, dropped, lost, requestBlocks, stepBlocks,
                   pendingBlocks, epochBlocks, resolvedBlocks>>

LEMMA PreemptGives ==
    ASSUME IInv, Preempt
    PROVE  \E v : Gives(v)
<1> DEFINE v == Last(running)
<1>1. /\ \E r \in Running : Turn(r)
      /\ request' = [request EXCEPT ![v].computed = 0, ![v].decoding = FALSE,
                                    ![v].table = << >>]
      /\ preempted' = preempted \cup {v} /\ waiting' = << v >> \o waiting
      /\ running' = Front(running)
  BY DEF Preempt
<1>2. /\ phase = "scheduling" /\ async' = async /\ cachedAt' = cachedAt /\ batch' = batch
      /\ tokenBudget' = tokenBudget /\ phase' = phase /\ finished' = finished
      /\ inflight' = inflight /\ UNCHANGED <<runner, tracker>>
  BY DEF Preempt
<1>3. TypesInv /\ QueuesInv
  BY DEF IInv
<1>4. running # << >> /\ v \notin DOMAIN batch
  BY <1>1, <1>3, LastNotGranted
<1>5. v \in Req /\ Running = Running' \cup {v} /\ v \notin Running'
  <2>1. running \in Seq(Req) /\ IsInjective(running)
    BY <1>3 DEF TypesInv, QueuesInv
  <2> HIDE DEF v
  <2>2. /\ v \in Req /\ Range(running) = Range(Front(running)) \cup {v}
        /\ v \notin Range(Front(running))
    BY <1>4, <2>1, FrontAndLast DEF v
  <2> QED
    BY <1>1, <2>2 DEF Running
<1> HIDE DEF v
<1>6. Range(waiting)' = Range(waiting) \cup {v}
  <2> DEFINE one == << v >>
             w == one \o waiting
  <2>1. one \in Seq(Req) /\ Range(one) = {v}
    BY <1>5 DEF Range
  <2>2. waiting \in Seq(Req)
    BY <1>3 DEF TypesInv
  <2>3. Range(w) = Range(one) \cup Range(waiting)
    <3> HIDE DEF one
    <3> QED
      BY <2>1, <2>2, Concatenation
  <2>4. waiting' = w
    BY <1>1
  <2> HIDE DEF w
  <2> QED
    BY <2>1, <2>3, <2>4
<1>7. /\ \A x \in Req : x # v => request'[x] = request[x]
      /\ request'[v].table = << >> /\ request'[v].total = request[v].total
  <2>1. request \in [Req -> Counters] /\ request[v] \in Counters
    BY <1>3, <1>5 DEF TypesInv
  <2> DEFINE w == [request[v] EXCEPT !.computed = 0, !.decoding = FALSE, !.table = << >>]
  <2>2. w.table = << >> /\ w.total = request[v].total
    BY <2>1 DEF Counters
  <2>3. request' = [request EXCEPT ![v] = w]
    BY <1>1, <1>5, <2>1
  <2> HIDE DEF w
  <2> QED
    BY <1>5, <2>1, <2>2, <2>3
<1>8. Running' = Running \ {v} /\ Unfinished' = Unfinished
  BY <1>5, <1>6 DEF Unfinished
<1> QED
  BY <1>1, <1>2, <1>4, <1>5, <1>6, <1>7, <1>8 DEF Gives, runner, tracker

\* A client gives r up.
LEMMA AbortLeaves ==
    ASSUME IInv, NEW r \in Req, Abort(r)
    PROVE  /\ phase = "idle" /\ r \in Unfinished
           /\ Running' = Running \ {r} /\ Unfinished' = Unfinished \ {r}
           /\ Range(waiting)' = Range(waiting) \ {r}
           /\ finished' = finished \cup {r}
           /\ request'[r] = Idle /\ \A x \in Req : x # r => request'[x] = request[x]
           /\ preempted = {} /\ batch = NoBatch /\ DOMAIN batch = {}
           /\ UNCHANGED <<async, cachedAt, batch, tokenBudget, phase, preempted, inflight,
                          worker, unsettled, needed, full, dropped, lost, requestBlocks,
                          stepBlocks, pendingBlocks, epochBlocks, resolvedBlocks>>
<1>1. /\ phase = "idle" /\ r \in Unfinished /\ request' = [request EXCEPT ![r] = Idle]
      /\ LeaveQueues({r}) /\ finished' = finished \cup {r}
      /\ UNCHANGED <<async, cachedAt, batch, tokenBudget, phase, preempted, inflight, runner,
                     tracker>>
  BY DEF Abort
<1>2. TypesInv /\ QueuesInv
  BY DEF IInv
<1>3. preempted = {} /\ DOMAIN batch = {} /\ batch = NoBatch
  BY <1>1, <1>2, NoPartial DEF QueuesInv
<1>4. /\ Running' = Running \ {r} /\ Range(waiting)' = Range(waiting) \ {r}
      /\ Unfinished' = Unfinished \ {r}
  BY <1>1, <1>2, LeavingQueues
<1>5. request'[r] = Idle /\ \A x \in Req : x # r => request'[x] = request[x]
  BY <1>1, <1>2 DEF TypesInv
<1> QED
  BY <1>1, <1>3, <1>4, <1>5 DEF runner, tracker

\* The oldest batch is taken off the queue: `stopped` of its requests end, the
\* others keep what it sampled and was not rejected.
Completes(known, stopped) ==
    /\ phase = "idle" /\ inflight # << >> /\ inflight' = Tail(inflight)
    /\ 1 \in DOMAIN inflight /\ Len(inflight) \in Nat
    /\ Len(inflight) = Depth \/ ~HasRequests
    /\ Len(inflight) = 1 => unsettled = NoBatch
    /\ known = DOMAIN inflight[1] \cap Unfinished /\ stopped \subseteq known
    /\ known \subseteq Req
    /\ Running' = Running \ stopped /\ Unfinished' = Unfinished \ stopped
    /\ Range(waiting)' = Range(waiting) \ stopped
    /\ finished' = finished \cup stopped
    /\ preempted = {} /\ batch = NoBatch /\ DOMAIN batch = {}
    /\ \A x \in stopped : request'[x] = Idle
    /\ \A x \in Req \ known : request'[x] = request[x]
    /\ \A x \in Unfinished \ known : Sampled(1, x) = 0 /\ Rejected(1, x) = 0
    /\ \A x \in known \ stopped :
        /\ request'[x].table = request[x].table
        /\ request'[x].computed = Monus(request[x].computed, Rejected(1, x))
        /\ request'[x].total = request[x].total + (Sampled(1, x) - Rejected(1, x))
        /\ Sampled(1, x) > 0 => request'[x].total < Limit
    /\ \A x : Awaiting(x)' = Awaiting(x) - Sampled(1, x)
    /\ \A x : Behind(x)' = Behind(x) - Rejected(1, x)
    /\ UNCHANGED <<async, batch, tokenBudget, phase, preempted, worker, unsettled, needed,
                   full, dropped, lost, requestBlocks, stepBlocks, pendingBlocks,
                   epochBlocks, resolvedBlocks>>

LEMMA CompleteLeaves ==
    ASSUME IInv, Complete
    PROVE  \E known, stopped : Completes(known, stopped)
<1> DEFINE e     == Head(inflight)
           known == DOMAIN e \cap Unfinished
<1>1. /\ phase = "idle" /\ inflight # << >> /\ inflight' = Tail(inflight)
      /\ Len(inflight) = Depth \/ ~HasRequests
      /\ Len(inflight) = 1 => unsettled = NoBatch
      /\ UNCHANGED <<async, batch, tokenBudget, phase, preempted, runner, tracker>>
  BY DEF Complete, MayComplete
<1>2. TypesInv /\ QueuesInv /\ FlightInv /\ RequestInv
  BY DEF IInv
<1>3. preempted = {} /\ DOMAIN batch = {} /\ batch = NoBatch
  BY <1>1, <1>2, NoPartial DEF QueuesInv
<1>4. PICK o \in [known -> [kept : 0 .. Lookahead + 1, stops : BOOLEAN]] :
            /\ \A r \in known : o[r] \in Outcomes(request[r], e[r])
            /\ request' = [r \in Req |-> IF r \in known
                                THEN Received(request[r], e[r], o[r]) ELSE request[r]]
            /\ finished' = finished \cup {r \in known : o[r].stops}
            /\ LeaveQueues({r \in known : o[r].stops})
  BY DEF Complete
<1> DEFINE stopped == {r \in known : o[r].stops}
<1>5. e = inflight[1] /\ 1 \in DOMAIN inflight /\ Len(inflight) \in Nat
  BY <1>1, <1>2 DEF TypesInv
<1> HIDE DEF e
<1>6. /\ stopped \subseteq known /\ known \subseteq Unfinished /\ Unfinished \subseteq Req
  BY <1>2, RunningTypes
<1>7. /\ Running' = Running \ stopped /\ Range(waiting)' = Range(waiting) \ stopped
      /\ Unfinished' = Unfinished \ stopped
  <2>1. LeaveQueues(stopped)
    BY <1>4
  <2> HIDE DEF stopped
  <2> QED
    BY <1>2, <2>1, LeavingQueues
<1>8. /\ \A x \in stopped : request'[x] = Idle
      /\ \A x \in Req \ known : request'[x] = request[x]
  BY <1>4, <1>6 DEF Received
<1>9. ASSUME NEW x \in known \ stopped
      PROVE  /\ request'[x].table = request[x].table
             /\ request'[x].computed = Monus(request[x].computed, Rejected(1, x))
             /\ request'[x].total = request[x].total + (Sampled(1, x) - Rejected(1, x))
             /\ Sampled(1, x) > 0 => request'[x].total < Limit
  <2>1. /\ x \in Unfinished /\ x \in DOMAIN e /\ x \in Req
        /\ o[x] \in Outcomes(request[x], e[x]) /\ o[x].stops \in BOOLEAN /\ ~o[x].stops
        /\ request'[x] = Received(request[x], e[x], o[x])
    BY <1>4, <1>6
  <2>2. /\ request'[x] \in Counters /\ request'[x].table = request[x].table
        /\ request'[x].computed = Monus(request[x].computed, Rejected(1, x))
        /\ request'[x].total \in 1 .. Limit
    BY <1>1, <1>2, <1>5, <2>1, ReceivedCounts
  <2>3. /\ e[x].drafts \in Nat /\ e[x].rej \in Nat /\ e[x].sampled \in BOOLEAN
        /\ e[x].rej <= e[x].drafts /\ (~e[x].sampled => e[x].drafts = 0)
        /\ Rejected(1, x) = e[x].rej
        /\ Sampled(1, x) = IF e[x].sampled THEN 1 + e[x].drafts ELSE 0
    BY <1>2, <1>5, <2>1, FlightTypes, ServingAssumption DEF FlightInv, Sampled, Rejected
  <2>4. request[x] \in Counters /\ request[x].total \in Nat
    BY <1>2, <2>1, RequestTypes
  <2>5. request'[x].total = request[x].total + o[x].kept
    BY <2>1, <2>4 DEF Received, Counters
  <2>6. o[x].kept \in Nat
    BY <2>1, ServingAssumption DEF Outcomes
  <2>7. CASE e[x].sampled
    <3>1. /\ o[x].kept = 1 + e[x].drafts - e[x].rej
          /\ request[x].total + o[x].kept # Limit
      BY <2>1, <2>7 DEF Outcomes
    <3>2. Limit \in Nat
      BY LimitType
    <3>3. o[x].kept = Sampled(1, x) - Rejected(1, x)
      BY <2>3, <2>6, <2>7, <3>1
    <3> QED
      BY <2>2, <2>4, <2>5, <3>1, <3>2, <3>3
  <2>8. CASE ~e[x].sampled
    <3>1. o[x].kept = 0
      BY <2>1, <2>8 DEF Outcomes
    <3>2. Sampled(1, x) = 0 /\ Rejected(1, x) = 0
      BY <2>3, <2>8
    <3> QED
      BY <2>2, <2>4, <2>5, <3>1, <3>2
  <2> QED
    BY <2>2, <2>3, <2>7, <2>8
<1>10. \A x : Awaiting(x)' = Awaiting(x) - Sampled(1, x) /\ Behind(x)' = Behind(x) - Rejected(1, x)
  BY <1>1, <1>2, LeavesFlight
<1>11. \A x \in Unfinished \ known : Sampled(1, x) = 0 /\ Rejected(1, x) = 0
  <2>1. \A x \in Unfinished \ known : x \notin DOMAIN inflight[1]
    BY <1>5
  <2> QED
    BY <2>1 DEF Sampled, Rejected
<1>12. known = DOMAIN inflight[1] \cap Unfinished /\ finished' = finished \cup stopped
  BY <1>4, <1>5
<1> HIDE DEF known, stopped
<1>13. UNCHANGED <<async, batch, tokenBudget, phase, preempted, worker, unsettled, needed,
                   full, dropped, lost, requestBlocks, stepBlocks, pendingBlocks,
                   epochBlocks, resolvedBlocks>>
  BY <1>1 DEF runner, tracker
<1>14. known \subseteq Req
  BY <1>6
<1>15. Completes(known, stopped)
  BY <1>1, <1>3, <1>5, <1>6, <1>7, <1>8, <1>9, <1>10, <1>11, <1>12, <1>13, <1>14 DEF Completes
<1> QED
  BY <1>15

\* The batch b goes to the worker and into the queue.
Dispatches(b) ==
    /\ phase = "scheduling" /\ phase' = "idle" /\ unsettled = NoBatch
    /\ b \in Partial(Req, Outcome) /\ DOMAIN b = DOMAIN batch
    /\ inflight' = Append(inflight, b)
    /\ Running' = Running /\ Unfinished' = Unfinished /\ Range(waiting)' = Range(waiting)
    /\ UNCHANGED <<async, running, waiting, cachedAt>>
    /\ batch' = NoBatch /\ DOMAIN (batch') = {} /\ finished' = {} /\ preempted' = {}
    /\ DOMAIN batch \subseteq Running /\ Running \subseteq Req
    /\ DOMAIN (worker') = Running /\ DOMAIN (worker') = (DOMAIN worker \ Removed) \cup DOMAIN batch
    /\ \A r \in Req \ DOMAIN batch : request'[r] = request[r]
    /\ \A r \in DOMAIN (worker') \ DOMAIN batch :
          r \in DOMAIN worker /\ worker'[r] = worker[r]
    /\ \A r \in DOMAIN batch :
        /\ batch[r].start = request[r].computed
        /\ batch[r].sched \in Nat /\ batch[r].drafts \in Nat /\ batch[r].start \in Nat
        /\ b[r].rej \in Nat /\ b[r].rej <= batch[r].drafts
        /\ b[r].drafts = batch[r].drafts
        /\ b[r].sampled = (request[r].computed + batch[r].sched
                              >= request[r].total + request[r].placeholders)
        /\ request'[r].total = request[r].total /\ request'[r].table = request[r].table
        /\ request'[r].computed = request[r].computed + batch[r].sched
        /\ worker'[r].ids = request[r].table
        /\ Updated[r].rows \in Nat
        /\ Updated[r].rows = IF r \in DOMAIN worker THEN worker[r].rows ELSE batch[r].start
        /\ request[r].computed = Updated[r].rows + Behind(r)
        /\ worker'[r].rows = Updated[r].rows + batch[r].sched - b[r].rej
    /\ \A r : Awaiting(r)' = Awaiting(r) + (IF r \in DOMAIN batch /\ b[r].sampled
                                            THEN 1 + b[r].drafts ELSE 0)
    /\ \A r : Behind(r)' = Behind(r) + (IF r \in DOMAIN batch THEN b[r].rej ELSE 0)

LEMMA DispatchSends ==
    ASSUME IInv, Dispatch
    PROVE  \E b : Dispatches(b)
<1>1. /\ phase = "scheduling" /\ async' = async /\ running' = running /\ waiting' = waiting
      /\ cachedAt' = cachedAt /\ batch' = NoBatch /\ phase' = "idle"
      /\ finished' = {} /\ preempted' = {} /\ unsettled = NoBatch
      /\ request' = [r \in Req |-> IF r \in DOMAIN batch THEN Advanced(r) ELSE request[r]]
  BY DEF Dispatch, MayDispatch, queues
<1>2. TypesInv /\ QueuesInv /\ FlightInv /\ RequestInv /\ CountInv /\ BatchInv
  BY DEF IInv
<1>3. PICK b \in Partial(Req, Outcome) :
             /\ inflight' = Append(inflight, b) /\ DOMAIN b = DOMAIN batch
             /\ \A r \in DOMAIN batch :
                  /\ b[r].rej \in Nat /\ b[r].rej <= batch[r].drafts
                  /\ b[r].drafts = batch[r].drafts /\ b[r].sampled = Advanced(r).decoding
             /\ DOMAIN (worker') = (DOMAIN worker \ Removed) \cup DOMAIN batch
             /\ \A r \in DOMAIN batch :
                  /\ worker'[r].ids = request[r].table
                  /\ worker'[r].rows = Updated[r].rows + batch[r].sched - b[r].rej
             /\ \A r \in DOMAIN (worker') \ DOMAIN batch :
                  r \in DOMAIN worker /\ worker'[r] = worker[r]
  BY DispatchEffect
<1>4. Running' = Running /\ Unfinished' = Unfinished /\ Range(waiting)' = Range(waiting)
  BY <1>1 DEF Running, Unfinished
<1>5. DOMAIN NoBatch = {}
  BY NoPartial
<1>6. ASSUME NEW r \in DOMAIN batch
      PROVE  /\ batch[r].start = request[r].computed
             /\ batch[r].sched \in Nat /\ batch[r].drafts \in Nat /\ batch[r].start \in Nat
             /\ b[r].rej \in Nat /\ b[r].rej <= batch[r].drafts
             /\ b[r].drafts = batch[r].drafts
             /\ b[r].sampled = (request[r].computed + batch[r].sched
                              >= request[r].total + request[r].placeholders)
             /\ request'[r].total = request[r].total /\ request'[r].table = request[r].table
             /\ request'[r].computed = request[r].computed + batch[r].sched
             /\ worker'[r].ids = request[r].table
             /\ Updated[r].rows \in Nat
             /\ Updated[r].rows = IF r \in DOMAIN worker THEN worker[r].rows ELSE batch[r].start
             /\ request[r].computed = Updated[r].rows + Behind(r)
             /\ worker'[r].rows = Updated[r].rows + batch[r].sched - b[r].rej
  <2>1. /\ batch[r].start \in Nat /\ batch[r].sched \in Nat /\ batch[r].drafts \in Nat
        /\ r \in Req
    BY <1>2, AdvancedCounts
  <2>2. request'[r] = Advanced(r)
    BY <1>1, <2>1
  <2>3. /\ request'[r].total = request[r].total
        /\ request'[r].table = request[r].table
        /\ request'[r].computed = request[r].computed + batch[r].sched
        /\ Advanced(r).decoding = (request[r].computed + batch[r].sched
                                    >= request[r].total + request[r].placeholders)
    BY <1>2, <2>2, AdvancedCounts
  <2>4. Updated[r].rows \in Nat /\ request[r].computed = Updated[r].rows + Behind(r)
    BY <1>1, BatchEntry
  <2>5. Updated[r].rows = IF r \in DOMAIN worker THEN worker[r].rows ELSE batch[r].start
    BY <1>2, UpdatedStates
  <2>6. batch[r].start = request[r].computed
    BY <1>2 DEF BatchInv
  <2> QED
    BY <1>3, <2>1, <2>3, <2>4, <2>5, <2>6
<1>7. \A r \in Req \ DOMAIN batch : request'[r] = request[r]
  BY <1>1
<1>8. ASSUME NEW r
      PROVE  /\ Awaiting(r)' = Awaiting(r) + (IF r \in DOMAIN batch /\ b[r].sampled
                                              THEN 1 + b[r].drafts ELSE 0)
             /\ Behind(r)' = Behind(r) + (IF r \in DOMAIN batch THEN b[r].rej ELSE 0)
  <2>1. /\ Awaiting(r)' = Awaiting(r) + (IF r \in DOMAIN b /\ b[r].sampled
                                         THEN 1 + b[r].drafts ELSE 0)
        /\ Behind(r)' = Behind(r) + (IF r \in DOMAIN b THEN b[r].rej ELSE 0)
    BY <1>1, <1>2, <1>3, JoinsFlight
  <2> QED
    BY <1>3, <2>1
<1>9. DOMAIN batch \subseteq Running /\ Running \subseteq Req
  BY <1>2, RunningTypes DEF QueuesInv
<1>10. DOMAIN (worker') = Running
  <2>1. \A r \in Running : r \notin Removed
    BY <1>2 DEF QueuesInv, Removed, Unfinished
  <2>2. /\ \A r \in Running : r \in DOMAIN worker \/ r \in DOMAIN batch
        /\ DOMAIN worker \subseteq Running \cup finished \cup preempted
    BY <1>2 DEF FlightInv
  <2> QED
    BY <1>3, <1>9, <2>1, <2>2 DEF Removed
<1>11. Dispatches(b)
  BY <1>1, <1>3, <1>4, <1>5, <1>6, <1>7, <1>8, <1>9, <1>10 DEF Dispatches
<1> QED
  BY <1>11

\* Whoever awaits tokens was sent for one that cannot be rejected.
LEMMA FlightSlack ==
    ASSUME TypesInv, FlightInv, NEW r
    PROVE  /\ Awaiting(r) \in Nat /\ Behind(r) \in Nat
           /\ Awaiting(r) > 0 => Behind(r) < Awaiting(r)
           /\ Awaiting(r) = 0 => Behind(r) = 0
           /\ \A i \in {1, 2} :
                /\ Sampled(i, r) \in Nat /\ Rejected(i, r) \in Nat
                /\ Rejected(i, r) <= Sampled(i, r)
                /\ Sampled(i, r) > 0 => Rejected(i, r) < Sampled(i, r)
           /\ Awaiting(r) = Sampled(1, r) + Sampled(2, r)
           /\ Behind(r) = Rejected(1, r) + Rejected(2, r)
<1>1. ASSUME NEW i \in {1, 2}
      PROVE  /\ Sampled(i, r) \in Nat /\ Rejected(i, r) \in Nat
             /\ Rejected(i, r) <= Sampled(i, r)
             /\ Sampled(i, r) > 0 => Rejected(i, r) < Sampled(i, r)
  <2>1. /\ Sampled(i, r) \in Nat /\ Rejected(i, r) \in Nat /\ Rejected(i, r) <= Sampled(i, r)
    BY FlightBounds, ServingAssumption
  <2>2. ASSUME Sampled(i, r) > 0 PROVE Rejected(i, r) < Sampled(i, r)
    <3>1. i \in DOMAIN inflight /\ r \in DOMAIN inflight[i] /\ inflight[i][r].sampled
      BY <2>2 DEF Sampled
    <3>2. /\ inflight[i][r].drafts \in Nat /\ inflight[i][r].rej \in Nat
          /\ inflight[i][r].rej <= inflight[i][r].drafts
      BY <3>1, FlightTypes, ServingAssumption DEF FlightInv
    <3>3. Sampled(i, r) = 1 + inflight[i][r].drafts /\ Rejected(i, r) = inflight[i][r].rej
      BY <3>1 DEF Sampled, Rejected
    <3> QED
      BY <3>2, <3>3
  <2> QED
    BY <2>1, <2>2
<1>2. /\ Awaiting(r) = Sampled(1, r) + Sampled(2, r)
      /\ Behind(r) = Rejected(1, r) + Rejected(2, r)
  BY DEF Awaiting, Behind
<1> QED
  BY <1>1, <1>2

-----------------------------------------------------------------------------
(* The scheduler's counters are exact: a request that awaits tokens has been *)
(* computed up to the last of them, and one that awaits nothing has not been *)
(* computed beyond its last token.  What is granted stays inside the table.  *)

ExactInv ==
    /\ \A r \in Unfinished : request[r].total < Limit
    /\ \A r \in Running :
        /\ request[r].computed + 1 <= request[r].total + Awaiting(r)
        /\ Awaiting(r) > 0 => request[r].computed + 1 = request[r].total + Awaiting(r)

GrantInv ==
    \A r \in DOMAIN batch :
        LET e == batch[r]  q == request[r]
        IN  /\ e.drafts < e.sched
            /\ e.drafts > 0 => e.start + e.sched = q.total + q.placeholders + e.drafts
            /\ e.start + e.sched <= Span(Len(q.table))
            /\ r \in DOMAIN worker => e.start + e.sched < MaxLen

\* Types of what these invariants compare.
LEMMA BatchTypes ==
    ASSUME TypesInv, NEW r \in DOMAIN batch
    PROVE  /\ r \in Req
           /\ batch[r].start \in Nat /\ batch[r].sched \in Nat /\ batch[r].drafts \in Nat
<1>1. DOMAIN batch \subseteq Req /\ batch[r] \in Grant
  BY PartialParts DEF TypesInv
<1> QED
  BY <1>1 DEF Grant

LEMMA StateTypes ==
    ASSUME TypesInv, NEW r \in DOMAIN worker
    PROVE  /\ r \in Req /\ worker[r].rows \in Nat
           /\ worker[r].ids \in Seq(Block) /\ Len(worker[r].ids) \in Nat
           /\ DOMAIN worker[r].ids = 1 .. Len(worker[r].ids)
<1>1. DOMAIN worker \subseteq Req /\ worker[r] \in States
  BY PartialParts DEF TypesInv
<1> QED
  BY <1>1 DEF States

\* A step that leaves the counters and the grants alone.
LEMMA SameExact ==
    ASSUME ExactInv, GrantInv,
           UNCHANGED <<request, running, waiting, batch, worker, inflight>>
    PROVE  ExactInv' /\ GrantInv'
<1>1. Running' = Running /\ Unfinished' = Unfinished /\ \A r : Awaiting(r)' = Awaiting(r)
  BY SameFlight DEF Running, Unfinished
<1> QED
  BY <1>1 DEF ExactInv, GrantInv, Span, Limit

\* What is granted.
LEMMA GrantsExact ==
    ASSUME IInv, GrantInv, NEW r, NEW kept, NEW new, NEW g, Grants(r, kept, new, g),
           g.drafts < g.sched,
           g.drafts > 0 => g.start + g.sched
                              = request'[r].total + request'[r].placeholders + g.drafts,
           r \in DOMAIN worker => g.start + g.sched < MaxLen
    PROVE  GrantInv'
<1> SUFFICES ASSUME NEW x \in DOMAIN (batch')
             PROVE  /\ batch'[x].drafts < batch'[x].sched
                    /\ batch'[x].drafts > 0 =>
                          batch'[x].start + batch'[x].sched
                            = request'[x].total + request'[x].placeholders + batch'[x].drafts
                    /\ batch'[x].start + batch'[x].sched <= Span(Len(request'[x].table))
                    /\ x \in DOMAIN (worker') => batch'[x].start + batch'[x].sched < MaxLen
  BY DEF GrantInv, Span
<1>1. /\ DOMAIN (batch') = DOMAIN batch \cup {r} /\ batch'[r] = g /\ r \notin DOMAIN batch
      /\ request'[r].table = kept \o new /\ worker' = worker
      /\ g.start + g.sched <= Span(Len(kept \o new))
      /\ \A y \in DOMAIN batch : batch'[y] = batch[y]
      /\ \A y \in Req : y # r => request'[y] = request[y]
  BY DEF Grants
<1>2. CASE x = r
  BY <1>1, <1>2
<1>3. CASE x # r
  <2>1. x \in DOMAIN batch /\ x \in Req
    BY <1>1, <1>3, BatchTypes DEF IInv
  <2>2. batch'[x] = batch[x] /\ request'[x] = request[x]
    BY <1>1, <1>3, <2>1
  <2> QED
    BY <1>1, <2>1, <2>2 DEF GrantInv
<1> QED
  BY <1>2, <1>3

LEMMA ScheduleRunningExact ==
    ASSUME IInv, ExactInv, GrantInv, ScheduleRunning
    PROVE  ExactInv' /\ GrantInv'
<1>1. PICK r, new, g :
              /\ r \in Running /\ Grants(r, request[r].table, new, g)
              /\ r \in DOMAIN worker
              /\ running' = running /\ waiting' = waiting
              /\ request'[r].computed = request[r].computed
              /\ request'[r].total = request[r].total
              /\ request'[r].placeholders = request[r].placeholders
              /\ g.drafts = Drafts(request[r], g.sched)
              /\ g.start + g.sched < MaxLen
  BY ScheduleRunningGrants
<1>2. TypesInv /\ FlightInv /\ RequestInv
  BY DEF IInv
<1>3. /\ inflight' = inflight /\ Running' = Running /\ Unfinished' = Unfinished
      /\ g \in Grant /\ g.sched > 0 /\ g.start = request[r].computed
      /\ \A y \in Req : y # r => request'[y] = request[y]
      /\ phase = "scheduling"
  BY <1>1 DEF Grants, Running, Unfinished
<1>4. \A x : Awaiting(x)' = Awaiting(x)
  BY <1>3, SameFlight
<1>5. ExactInv'
  BY <1>1, <1>2, <1>3, <1>4, RunningTypes DEF ExactInv, Limit
<1>6. /\ g.drafts < g.sched
      /\ g.drafts > 0 => g.start + g.sched
                            = request[r].total + request[r].placeholders + g.drafts
  <2> DEFINE c == request[r].computed  t == request[r].total  p == request[r].placeholders
             n == g.sched  d == g.drafts
  <2>1. r \in Req /\ r \in Unfinished /\ r \in Running
    BY <1>1, <1>2, RunningTypes DEF Unfinished
  <2>2. /\ c \in Nat /\ t \in Nat /\ p \in Nat /\ n \in Nat /\ d \in Nat
    BY <1>2, <1>3, <2>1, RequestTypes DEF Grant
  <2>3. c + 1 <= t + p
    <3>1. /\ c + 1 <= t + Awaiting(r) /\ p = (IF async THEN Awaiting(r) ELSE 0)
      BY <2>1, <1>2 DEF ExactInv, RequestInv
    <3>2. ~async => Awaiting(r) = 0
      BY <1>2, <1>3, FlightSums
    <3> QED
      BY <3>1, <3>2
  <2>4. d = IF request[r].decoding THEN Monus(n + c, t + p) ELSE 0
    BY <1>1 DEF Drafts
  <2>5. n > 0 /\ g.start = c
    BY <1>3
  <2> HIDE DEF c, t, p, n, d
  <2>6. d < n /\ (d > 0 => c + n = t + p + d)
    BY <2>2, <2>3, <2>4, <2>5 DEF Monus
  <2> QED
    BY <2>5, <2>6 DEF c, t, p, n, d
<1>7. GrantInv'
  BY <1>1, <1>6, GrantsExact
<1> QED
  BY <1>5, <1>7

LEMMA AdmitsExact ==
    ASSUME IInv, ExactInv, GrantInv, NEW r, NEW total, NEW hit, NEW new, NEW g,
           Admits(r, total, hit, new, g)
    PROVE  ExactInv' /\ GrantInv'
<1>1. Grants(r, hit, new, g)
  BY DEF Admits
<1>2. /\ Running' = Running \cup {r} /\ Unfinished' = Unfinished \cup {r}
      /\ total \in Nat
      /\ request'[r].total = total /\ request'[r].placeholders = 0
      /\ request'[r].computed = Span(Len(hit)) /\ Span(Len(hit)) < total
      /\ Awaiting(r) = 0 /\ r \notin DOMAIN worker
      /\ g.drafts < g.sched
      /\ g.drafts > 0 => g.start + g.sched = total + g.drafts
  BY DEF Admits
<1>3. /\ inflight' = inflight /\ \A y \in Req : y # r => request'[y] = request[y]
      /\ g \in Grant /\ g.start = request'[r].computed
  BY <1>1 DEF Grants
<1>4. \A x : Awaiting(x)' = Awaiting(x)
  BY <1>3, SameFlight
<1>5. total < Limit
  BY DEF Admits, ExactInv
<1>6. Span(Len(hit)) \in Nat
  BY <1>2, <1>3 DEF Grant
<1>7. ExactInv'
  <2>1. \A x \in Unfinished' : request'[x].total < Limit
    BY <1>2, <1>3, <1>5, RunningTypes DEF ExactInv, IInv
  <2>2. ASSUME NEW x \in Running'
        PROVE  /\ request'[x].computed + 1 <= request'[x].total + Awaiting(x)'
               /\ Awaiting(x)' > 0 => request'[x].computed + 1 = request'[x].total + Awaiting(x)'
    <3>1. CASE x = r
      BY <1>2, <1>4, <1>6, <3>1
    <3>2. CASE x # r
      <4>1. x \in Running /\ request'[x] = request[x]
        BY <1>2, <1>3, <3>2, RunningTypes DEF IInv
      <4> QED
        BY <1>4, <4>1 DEF ExactInv
    <3> QED
      BY <3>1, <3>2
  <2> QED
    BY <2>1, <2>2 DEF ExactInv, Limit
<1>8. GrantInv'
  <2>1. total + 0 + g.drafts = total + g.drafts
    BY <1>2, <1>3 DEF Grant
  <2> QED
    BY <1>1, <1>2, <2>1, GrantsExact
<1> QED
  BY <1>7, <1>8

\* AdmitNew and Resume admit.
LEMMA AdmitNewAdmits ==
    ASSUME IInv, NEW r \in Req, AdmitNew(r)
    PROVE  \E total, hit, new, g : Admits(r, total, hit, new, g)
<1>1. /\ AdmissionOpen /\ waiting = << >> /\ r \in Unused /\ waiting' = waiting
  BY DEF AdmitNew
<1>2. PICK total \in Prompts : \E hit \in Hits(total) : Admit(r, total, hit)
  BY DEF AdmitNew
<1>3. PICK hit \in Hits(total) : Admit(r, total, hit)
  BY <1>2
<1>4. /\ r \notin Running /\ r \notin Range(waiting) /\ r \notin InFlight
      /\ r \notin DOMAIN worker /\ r \notin finished /\ r \notin Unfinished
  BY <1>1 DEF Unused, Unfinished
<1>5. request[r].placeholders = 0
  BY <1>4 DEF IInv, RequestInv, Idle
<1>6. total \in 1 .. Limit /\ total < Limit
  BY ServingAssumption, LimitType DEF Limit
<1>7. Range(waiting)' = Range(waiting) \ {r}
  BY <1>1, <1>4
<1>8. \E new, g : Admits(r, total, hit, new, g)
  BY <1>1, <1>3, <1>4, <1>5, <1>6, <1>7, AdmitGrants
<1> QED
  BY <1>8

LEMMA ResumeAdmits ==
    ASSUME IInv, Resume
    PROVE  \E r, total, hit, new, g : Admits(r, total, hit, new, g)
<1>1. /\ AdmissionOpen /\ waiting # << >> /\ waiting' = Tail(waiting)
  BY DEF Resume
<1>2. PICK r : r = Head(waiting)
  OBVIOUS
<1>3. PICK hit \in Hits(request[r].total) : Admit(r, request[r].total, hit)
  BY <1>2 DEF Resume
<1>4. /\ r \in Req /\ r \in Range(waiting) /\ Range(waiting)' = Range(waiting) \ {r}
  <2>1. waiting \in Seq(Req) /\ IsInjective(waiting)
    BY DEF IInv, TypesInv, QueuesInv
  <2> DEFINE s == Tail(waiting)
  <2>2. /\ r \in Req /\ Range(waiting) = Range(s) \cup {r} /\ r \notin Range(s)
    BY <1>1, <1>2, <2>1, HeadAndTail
  <2>3. waiting' = s
    BY <1>1
  <2> HIDE DEF s
  <2> QED
    BY <2>2, <2>3
<1>5. /\ phase = "scheduling" /\ preempted = {}
  BY <1>1 DEF AdmissionOpen
<1>6. r \notin Running /\ r \notin finished /\ r \in Unfinished
  BY <1>4 DEF IInv, QueuesInv, Unfinished
<1>7. r \notin DOMAIN worker
  BY <1>5, <1>6 DEF IInv, FlightInv
<1>8. r \notin InFlight
  <2>1. ASSUME NEW i \in DOMAIN inflight, r \in DOMAIN inflight[i]
        PROVE  FALSE
    <3>1. Len(inflight) = Depth /\ Len(inflight) < Depth
      BY <1>4, <1>5, <2>1 DEF IInv, FlightInv
    <3>2. Depth \in Nat
      BY DEF Depth
    <3> QED
      BY <3>1, <3>2
  <2> QED
    BY <2>1 DEF InFlight
<1>9. request[r].total \in 1 .. Limit /\ request[r].placeholders = 0
  <2>1. Awaiting(r) = 0
    BY <1>8, FlightSums DEF IInv
  <2> QED
    BY <1>6, <2>1 DEF IInv, RequestInv
<1> DEFINE total == request[r].total
<1> HIDE DEF total
<1>10. \E new, g : Admits(r, total, hit, new, g)
  BY <1>1, <1>3, <1>4, <1>6, <1>7, <1>8, <1>9, AdmitGrants DEF total
<1> QED
  BY <1>10

LEMMA PreemptExact ==
    ASSUME IInv, ExactInv, GrantInv, Preempt
    PROVE  ExactInv' /\ GrantInv'
<1>1. PICK v : Gives(v)
  BY PreemptGives
<1>2. /\ Running' = Running \ {v} /\ Unfinished' = Unfinished /\ v \notin DOMAIN batch
      /\ \A x \in Req : x # v => request'[x] = request[x]
      /\ request'[v].total = request[v].total
      /\ batch' = batch /\ worker' = worker /\ inflight' = inflight
  BY <1>1 DEF Gives
<1>3. \A x : Awaiting(x)' = Awaiting(x)
  BY <1>2, SameFlight
<1>4. ExactInv'
  BY <1>2, <1>3, RunningTypes DEF ExactInv, IInv, Limit
<1>5. GrantInv'
  <2>1. \A x \in DOMAIN batch : x # v /\ x \in Req
    BY <1>2, BatchTypes DEF IInv
  <2> QED
    BY <1>2, <2>1 DEF GrantInv, Span
<1> QED
  BY <1>4, <1>5

LEMMA AbortExact ==
    ASSUME IInv, ExactInv, GrantInv, NEW r \in Req, Abort(r)
    PROVE  ExactInv' /\ GrantInv'
<1>1. /\ Running' = Running \ {r} /\ Unfinished' = Unfinished \ {r}
      /\ \A x \in Req : x # r => request'[x] = request[x]
      /\ DOMAIN batch = {} /\ batch' = batch /\ inflight' = inflight
  BY AbortLeaves
<1>2. \A x : Awaiting(x)' = Awaiting(x)
  BY <1>1, SameFlight
<1>3. ExactInv'
  BY <1>1, <1>2, RunningTypes DEF ExactInv, IInv, Limit
<1>4. GrantInv'
  BY <1>1 DEF GrantInv
<1> QED
  BY <1>3, <1>4

\* Between two steps the worker knows whoever runs.
LEMMA IdleRunning ==
    ASSUME IInv, DOMAIN batch = {}
    PROVE  Running \subseteq DOMAIN worker
  BY DEF IInv, FlightInv

\* The counters of a running request, without types.
LEMMA RunningCounts ==
    ASSUME IInv, NEW r \in Running, r \in DOMAIN worker
    PROVE  /\ r \in Req /\ r \in Unfinished
           /\ request[r].computed \in Nat /\ request[r].total \in Nat
           /\ worker[r].rows \in Nat
           /\ request[r].computed = worker[r].rows + Behind(r)
           /\ Behind(r) = Rejected(1, r) + Rejected(2, r)
           /\ Awaiting(r) = Sampled(1, r) + Sampled(2, r)
           /\ Rejected(1, r) \in Nat /\ Rejected(2, r) \in Nat
           /\ Sampled(1, r) \in Nat /\ Sampled(2, r) \in Nat
           /\ Rejected(1, r) <= Sampled(1, r) /\ Rejected(2, r) <= Sampled(2, r)
           /\ Awaiting(r) \in Nat /\ Behind(r) \in Nat
<1>1. TypesInv /\ FlightInv /\ CountInv
  BY DEF IInv
<1>2. r \in Req /\ r \in Unfinished
  BY <1>1, RunningTypes DEF Unfinished
<1> QED
  BY <1>1, <1>2, RequestTypes, StateTypes, FlightSlack DEF CountInv

LEMMA CompletesExact ==
    ASSUME IInv, ExactInv, GrantInv, NEW known, NEW stopped, Completes(known, stopped)
    PROVE  ExactInv' /\ GrantInv'
<1>1. TypesInv /\ FlightInv
  BY DEF IInv
<1>2. DOMAIN batch = {} /\ DOMAIN (batch') = {}
  BY DEF Completes
<1>3. ASSUME NEW x \in Unfinished'
      PROVE  request'[x].total < Limit
  <2>1. x \in Unfinished /\ x \in Req /\ x \notin stopped
    BY <1>1, <1>3, RunningTypes DEF Completes
  <2>2. request[x].total < Limit /\ request[x].total \in Nat
    BY <1>1, <2>1, RequestTypes DEF ExactInv
  <2>3. CASE x \notin known
    BY <2>1, <2>2, <2>3 DEF Completes
  <2>4. CASE x \in known
    <3>1. /\ request'[x].total = request[x].total + (Sampled(1, x) - Rejected(1, x))
          /\ Sampled(1, x) > 0 => request'[x].total < Limit
      BY <2>1, <2>4 DEF Completes
    <3>2. /\ Sampled(1, x) \in Nat /\ Rejected(1, x) \in Nat
          /\ Rejected(1, x) <= Sampled(1, x)
      BY <1>1, FlightSlack
    <3> QED
      BY <2>2, <3>1, <3>2
  <2> QED
    BY <2>3, <2>4
<1>4. ASSUME NEW x \in Running'
      PROVE  /\ request'[x].computed + 1 <= request'[x].total + Awaiting(x)'
             /\ Awaiting(x)' > 0 => request'[x].computed + 1 = request'[x].total + Awaiting(x)'
  <2> DEFINE c == request[x].computed  t == request[x].total  a == Awaiting(x)
             s == Sampled(1, x)  j == Rejected(1, x)
  <2>1. x \in Running /\ x \notin stopped /\ x \in DOMAIN worker
    BY <1>2, <1>4, IdleRunning DEF Completes
  <2>2. /\ x \in Req /\ x \in Unfinished /\ c \in Nat /\ t \in Nat /\ a \in Nat /\ s \in Nat
        /\ j \in Nat /\ j <= s
    BY <2>1, RunningCounts
  <2>3. j <= c
    <3> DEFINE rows == worker[x].rows  j2 == Rejected(2, x)
    <3>1. rows \in Nat /\ j2 \in Nat /\ c = rows + (j + j2)
      BY <2>1, RunningCounts
    <3> HIDE DEF rows, j2, c, j
    <3> QED
      BY <2>2, <3>1
  <2>4. /\ c + 1 <= t + a /\ (a > 0 => c + 1 = t + a)
    BY <2>1 DEF ExactInv
  <2>5. a >= s
    <3> DEFINE s2 == Sampled(2, x)
    <3>1. s2 \in Nat /\ a = s + s2
      BY <2>1, RunningCounts
    <3> HIDE DEF s2, a, s
    <3> QED
      BY <2>2, <3>1
  <2>6. Awaiting(x)' = a - s
    BY DEF Completes
  <2>7. CASE x \notin known
    <3>1. request'[x] = request[x] /\ s = 0
      BY <2>1, <2>2, <2>7 DEF Completes
    <3>2. Awaiting(x)' = a
      BY <2>2, <2>6, <3>1
    <3> QED
      BY <2>4, <3>1, <3>2
  <2>8. CASE x \in known
    <3>1. /\ request'[x].computed = Monus(c, j)
          /\ request'[x].total = t + (s - j)
      BY <2>1, <2>8 DEF Completes
    <3> HIDE DEF c, t, a, s, j
    <3>2. Monus(c, j) = c - j
      BY <2>2, <2>3 DEF Monus
    <3> QED
      BY <2>2, <2>3, <2>4, <2>5, <2>6, <3>1, <3>2
  <2> QED
    BY <2>7, <2>8
<1>5. ExactInv'
  BY <1>3, <1>4 DEF ExactInv, Limit
<1>6. GrantInv'
  BY <1>2 DEF GrantInv
<1> QED
  BY <1>5, <1>6

LEMMA DispatchesExact ==
    ASSUME IInv, ExactInv, GrantInv, NEW b, Dispatches(b)
    PROVE  ExactInv' /\ GrantInv'
<1>1. TypesInv /\ FlightInv /\ RequestInv /\ BatchInv
  BY DEF IInv
<1>2. /\ phase = "scheduling" /\ DOMAIN (batch') = {} /\ DOMAIN batch \subseteq Running
      /\ Running' = Running /\ Unfinished' = Unfinished
      /\ \A r \in Req \ DOMAIN batch : request'[r] = request[r]
      /\ \A r : Awaiting(r)' = Awaiting(r) + (IF r \in DOMAIN batch /\ b[r].sampled
                                            THEN 1 + b[r].drafts ELSE 0)
  BY DEF Dispatches
<1>3. ASSUME NEW x \in Unfinished
      PROVE  request'[x].total < Limit
  <2>1. x \in Req /\ request[x].total < Limit
    BY <1>1, RunningTypes DEF ExactInv
  <2>2. x \in DOMAIN batch => request'[x].total = request[x].total
    BY DEF Dispatches
  <2> QED
    BY <1>2, <2>1, <2>2
<1>4. ASSUME NEW x \in Running
      PROVE  /\ request'[x].computed + 1 <= request'[x].total + Awaiting(x)'
             /\ Awaiting(x)' > 0 => request'[x].computed + 1 = request'[x].total + Awaiting(x)'
  <2> DEFINE c == request[x].computed  t == request[x].total  a == Awaiting(x)
             p == request[x].placeholders
  <2>1. x \in Req /\ x \in Unfinished
    BY <1>1, RunningTypes DEF Unfinished
  <2>2. c \in Nat /\ t \in Nat /\ a \in Nat /\ p \in Nat
    BY <1>1, <2>1, RequestTypes, FlightSlack
  <2>3. c + 1 <= t + a /\ (a > 0 => c + 1 = t + a)
    BY DEF ExactInv
  <2>4. p = a
    <3>1. ~async => a = 0
      BY <1>1, <1>2, FlightSums
    <3> QED
      BY <1>1, <2>1, <3>1 DEF RequestInv
  <2>5. CASE x \notin DOMAIN batch
    <3>1. request'[x] = request[x] /\ Awaiting(x)' = a + 0
      BY <1>2, <2>1, <2>5
    <3> QED
      BY <2>2, <2>3, <3>1
  <2>6. CASE x \in DOMAIN batch
    <3> DEFINE n == batch[x].sched  d == batch[x].drafts
    <3>1. n \in Nat /\ d \in Nat
      BY <1>1, <2>6, BatchTypes
    <3>2. /\ d < n /\ (d > 0 => c + n = t + p + d)
          /\ c + n <= t + p + d
          /\ d > 0 => t + p <= c + n
      BY <1>1, <2>6 DEF GrantInv, BatchInv
    <3>3. /\ request'[x].total = t /\ request'[x].computed = c + n
          /\ b[x].drafts = d
          /\ b[x].sampled = (c + n >= t + p)
      BY <2>6 DEF Dispatches
    <3>4. Awaiting(x)' = a + (IF c + n >= t + p THEN 1 + d ELSE 0)
      BY <1>2, <2>6, <3>3
    <3> HIDE DEF c, t, a, p, n, d
    <3>5. CASE c + n >= t + p
      <4>1. Awaiting(x)' = a + (1 + d)
        BY <3>4, <3>5
      <4>2. c + n = t + p + d
        BY <2>2, <3>1, <3>2, <3>5
      <4> QED
        BY <2>2, <2>4, <3>1, <3>3, <4>1, <4>2
    <3>6. CASE ~ (c + n >= t + p)
      <4>1. Awaiting(x)' = a + 0
        BY <3>4, <3>6
      <4>2. a = 0
        BY <2>2, <2>3, <2>4, <3>1, <3>2, <3>6
      <4> QED
        BY <2>2, <2>4, <3>1, <3>3, <3>6, <4>1, <4>2
    <3> QED
      BY <3>5, <3>6
  <2> QED
    BY <2>5, <2>6
<1>5. ExactInv'
  BY <1>2, <1>3, <1>4 DEF ExactInv, Limit
<1>6. GrantInv'
  BY <1>2 DEF GrantInv
<1> QED
  BY <1>5, <1>6

LEMMA InitExact == Init => ExactInv /\ GrantInv
<1>1. Init => Unfinished = {} /\ Running = {} /\ DOMAIN batch = {}
  BY NoPartial DEF Init, Unfinished, Running, Range
<1> QED
  BY <1>1 DEF ExactInv, GrantInv

LEMMA NextExact ==
    ASSUME IInv, ExactInv, GrantInv, [Next]_vars
    PROVE  ExactInv' /\ GrantInv'
<1>1. CASE StartStep
  <2>1. UNCHANGED <<request, running, waiting, batch, worker, inflight>>
    BY <1>1 DEF StartStep, queues, runner
  <2> QED
    BY <2>1, SameExact
<1>2. CASE ScheduleRunning
  BY <1>2, ScheduleRunningExact
<1>3. CASE Preempt
  BY <1>3, PreemptExact
<1>4. CASE Resume
  BY <1>4, ResumeAdmits, AdmitsExact
<1>5. CASE Dispatch
  BY <1>5, DispatchSends, DispatchesExact
<1>6. CASE Settle
  <2>1. UNCHANGED <<request, running, waiting, batch, worker, inflight>>
    BY <1>6 DEF Settle, scheduler, queues
  <2> QED
    BY <2>1, SameExact
<1>7. CASE Complete
  BY <1>7, CompleteLeaves, CompletesExact
<1>8. ASSUME NEW r \in Req, AdmitNew(r)
      PROVE  ExactInv' /\ GrantInv'
  BY <1>8, AdmitNewAdmits, AdmitsExact
<1>9. ASSUME NEW r \in Req, Abort(r)
      PROVE  ExactInv' /\ GrantInv'
  BY <1>9, AbortExact
<1>10. CASE UNCHANGED vars
  <2>1. UNCHANGED <<request, running, waiting, batch, worker, inflight>>
    BY <1>10 DEF vars, scheduler, queues, runner
  <2> QED
    BY <2>1, SameExact
<1> QED
  BY <1>1, <1>2, <1>3, <1>4, <1>5, <1>6, <1>7, <1>8, <1>9, <1>10 DEF Next

\* num_computed_tokens is ahead of the known tokens by exactly the tokens in
\* flight, whatever was rejected, preempted or aborted: the optimism of the
\* asynchronous scheduler never adds up.
THEOREM AheadTheorem == Spec => [](ExactInv /\ GrantInv)
<1>1. IInv /\ (ExactInv /\ GrantInv) /\ [Next]_vars => (ExactInv /\ GrantInv)'
  BY NextExact
<1> QED
  BY <1>1, AlwaysIInv, InitExact, PTL DEF Spec
=============================================================================
