------------------------ MODULE BlockTracker_proofs ------------------------
(***************************************************************************)
(* The tracker counts the tokens of a rank by a closed formula, the slot   *)
(* mapping kernel deals them out position by position.  For any number of  *)
(* ranks, interleave and size of a block, the two agree: what the kernel   *)
(* stores in a step lies in the blocks the tracker calls touched.          *)
(*                                                                         *)
(* Lemmas about the operations of the live block tracker, for any step     *)
(* they are called with: which blocks an update touches and the snapshot   *)
(* names, and that the tracker's tables stay tables of fills that name     *)
(* only blocks of the tables they were computed from.                      *)
(***************************************************************************)
EXTENDS BlockTracker, WellFoundedInduction, TLAPS

-----------------------------------------------------------------------------
(* Arithmetic. *)

\* Every set of natural numbers that has an element has a least one.  (The
\* library's induction rules take an operator as a parameter; this instance of
\* its theorem on minimal elements does not.)
LEMMA LeastElement ==
    ASSUME NEW T \in SUBSET Nat, T # {}
    PROVE  \E n \in T : \A m \in T : n <= m
<1>1. IsWellFoundedOn(OpToRel(<, Nat), Nat)
  BY NatLessThanWellFounded
<1>2. PICK n \in T : \A m \in T : ~ (<<m, n>> \in OpToRel(<, Nat))
  BY <1>1, WFMin
<1>3. ASSUME NEW m \in T PROVE n <= m
  <2>1. ~ (<<m, n>> \in OpToRel(<, Nat)) /\ <<m, n>> \in Nat \X Nat
    BY <1>2
  <2>2. ~ (m < n)
    BY <2>1 DEF OpToRel
  <2> QED
    BY <2>2
<1> QED
  BY <1>3

\* So every one that is bounded has a greatest.
LEMMA GreatestElement ==
    ASSUME NEW bound \in Nat, NEW T \in SUBSET (0 .. bound), T # {}
    PROVE  \E n \in T : \A m \in T : m <= n
<1> DEFINE room == {bound - n : n \in T}
<1>1. room \in SUBSET Nat /\ room # {}
  <2>1. \A n \in T : bound - n \in Nat
    OBVIOUS
  <2> QED
    BY <2>1
<1>2. PICK k \in room : \A m \in room : k <= m
  BY <1>1, LeastElement
<1>3. PICK n \in T : k = bound - n
  BY <1>2
<1>4. ASSUME NEW m \in T PROVE m <= n
  <2>1. k <= bound - m /\ m \in Nat /\ n \in Nat
    BY <1>2
  <2> QED
    BY <1>3, <2>1
<1> QED
  BY <1>4

LEMMA DivMod ==
    ASSUME NEW n \in Nat, NEW d \in Nat \ {0}
    PROVE  n \div d \in Nat /\ n % d \in 0 .. d - 1 /\ n = d * (n \div d) + (n % d)
  OBVIOUS

LEMMA DivUnique ==
    ASSUME NEW n \in Nat, NEW d \in Nat \ {0}, NEW q \in Nat, NEW r \in 0 .. d - 1,
           n = d * q + r
    PROVE  n \div d = q /\ n % d = r
  OBVIOUS

LEMMA TimesMonotone ==
    ASSUME NEW x \in Nat, NEW a \in Nat, NEW b \in Nat, a <= b
    PROVE  x * a <= x * b
  OBVIOUS

LEMMA DivMonotone ==
    ASSUME NEW d \in Nat \ {0}, NEW a \in Nat, NEW b \in Nat, a <= b
    PROVE  a \div d <= b \div d
<1> SUFFICES ASSUME (b \div d) + 1 <= a \div d PROVE FALSE
  BY DivMod
<1>1. b \div d \in Nat /\ a \div d \in Nat
  BY DivMod
<1>2. d * ((b \div d) + 1) <= d * (a \div d)
  BY <1>1, TimesMonotone
<1>3. d * ((b \div d) + 1) = d * (b \div d) + d
  BY <1>1
<1>4. b = d * (b \div d) + (b % d) /\ b % d \in 0 .. d - 1
  BY DivMod
<1>5. a = d * (a \div d) + (a % d) /\ a % d \in 0 .. d - 1
  BY DivMod
<1> QED
  BY <1>1, <1>2, <1>3, <1>4, <1>5

-----------------------------------------------------------------------------
(* The deal of the tokens. *)

Cycle == World * DcpInterleave

LEMMA Sizes ==
    /\ Cycle \in Nat \ {0}
    /\ \E g \in Nat \ {0} : Group = DcpInterleave * g /\ BlockTokens = Cycle * g
    /\ BlockTokens \in Nat \ {0}
    /\ Rank * DcpInterleave \in Nat
    /\ Rank * DcpInterleave + DcpInterleave <= Cycle
<1>1. Cycle \in Nat \ {0} /\ BlockTokens \in Nat \ {0} /\ Rank * DcpInterleave \in Nat
  BY GeometryAssumption DEF Cycle, BlockTokens
<1>2. Group = DcpInterleave * (Group \div DcpInterleave) /\ Group \div DcpInterleave \in Nat
  BY GeometryAssumption, DivMod
<1>3. Group \div DcpInterleave # 0
  BY <1>2, GeometryAssumption
<1>4. BlockTokens = Cycle * (Group \div DcpInterleave)
  BY <1>2, GeometryAssumption DEF BlockTokens, Cycle
<1>5. Rank * DcpInterleave + DcpInterleave <= Cycle
  <2>1. DcpInterleave * (Rank + 1) <= DcpInterleave * World
    BY GeometryAssumption, TimesMonotone
  <2> QED
    BY <2>1, GeometryAssumption DEF Cycle
<1> QED
  BY <1>1, <1>2, <1>3, <1>4, <1>5

\* A position is local when its place in the cycle is the rank's.
LEMMA LocalPlace ==
    ASSUME NEW pos \in Nat
    PROVE  IsLocal(pos) <=> pos % Cycle \in Rank * DcpInterleave ..
                                            Rank * DcpInterleave + DcpInterleave - 1
<1>1. PICK g \in Nat \ {0} : Group = DcpInterleave * g /\ BlockTokens = Cycle * g
  BY Sizes
<1> DEFINE o == pos % BlockTokens
           s == pos % Cycle
           b == pos \div BlockTokens
           k == o \div Cycle
           t == o % Cycle
<1>2. o \in Nat /\ b \in Nat /\ pos = BlockTokens * b + o /\ o \in 0 .. BlockTokens - 1
  <2>1. BlockTokens \in Nat \ {0}
    BY Sizes
  <2>2. b \in Nat /\ o \in 0 .. BlockTokens - 1 /\ pos = BlockTokens * b + o
    BY <2>1, DivMod
  <2> QED
    BY <2>1, <2>2
<1>3. k \in Nat /\ t \in 0 .. Cycle - 1 /\ o = Cycle * k + t
  BY <1>2, Sizes, DivMod
<1>4. t = s
  <2>1. pos = Cycle * (g * b + k) + t
    <3> HIDE DEF o, s, b, k, t
    <3> QED
      BY <1>1, <1>2, <1>3, Sizes
  <2>2. g * b + k \in Nat
    BY <1>2, <1>3
  <2> HIDE DEF o, b, k, t
  <2> QED
    BY <2>1, <2>2, <1>3, Sizes, DivUnique
<1> DEFINE u == t \div DcpInterleave
           v == t % DcpInterleave
<1>5. u \in Nat /\ v \in 0 .. DcpInterleave - 1 /\ t = DcpInterleave * u + v
  <2>1. t \in Nat /\ DcpInterleave \in Nat \ {0}
    BY <1>3, GeometryAssumption, Sizes
  <2> HIDE DEF t
  <2> QED
    BY <2>1, DivMod
<1>6. u < World
  <2> SUFFICES ASSUME World <= u PROVE FALSE
    BY <1>5, GeometryAssumption
  <2>1. DcpInterleave * World <= DcpInterleave * u
    BY <1>5, GeometryAssumption, TimesMonotone
  <2> HIDE DEF t, u, v
  <2> QED
    BY <2>1, <1>3, <1>5, GeometryAssumption DEF Cycle
<1>7. o \div DcpInterleave = World * k + u
  <2>1. o = DcpInterleave * (World * k + u) + v
    <3> HIDE DEF o, k, t, u, v
    <3> QED
      BY <1>3, <1>5, GeometryAssumption DEF Cycle
  <2> HIDE DEF k, u, v, t
  <2>2. World * k + u \in Nat
    BY <1>3, <1>5, GeometryAssumption
  <2> QED
    BY <2>1, <2>2, <1>2, <1>5, GeometryAssumption, DivUnique
<1>8. (World * k + u) % World = u
  <2> HIDE DEF k, u
  <2>1. World * k + u \in Nat /\ World \in Nat \ {0} /\ k \in Nat /\ u \in 0 .. World - 1
    BY <1>3, <1>5, <1>6, GeometryAssumption
  <2> QED
    BY <2>1, DivUnique
<1>9. IsLocal(pos) <=> u = Rank
  BY <1>7, <1>8 DEF IsLocal
<1>10. u = Rank <=> t \in Rank * DcpInterleave .. Rank * DcpInterleave + DcpInterleave - 1
  <2> HIDE DEF t, u, v
  <2>1. ASSUME u = Rank PROVE t \in Rank * DcpInterleave .. Rank * DcpInterleave + DcpInterleave - 1
    BY <1>3, <1>5, <2>1, GeometryAssumption
  <2>2. ASSUME t \in Rank * DcpInterleave .. Rank * DcpInterleave + DcpInterleave - 1
        PROVE  u = Rank
    <3>1. u < Rank => FALSE
      <4>1. u < Rank => DcpInterleave * (u + 1) <= DcpInterleave * Rank
        BY <1>5, GeometryAssumption, TimesMonotone
      <4> QED
        BY <4>1, <1>3, <1>5, <2>2, GeometryAssumption
    <3>2. u > Rank => FALSE
      <4>1. u > Rank => DcpInterleave * (Rank + 1) <= DcpInterleave * u
        BY <1>5, GeometryAssumption, TimesMonotone
      <4> QED
        BY <4>1, <1>3, <1>5, <2>2, GeometryAssumption
    <3> QED
      BY <3>1, <3>2, <1>5, GeometryAssumption
  <2> QED
    BY <2>1, <2>2
<1> QED
  BY <1>4, <1>9, <1>10

\* The rows of the incomplete cycle.
Part(x) == Lesser(Monus(x, Rank * DcpInterleave), DcpInterleave)

LEMMA CountParts ==
    ASSUME NEW n \in Nat
    PROVE  /\ LocalTokens(n) = (n \div Cycle) * DcpInterleave + Part(n % Cycle)
           /\ n \div Cycle \in Nat /\ n % Cycle \in 0 .. Cycle - 1
           /\ Part(n % Cycle) \in 0 .. DcpInterleave
           /\ LocalTokens(n) \in Nat
<1>1. n \div Cycle \in Nat /\ n % Cycle \in 0 .. Cycle - 1
  BY Sizes, DivMod
<1>2. Part(n % Cycle) \in 0 .. DcpInterleave
  BY <1>1, Sizes, GeometryAssumption DEF Part, Lesser, Monus
<1>3. LocalTokens(n) = (n \div Cycle) * DcpInterleave + Part(n % Cycle)
  BY DEF LocalTokens, LocalTokensOf, Part, Cycle
<1>4. (n \div Cycle) * DcpInterleave \in Nat
  BY <1>1, GeometryAssumption
<1> QED
  BY <1>1, <1>2, <1>3, <1>4

\* More tokens are never fewer rows.
LEMMA CountMonotone ==
    ASSUME NEW m \in Nat, NEW n \in Nat, m <= n
    PROVE  LocalTokens(m) <= LocalTokens(n)
<1> DEFINE p == m \div Cycle
           q == n \div Cycle
<1>1. p <= q
  BY Sizes, DivMonotone
<1>2. CASE p = q
  <2>1. m % Cycle <= n % Cycle
    <3>1. m = Cycle * p + (m % Cycle) /\ n = Cycle * q + (n % Cycle)
      BY Sizes, DivMod
    <3>2. m % Cycle \in Nat /\ n % Cycle \in Nat /\ Cycle * p \in Int
      BY CountParts, Sizes
    <3> HIDE DEF p, q
    <3> QED
      BY <3>1, <3>2, <1>2
  <2>2. Part(m % Cycle) <= Part(n % Cycle)
    <3>1. m % Cycle \in Nat /\ n % Cycle \in Nat
      BY CountParts, Sizes
    <3>2. \A x, y \in Nat : x <= y => Part(x) <= Part(y)
      BY Sizes, GeometryAssumption DEF Part, Lesser, Monus
    <3> QED
      BY <2>1, <3>1, <3>2
  <2> QED
    BY <2>2, <1>2, CountParts, GeometryAssumption
<1>3. CASE p < q
  <2>1. DcpInterleave * (p + 1) <= DcpInterleave * q
    <3>1. p \in Nat /\ q \in Nat /\ DcpInterleave \in Nat
      BY CountParts, GeometryAssumption
    <3> HIDE DEF p, q
    <3> QED
      BY <1>3, <3>1, TimesMonotone
  <2>2. p \in Nat /\ q \in Nat /\ Part(m % Cycle) \in 0 .. DcpInterleave
        /\ Part(n % Cycle) \in 0 .. DcpInterleave
    BY CountParts
  <2>3. LocalTokens(m) = p * DcpInterleave + Part(m % Cycle)
        /\ LocalTokens(n) = q * DcpInterleave + Part(n % Cycle)
    BY CountParts
  <2> HIDE DEF p, q
  <2> QED
    BY <2>1, <2>2, <2>3, GeometryAssumption
<1> QED
  BY <1>1, <1>2, <1>3, CountParts

\* The row of a local position is the number of local positions before it: the
\* tracker's count and the kernel's slot are the same.
LEMMA LocalRow ==
    ASSUME NEW pos \in Nat, IsLocal(pos)
    PROVE  /\ LocalTokens(pos + 1) = LocalTokens(pos) + 1
           /\ LocalTokens(pos) = (pos \div Cycle) * DcpInterleave
                                    + ((pos % Cycle) - Rank * DcpInterleave)
<1> DEFINE q == pos \div Cycle
           s == pos % Cycle
<1>1. q \in Nat /\ s \in 0 .. Cycle - 1 /\ pos = Cycle * q + s
  BY Sizes, DivMod
<1>2. s \in Rank * DcpInterleave .. Rank * DcpInterleave + DcpInterleave - 1
  BY LocalPlace
<1>3. Part(s) = s - Rank * DcpInterleave
  <2> HIDE DEF s
  <2> QED
    BY <1>1, <1>2, Sizes, GeometryAssumption DEF Part, Lesser, Monus
<1>4. LocalTokens(pos) = q * DcpInterleave + (s - Rank * DcpInterleave)
  BY <1>3, CountParts
<1>5. CASE s + 1 < Cycle
  <2>1. (pos + 1) \div Cycle = q /\ (pos + 1) % Cycle = s + 1
    <3>1. pos + 1 = Cycle * q + (s + 1) /\ s + 1 \in 0 .. Cycle - 1
      <4> HIDE DEF q, s
      <4> QED
        BY <1>1, <1>5, Sizes
    <3>2. pos + 1 \in Nat /\ q \in Nat /\ Cycle \in Nat \ {0}
      BY <1>1, Sizes
    <3> HIDE DEF q, s
    <3> QED
      BY <3>1, <3>2, DivUnique
  <2>2. Part(s + 1) = s + 1 - Rank * DcpInterleave
    <3> HIDE DEF s
    <3> QED
      BY <1>1, <1>2, Sizes, GeometryAssumption DEF Part, Lesser, Monus
  <2>3. LocalTokens(pos + 1) = q * DcpInterleave + Part(s + 1)
    BY <2>1, CountParts
  <2>4. q * DcpInterleave \in Int /\ s \in Int /\ Rank * DcpInterleave \in Int
    BY <1>1, Sizes, GeometryAssumption
  <2>5. LocalTokens(pos + 1) = LocalTokens(pos) + 1
    <3> HIDE DEF q, s
    <3> QED
      BY <2>2, <2>3, <2>4, <1>4
  <2> QED
    BY <2>5, <1>4
<1>6. CASE s + 1 = Cycle
  <2>1. (pos + 1) \div Cycle = q + 1 /\ (pos + 1) % Cycle = 0
    <3>1. pos + 1 = Cycle * (q + 1) + 0
      <4> HIDE DEF q, s
      <4> QED
        BY <1>1, <1>6, Sizes
    <3>2. 0 \in 0 .. Cycle - 1 /\ q + 1 \in Nat
      BY Sizes, <1>1
    <3> HIDE DEF q
    <3> QED
      BY <3>1, <3>2, Sizes, DivUnique
  <2>2. Part(0) = 0
    BY Sizes, GeometryAssumption DEF Part, Lesser, Monus
  <2>3. LocalTokens(pos + 1) = (q + 1) * DcpInterleave
    <3>1. LocalTokens(pos + 1) = (q + 1) * DcpInterleave + 0
      BY <2>1, <2>2, CountParts
    <3>2. (q + 1) * DcpInterleave \in Int
      BY <1>1, GeometryAssumption
    <3> QED
      BY <3>1, <3>2
  <2>4. s = Rank * DcpInterleave + DcpInterleave - 1
    <3> HIDE DEF s
    <3> QED
      BY <1>2, <1>6, Sizes, GeometryAssumption
  <2>5. LocalTokens(pos + 1) = LocalTokens(pos) + 1
    <3>1. LocalTokens(pos) = q * DcpInterleave + (DcpInterleave - 1)
      <4>1. Rank * DcpInterleave \in Int
        BY Sizes
      <4> HIDE DEF q, s
      <4> QED
        BY <4>1, <2>4, <1>4, GeometryAssumption
    <3> HIDE DEF q, s
    <3> QED
      BY <3>1, <2>3, <1>1, GeometryAssumption
  <2> QED
    BY <2>5, <1>4
<1> QED
  BY <1>1, <1>4, <1>5, <1>6, Sizes

\* The tracker finds the block of a local row where the kernel stores it.
LEMMA LocalBlock ==
    ASSUME NEW pos \in Nat, IsLocal(pos)
    PROVE  LocalTokens(pos) \div Group = pos \div BlockTokens
<1>1. PICK g \in Nat \ {0} : Group = DcpInterleave * g /\ BlockTokens = Cycle * g
  BY Sizes
<1> DEFINE q == pos \div Cycle
           s == pos % Cycle
           b == q \div g
           k == q % g
           t == s - Rank * DcpInterleave
<1>2. q \in Nat /\ s \in 0 .. Cycle - 1 /\ pos = Cycle * q + s
  BY Sizes, DivMod
<1>3. b \in Nat /\ k \in 0 .. g - 1 /\ q = g * b + k
  BY <1>1, <1>2, DivMod
<1>4. t \in 0 .. DcpInterleave - 1
  BY LocalPlace, Sizes, GeometryAssumption
<1>5. LocalTokens(pos) = q * DcpInterleave + t
  BY LocalRow
<1> HIDE DEF q, s, b, k, t
<1>6. LocalTokens(pos) = Group * b + (DcpInterleave * k + t)
  BY <1>1, <1>2, <1>3, <1>4, <1>5, GeometryAssumption
<1>7. DcpInterleave * k + t \in 0 .. Group - 1
  <2>1. DcpInterleave * (k + 1) <= DcpInterleave * g
    BY <1>1, <1>3, GeometryAssumption, TimesMonotone
  <2> QED
    BY <2>1, <1>1, <1>3, <1>4, GeometryAssumption
<1>8. pos = BlockTokens * b + (Cycle * k + s)
  BY <1>1, <1>2, <1>3, Sizes
<1>9. Cycle * k + s \in 0 .. BlockTokens - 1
  <2>1. Cycle * (k + 1) <= Cycle * g
    BY <1>1, <1>3, Sizes, TimesMonotone
  <2> QED
    BY <2>1, <1>1, <1>2, <1>3, Sizes
<1>10. LocalTokens(pos) \div Group = b
  <2>1. LocalTokens(pos) \in Nat /\ Group \in Nat \ {0}
    BY CountParts, GeometryAssumption
  <2> QED
    BY <2>1, <1>3, <1>6, <1>7, DivUnique
<1>11. pos \div BlockTokens = b
  BY <1>3, <1>8, <1>9, Sizes, DivUnique
<1> QED
  BY <1>10, <1>11

\* No rank holds more rows than there are tokens.
LEMMA CountBound ==
    ASSUME NEW n \in Nat
    PROVE  LocalTokens(n) <= n
<1> DEFINE q == n \div Cycle
           s == n % Cycle
<1>1. /\ LocalTokens(n) = q * DcpInterleave + Part(s)
      /\ q \in Nat /\ s \in 0 .. Cycle - 1
  BY CountParts
<1>2. n = Cycle * q + s
  BY Sizes, DivMod
<1> HIDE DEF q, s
<1>3. Part(s) <= s /\ Part(s) \in Nat
  BY <1>1, Sizes, GeometryAssumption DEF Part, Lesser, Monus
<1>4. q * DcpInterleave <= q * Cycle
  <2>1. DcpInterleave <= Cycle /\ DcpInterleave \in Nat /\ Cycle \in Nat
    BY Sizes, GeometryAssumption
  <2> QED
    BY <1>1, <2>1, TimesMonotone
<1>5. q * DcpInterleave \in Nat /\ q * Cycle \in Nat /\ Cycle * q = q * Cycle
  BY <1>1, Sizes, GeometryAssumption
<1> QED
  BY <1>1, <1>2, <1>3, <1>4, <1>5

\* A row among the first `end` ones lies in one of the first Blocks(end) blocks.
LEMMA RowBlock ==
    ASSUME NEW row \in Nat, NEW end \in Nat, row < end
    PROVE  /\ row \div Group \in Nat /\ Blocks(end) \in Nat
           /\ row \div Group + 1 <= Blocks(end)
           /\ row \div Group <= (end - 1) \div Group
           /\ Group * (row \div Group) <= row
<1> DEFINE k == row \div Group
<1>1. /\ Group \in Nat \ {0} /\ end - 1 \in Nat /\ end + Group - 1 \in Nat
      /\ row <= end - 1
  BY GeometryAssumption
<1>2. k \in Nat /\ row % Group \in 0 .. Group - 1 /\ row = Group * k + (row % Group)
  BY <1>1, DivMod
<1>3. Blocks(end) \in Nat
  BY <1>1, DivMod DEF Blocks
<1>4. k <= (end - 1) \div Group
  BY <1>1, DivMonotone
<1>5. Group * (k + 1) = Group * k + Group /\ Group * k \in Nat
  <2> HIDE DEF k
  <2> QED
    BY <1>1, <1>2
<1>6. Group * (k + 1) \in Nat /\ Group * (k + 1) <= end + Group - 1
  <2> HIDE DEF k
  <2> QED
    BY <1>1, <1>2, <1>5
<1>7. (Group * (k + 1)) \div Group = k + 1
  <2>1. Group * (k + 1) = Group * (k + 1) + 0 /\ 0 \in 0 .. Group - 1 /\ k + 1 \in Nat
    <3> HIDE DEF k
    <3> QED
      BY <1>1, <1>2, <1>6
  <2> HIDE DEF k
  <2> QED
    BY <1>1, <1>6, <2>1, DivUnique
<1>8. (Group * (k + 1)) \div Group <= Blocks(end)
  <2> HIDE DEF k
  <2> QED
    BY <1>1, <1>6, DivMonotone DEF Blocks
<1>9. Group * k <= row
  <2> HIDE DEF k
  <2> QED
    BY <1>1, <1>2, <1>5
<1> QED
  BY <1>2, <1>3, <1>4, <1>7, <1>8, <1>9

\* The logical block of a position.
Place(pos) == pos \div BlockTokens

\* What BlocksOf finds, position by position.
LEMMA BlockOfRow ==
    ASSUME NEW S, NEW table \in Seq(S), NEW from \in Nat, NEW to \in Nat,
           NEW b \in BlocksOf(table, from, to)
    PROVE  \E pos \in Nat :
              /\ from <= pos /\ pos < to /\ IsLocal(pos)
              /\ Place(pos) \in Nat /\ Place(pos) + 1 \in 1 .. Len(table)
              /\ b = table[Place(pos) + 1]
<1>0. PICK j \in DOMAIN table : b = table[j] /\
         \E pos \in Greater(from, (j - 1) * BlockTokens) .. Lesser(to, j * BlockTokens) - 1 :
             IsLocal(pos)
  BY DEF BlocksOf
<1>1. PICK pos \in Greater(from, (j - 1) * BlockTokens) .. Lesser(to, j * BlockTokens) - 1 :
             IsLocal(pos)
  BY <1>0
<1> DEFINE k == j - 1
<1>2. j \in 1 .. Len(table) /\ k \in Nat /\ j = k + 1
  OBVIOUS
<1>3. /\ k * BlockTokens \in Nat /\ j * BlockTokens = k * BlockTokens + BlockTokens
      /\ BlockTokens \in Nat \ {0}
  <2>1. BlockTokens \in Nat \ {0}
    BY Sizes
  <2> HIDE DEF k
  <2> QED
    BY <2>1, <1>2
<1>4. /\ pos \in Nat /\ from <= pos /\ pos < to
      /\ k * BlockTokens <= pos /\ pos < k * BlockTokens + BlockTokens
  <2>1. pos \in Greater(from, k * BlockTokens)
                  .. Lesser(to, k * BlockTokens + BlockTokens) - 1
    BY <1>3
  <2> HIDE DEF k
  <2> QED
    BY <2>1, <1>3 DEF Greater, Lesser
<1>5. Place(pos) = k
  <2>1. pos = BlockTokens * k + (pos - k * BlockTokens)
        /\ pos - k * BlockTokens \in 0 .. BlockTokens - 1
    <3> HIDE DEF k
    <3> QED
      BY <1>2, <1>3, <1>4
  <2>2. PICK o \in 0 .. BlockTokens - 1 : pos = BlockTokens * k + o
    BY <2>1
  <2> HIDE DEF k
  <2> QED
    BY <1>2, <1>3, <1>4, <2>2, DivUnique DEF Place
<1> HIDE DEF k
<1> QED
  BY <1>0, <1>1, <1>2, <1>4, <1>5

\* The blocks a request keeps include that of every local row in the sink or in
\* the tail.
LEMMA PersistentRow ==
    ASSUME NEW S, NEW table \in Seq(S), NEW minEnd, NEW maxEnd \in Nat, NEW tail \in Nat,
           NEW pos \in Nat, IsLocal(pos), pos < maxEnd,
           Place(pos) + 1 \in 1 .. Len(table),
           pos < Boundary \/ (PrecisionTail > 0 /\ tail <= pos)
    PROVE  table[Place(pos) + 1]
             \in DOMAIN PersistentBlocks(table, minEnd, LocalTokens(maxEnd), LocalTokens(tail))
<1> DEFINE row == LocalTokens(pos)
           end == LocalTokens(maxEnd)
           n   == NumLogical(table, end)
           k   == Place(pos)
<1>1. /\ row \in Nat /\ end \in Nat /\ LocalTokens(tail) \in Nat
      /\ LocalTokens(pos + 1) = row + 1
  BY CountParts, LocalRow
<1>2. row < end
  <2>1. LocalTokens(pos + 1) <= end
    BY CountMonotone
  <2> HIDE DEF row, end
  <2> QED
    BY <1>1, <2>1
<1>3. k = row \div Group /\ k \in Nat
  <2>1. k = row \div Group
    BY LocalBlock DEF Place
  <2>2. row \div Group \in Nat
    <3> HIDE DEF row
    <3> QED
      BY <1>1, GeometryAssumption, DivMod
  <2> QED
    BY <2>1, <2>2
<1>4. k \in 0 .. n - 1
  <2>1. k + 1 <= Blocks(end) /\ Blocks(end) \in Nat
    <3> HIDE DEF row, end
    <3> QED
      BY <1>1, <1>2, <1>3, RowBlock
  <2>2. k + 1 <= Len(table) /\ Len(table) \in Nat
    OBVIOUS
  <2> HIDE DEF k, end
  <2> QED
    BY <1>3, <2>1, <2>2 DEF NumLogical, Lesser
<1>5. CASE pos < Boundary
  <2>1. row < Boundary /\ Boundary \in Nat
    <3>1. row <= pos
      BY CountBound
    <3> HIDE DEF row
    <3> QED
      BY <1>1, <1>5, <3>1, GeometryAssumption
  <2>2. k + 1 <= Blocks(Boundary) /\ Blocks(Boundary) \in Nat
    <3> HIDE DEF row
    <3> QED
      BY <1>1, <1>3, <2>1, RowBlock
  <2>3. k < Blocks(Boundary)
    <3> HIDE DEF k
    <3> QED
      BY <2>2, <1>3
  <2> QED
    BY <1>4, <2>3 DEF PersistentBlocks, Kept, FillsOf
<1>6. CASE PrecisionTail > 0 /\ tail <= pos
  <2>1. LocalTokens(tail) <= row
    BY <1>6, CountMonotone
  <2>2. LocalTokens(tail) \div Group <= k
    <3> HIDE DEF row
    <3> QED
      BY <2>1, <1>1, <1>3, GeometryAssumption, DivMonotone
  <2> QED
    BY <1>4, <1>6, <2>2 DEF PersistentBlocks, Kept, FillsOf
<1> QED
  BY <1>5, <1>6

\* The tracker's count of local tokens and the slot mapping kernel agree on
\* every position the rank stores: on its row, which is the number of local
\* positions before it, and on its logical block.
THEOREM KernelAgrees ==
    \A pos \in Nat : IsLocal(pos) =>
        /\ LocalTokens(pos + 1) = LocalTokens(pos) + 1
        /\ LocalTokens(pos) \div Group = pos \div BlockTokens
  BY LocalRow, LocalBlock

-----------------------------------------------------------------------------
(* What a step touches. *)

\* A row between two positions a step may write is in a block it touches.
LEMMA TouchedRow ==
    ASSUME NEW e, NEW S, e.table \in Seq(S), MinStart(e) \in Nat, MaxEnd(e) \in Nat,
           NEW pos \in Nat, IsLocal(pos), MinStart(e) <= pos, pos < MaxEnd(e),
           Place(pos) + 1 \in 1 .. Len(e.table)
    PROVE  Place(pos) \in Touched(e)
<1> DEFINE first == LocalTokens(MinStart(e))
           last  == LocalTokens(MaxEnd(e))
           row   == LocalTokens(pos)
           k     == Place(pos)
           n     == NumLogical(e.table, last)
<1>1. /\ first \in Nat /\ last \in Nat /\ row \in Nat
      /\ first <= row /\ row < last
  <2>1. LocalTokens(pos + 1) = row + 1
    BY LocalRow
  <2>2. LocalTokens(pos + 1) <= last /\ first <= row
    BY CountMonotone
  <2>3. first \in Nat /\ last \in Nat /\ row \in Nat
    BY CountParts
  <2> HIDE DEF first, last, row
  <2> QED
    BY <2>1, <2>2, <2>3
<1>2. k = row \div Group
  BY LocalBlock DEF Place
<1>3. /\ k \in Nat /\ Blocks(last) \in Nat /\ k + 1 <= Blocks(last)
      /\ k <= (last - 1) \div Group
  <2> HIDE DEF first, last, row, k
  <2> QED
    BY <1>1, <1>2, RowBlock
<1>4. first \div Group <= k /\ first \div Group \in Nat /\ (last - 1) \div Group \in Nat
  <2>1. last - 1 \in Nat /\ Group \in Nat \ {0}
    BY <1>1, GeometryAssumption
  <2> HIDE DEF first, last, row, k
  <2> QED
    BY <2>1, <1>1, <1>2, DivMonotone, DivMod
<1>5. Len(e.table) \in Nat /\ k + 1 <= Len(e.table)
  OBVIOUS
<1> HIDE DEF first, last, row, k
<1>6. n \in Nat /\ k <= n - 1 /\ n > 0
  BY <1>3, <1>5 DEF NumLogical, Lesser
<1>7. k \in first \div Group .. Lesser((last - 1) \div Group, n - 1)
  <2> HIDE DEF n
  <2> QED
    BY <1>3, <1>4, <1>6 DEF Lesser
<1> QED
  BY <1>1, <1>6, <1>7 DEF Touched, first, last, n, k

\* What the kernels store between two such positions is in the touched blocks.
LEMMA WrittenAreTouched ==
    ASSUME NEW e, NEW S, e.table \in Seq(S), MinStart(e) \in Nat, MaxEnd(e) \in Nat,
           NEW from \in Nat, NEW to \in Nat,
           MinStart(e) <= from, to <= MaxEnd(e)
    PROVE  BlocksOf(e.table, from, to) \subseteq {e.table[k + 1] : k \in Touched(e)}
<1> SUFFICES ASSUME NEW b \in BlocksOf(e.table, from, to)
             PROVE  b \in {e.table[k + 1] : k \in Touched(e)}
  OBVIOUS
<1>1. PICK pos \in Nat :
          /\ from <= pos /\ pos < to /\ IsLocal(pos)
          /\ Place(pos) \in Nat /\ Place(pos) + 1 \in 1 .. Len(e.table)
          /\ b = e.table[Place(pos) + 1]
  BY BlockOfRow
<1>2. MinStart(e) <= pos /\ pos < MaxEnd(e)
  BY <1>1
<1> QED
  BY <1>1, <1>2, TouchedRow

\* The snapshot of a step names every block the step touches.
LEMMA TouchedInSnapshot ==
    ASSUME NEW removed, NEW scheduled, Update(removed, scheduled),
           NEW r \in DOMAIN scheduled
    PROVE  {scheduled[r].table[k + 1] : k \in Touched(scheduled[r])} \subseteq DOMAIN BlockFills'
<1> DEFINE touched == [q \in DOMAIN scheduled |-> TouchedFills(scheduled[q])]
<1>1. stepBlocks' = Merge(Consumed(removed), MergeAll(touched))
  BY DEF Update
<1>2. DOMAIN touched[r] = {scheduled[r].table[k + 1] : k \in Touched(scheduled[r])}
  BY DEF TouchedFills, FillsOf
<1>3. DOMAIN touched[r] \subseteq DOMAIN MergeAll(touched)
  <2>1. r \in DOMAIN touched
    OBVIOUS
  <2> HIDE DEF touched
  <2> QED
    BY <2>1 DEF MergeAll
<1>4. DOMAIN MergeAll(touched) \subseteq DOMAIN stepBlocks'
  BY <1>1 DEF Merge
<1>5. DOMAIN stepBlocks' \subseteq DOMAIN BlockFills'
  BY DEF BlockFills, Merge
<1> QED
  BY <1>2, <1>3, <1>4, <1>5

LEMMA Covered ==
    ASSUME NEW D, NEW w, NEW S, \A r \in D : w[r] \subseteq S
    PROVE  (UNION {w[r] : r \in D}) \ S = {}
<1>1. ASSUME NEW W \in {w[r] : r \in D} PROVE W \subseteq S
  OBVIOUS
<1> QED
  BY <1>1

-----------------------------------------------------------------------------
(* Tables of fills. *)

\* The tables of fills of some of the blocks in S.
Fillings(S) == UNION {[B -> 0 .. Group] : B \in SUBSET S}

Members(table) == {table[i] : i \in DOMAIN table}

LEMMA FillingDef ==
    ASSUME NEW S, NEW f, f = [b \in DOMAIN f |-> f[b]], DOMAIN f \subseteq S,
           \A b \in DOMAIN f : f[b] \in 0 .. Group
    PROVE  f \in Fillings(S)
<1>1. f \in [DOMAIN f -> 0 .. Group]
  OBVIOUS
<1> QED
  BY <1>1 DEF Fillings

LEMMA FillingParts ==
    ASSUME NEW S, NEW f \in Fillings(S)
    PROVE  /\ DOMAIN f \subseteq S
           /\ \A b \in DOMAIN f : f[b] \in 0 .. Group
           /\ f = [b \in DOMAIN f |-> f[b]]
<1>1. PICK B \in SUBSET S : f \in [B -> 0 .. Group]
  BY DEF Fillings
<1> QED
  BY <1>1

LEMMA FillingMonotone ==
    ASSUME NEW S, NEW R, S \subseteq R
    PROVE  Fillings(S) \subseteq Fillings(R)
  BY DEF Fillings

LEMMA NoFillings ==
    ASSUME NEW S
    PROVE  NoBlocks \in Fillings(S) /\ DOMAIN NoBlocks = {}
<1>1. DOMAIN NoBlocks = {} /\ NoBlocks = [b \in {} |-> 0]
  BY DEF NoBlocks
<1> HIDE DEF NoBlocks
<1>2. NoBlocks = [b \in DOMAIN NoBlocks |-> NoBlocks[b]]
  BY <1>1
<1> QED
  BY <1>1, <1>2, FillingDef

LEMMA MergeFilling ==
    ASSUME NEW S, NEW f \in Fillings(S), NEW g \in Fillings(S)
    PROVE  Merge(f, g) \in Fillings(S) /\ DOMAIN Merge(f, g) = DOMAIN f \cup DOMAIN g
<1> DEFINE h == Merge(f, g)
<1>1. DOMAIN h = DOMAIN f \cup DOMAIN g /\ h = [b \in DOMAIN h |-> h[b]]
  BY DEF Merge
<1>2. DOMAIN h \subseteq S
  BY <1>1, FillingParts
<1>3. ASSUME NEW b \in DOMAIN h PROVE h[b] \in 0 .. Group
  <2>1. /\ b \in DOMAIN f => f[b] \in 0 .. Group
        /\ b \in DOMAIN g => g[b] \in 0 .. Group
    BY FillingParts
  <2> QED
    BY <1>1, <1>3, <2>1 DEF Merge, Greater
<1> HIDE DEF h
<1>4. h \in Fillings(S)
  BY <1>1, <1>2, <1>3, FillingDef
<1> QED
  BY <1>1, <1>4 DEF h

LEMMA BlockFillType ==
    ASSUME NEW end \in Nat, NEW k \in Nat
    PROVE  BlockFill(end, k) \in 0 .. Group
<1>1. k * Group \in Nat /\ Group \in Nat
  BY GeometryAssumption
<1> DEFINE m == k * Group
<1>2. m \in Nat
  BY <1>1
<1> HIDE DEF m
<1>3. Lesser(Group, Monus(end, m)) \in 0 .. Group
  BY <1>1, <1>2 DEF Lesser, Monus
<1> QED
  BY <1>3 DEF BlockFill, m

LEMMA FillsOfFilling ==
    ASSUME NEW S, NEW table \in Seq(S), NEW end \in Nat,
           NEW K \in SUBSET Nat, \A k \in K : k + 1 \in 1 .. Len(table)
    PROVE  /\ FillsOf(table, K, end) \in Fillings(Members(table))
           /\ DOMAIN FillsOf(table, K, end) = {table[k + 1] : k \in K}
<1> DEFINE f == FillsOf(table, K, end)
<1>1. DOMAIN f = {table[k + 1] : k \in K} /\ f = [b \in DOMAIN f |-> f[b]]
  BY DEF FillsOf
<1>2. DOMAIN f \subseteq Members(table)
  <2>1. ASSUME NEW k \in K PROVE table[k + 1] \in Members(table)
    <3>1. k + 1 \in DOMAIN table
      OBVIOUS
    <3> QED
      BY <3>1 DEF Members
  <2> HIDE DEF f
  <2> QED
    BY <1>1, <2>1
<1>3. ASSUME NEW b \in DOMAIN f PROVE f[b] \in 0 .. Group
  <2> DEFINE k == CHOOSE i \in K : table[i + 1] = b
  <2>1. k \in K
    BY <1>1
  <2>2. f[b] = BlockFill(end, k)
    BY <1>1 DEF FillsOf
  <2> HIDE DEF k
  <2> QED
    BY <2>1, <2>2, BlockFillType
<1> HIDE DEF f
<1>4. f \in Fillings(Members(table))
  BY <1>1, <1>2, <1>3, FillingDef
<1> QED
  BY <1>1, <1>4 DEF f

LEMMA MergeAllFilling ==
    ASSUME NEW S, NEW fills, \A r \in DOMAIN fills : fills[r] \in Fillings(S)
    PROVE  /\ MergeAll(fills) \in Fillings(S)
           /\ DOMAIN MergeAll(fills) = UNION {DOMAIN fills[r] : r \in DOMAIN fills}
<1> DEFINE f    == MergeAll(fills)
           D    == UNION {DOMAIN fills[r] : r \in DOMAIN fills}
           g(b) == CHOOSE n \in 0 .. Group :
                      /\ \E r \in DOMAIN fills : b \in DOMAIN fills[r] /\ fills[r][b] = n
                      /\ \A r \in DOMAIN fills : b \in DOMAIN fills[r] => fills[r][b] <= n
<1>1. DOMAIN f = D /\ f = [b \in DOMAIN f |-> f[b]] /\ \A b \in D : f[b] = g(b)
  <2>1. f = [b \in D |-> g(b)]
    BY DEF MergeAll
  <2> HIDE DEF f, g, D
  <2> QED
    BY <2>1
<1>2. ASSUME NEW r \in DOMAIN fills
      PROVE  DOMAIN fills[r] \subseteq S /\ \A b \in DOMAIN fills[r] : fills[r][b] \in 0 .. Group
  BY FillingParts
<1>3. DOMAIN f \subseteq S
  BY <1>1, <1>2
<1>4. ASSUME NEW b \in DOMAIN f PROVE f[b] \in 0 .. Group
  <2> DEFINE H == {r \in DOMAIN fills : b \in DOMAIN fills[r]}
             T == {fills[r][b] : r \in H}
  <2>1. H # {}
    BY <1>1
  <2>2. T # {} /\ T \in SUBSET (0 .. Group)
    BY <1>2, <2>1
  <2>3. PICK n \in T : \A m \in T : m <= n
    BY <2>2, GreatestElement, GeometryAssumption
  <2>4. /\ n \in 0 .. Group
        /\ \E r \in DOMAIN fills : b \in DOMAIN fills[r] /\ fills[r][b] = n
        /\ \A r \in DOMAIN fills : b \in DOMAIN fills[r] => fills[r][b] <= n
    BY <2>2, <2>3
  <2>5. f[b] = g(b)
    BY <1>1
  <2>6. g(b) \in 0 .. Group
    BY <2>4
  <2> QED
    BY <2>5, <2>6
<1>5. f \in Fillings(S)
  <2> HIDE DEF f
  <2> QED
    BY <1>1, <1>3, <1>4, FillingDef
<1> QED
  BY <1>1, <1>5

\* A table of fills with some of its entries.
LEMMA RestrictFilling ==
    ASSUME NEW S, NEW f \in Fillings(S), NEW B \in SUBSET DOMAIN f
    PROVE  [b \in B |-> f[b]] \in Fillings(S)
<1> DEFINE g == [b \in B |-> f[b]]
<1>1. DOMAIN g = B /\ g = [b \in DOMAIN g |-> g[b]] /\ \A b \in B : g[b] = f[b]
  OBVIOUS
<1>2. DOMAIN f \subseteq S /\ \A b \in DOMAIN f : f[b] \in 0 .. Group
  BY FillingParts
<1> HIDE DEF g
<1>3. g \in Fillings(S)
  BY <1>1, <1>2, FillingDef
<1> QED
  BY <1>3 DEF g

LEMMA NumLogicalBound ==
    ASSUME NEW S, NEW table \in Seq(S), NEW end \in Nat
    PROVE  /\ NumLogical(table, end) \in Nat
           /\ \A k \in 0 .. NumLogical(table, end) - 1 : k \in Nat /\ k + 1 \in 1 .. Len(table)
<1> DEFINE n == NumLogical(table, end)
<1>1. Blocks(end) \in Nat
  <2>1. end + Group - 1 \in Nat /\ Group \in Nat \ {0}
    BY GeometryAssumption
  <2> QED
    BY <2>1, DivMod DEF Blocks
<1>2. Len(table) \in Nat /\ n \in Nat /\ n <= Len(table)
  BY <1>1 DEF NumLogical, Lesser
<1> HIDE DEF n
<1>3. \A k \in 0 .. n - 1 : k \in Nat /\ k + 1 \in 1 .. Len(table)
  BY <1>2
<1> QED
  BY <1>2, <1>3 DEF n

LEMMA PersistentFilling ==
    ASSUME NEW S, NEW table \in Seq(S), NEW minEnd \in Nat, NEW maxEnd \in Nat, NEW tailStart
    PROVE  PersistentBlocks(table, minEnd, maxEnd, tailStart) \in Fillings(Members(table))
<1> DEFINE K == Kept(NumLogical(table, maxEnd), minEnd, tailStart)
<1>1. K \subseteq 0 .. NumLogical(table, maxEnd) - 1
  BY DEF Kept
<1>2. K \in SUBSET Nat /\ \A k \in K : k + 1 \in 1 .. Len(table)
  BY <1>1, NumLogicalBound
<1> HIDE DEF K
<1>3. FillsOf(table, K, minEnd) \in Fillings(Members(table))
  BY <1>2, FillsOfFilling
<1> QED
  BY <1>3 DEF PersistentBlocks, K

\* What update may assume of an entry of scheduled_tokens.
Sound(e) ==
    /\ \E S : e.table \in Seq(S)
    /\ MinStart(e) \in Nat /\ MinEnd(e) \in Nat /\ MaxEnd(e) \in Nat

LEMMA TouchedBound ==
    ASSUME NEW e, Sound(e)
    PROVE  Touched(e) \in SUBSET Nat /\ \A k \in Touched(e) : k + 1 \in 1 .. Len(e.table)
<1> DEFINE first == LocalTokens(MinStart(e))
           last  == LocalTokens(MaxEnd(e))
           n     == NumLogical(e.table, last)
<1>1. first \in Nat /\ last \in Nat
  BY CountParts DEF Sound
<1>2. /\ n \in Nat
      /\ \A k \in 0 .. n - 1 : k \in Nat /\ k + 1 \in 1 .. Len(e.table)
  <2>1. PICK S : e.table \in Seq(S)
    BY DEF Sound
  <2> HIDE DEF last
  <2> QED
    BY <1>1, <2>1, NumLogicalBound
<1>3. Touched(e) \subseteq 0 .. n - 1
  <2>1. CASE n > 0 /\ first < last
    <3>1. Touched(e) = first \div Group .. Lesser((last - 1) \div Group, n - 1)
      BY <2>1 DEF Touched
    <3>2. first \div Group \in Nat /\ (last - 1) \div Group \in Nat
      <4>1. last - 1 \in Nat /\ Group \in Nat \ {0}
        BY <1>1, <2>1, GeometryAssumption
      <4> HIDE DEF first, last
      <4> QED
        BY <1>1, <4>1, DivMod
    <3> HIDE DEF n, first, last
    <3> QED
      BY <1>2, <3>1, <3>2 DEF Lesser
  <2>2. CASE ~(n > 0 /\ first < last)
    BY <2>2 DEF Touched
  <2> QED
    BY <2>1, <2>2
<1> HIDE DEF n
<1> QED
  BY <1>2, <1>3

TouchedBlocks(e) == {e.table[k + 1] : k \in Touched(e)}

LEMMA TouchedFilling ==
    ASSUME NEW e, Sound(e)
    PROVE  /\ TouchedFills(e) \in Fillings(Members(e.table))
           /\ DOMAIN TouchedFills(e) = TouchedBlocks(e)
<1>1. PICK S : e.table \in Seq(S)
  BY DEF Sound
<1>2. LocalTokens(MinEnd(e)) \in Nat
  BY CountParts DEF Sound
<1>3. Touched(e) \in SUBSET Nat /\ \A k \in Touched(e) : k + 1 \in 1 .. Len(e.table)
  BY TouchedBound
<1> QED
  BY <1>1, <1>2, <1>3, FillsOfFilling DEF TouchedFills, TouchedBlocks

\* What a scheduled request keeps are blocks of its table, if what it kept so
\* far are.
LEMMA GroupFilling ==
    ASSUME NEW e, Sound(e), NEW wasFull, NEW previous \in Fillings(Members(e.table))
    PROVE  GroupBlocks(e, previous, wasFull) \in Fillings(Members(e.table))
<1> DEFINE end  == LocalTokens(MinEnd(e))
           last == LocalTokens(MaxEnd(e))
           n    == NumLogical(e.table, last)
           from == {Monus(Blocks(end), 1)} \cup Touched(e)
           news == {k \in 0 .. n - 1 : \E f \in from : k >= f}
           old  == DOMAIN previous \ {e.table[k + 1] : k \in news}
<1>1. PICK S : e.table \in Seq(S)
  BY DEF Sound
<1>2. end \in Nat /\ last \in Nat
  BY CountParts DEF Sound
<1>3. CASE HasFullContext(e) /\ wasFull
  <2>1. news \in SUBSET Nat /\ \A k \in news : k + 1 \in 1 .. Len(e.table)
    <3>1. news \subseteq 0 .. n - 1
      OBVIOUS
    <3>2. \A k \in 0 .. n - 1 : k \in Nat /\ k + 1 \in 1 .. Len(e.table)
      BY <1>1, <1>2, NumLogicalBound
    <3> HIDE DEF news, n
    <3> QED
      BY <3>1, <3>2
  <2> HIDE DEF news, end
  <2>2. FillsOf(e.table, news, end) \in Fillings(Members(e.table))
    BY <1>1, <1>2, <2>1, FillsOfFilling
  <2>3. [b \in old |-> previous[b]] \in Fillings(Members(e.table))
    <3>1. old \in SUBSET DOMAIN previous
      OBVIOUS
    <3> HIDE DEF old
    <3> QED
      BY <3>1, RestrictFilling
  <2> DEFINE kept    == [b \in old |-> previous[b]]
             changed == FillsOf(e.table, news, end)
  <2>4. GroupBlocks(e, previous, wasFull) = Merge(kept, changed)
    BY <1>3 DEF GroupBlocks, news, end
  <2>5. kept \in Fillings(Members(e.table)) /\ changed \in Fillings(Members(e.table))
    BY <2>2, <2>3
  <2> HIDE DEF kept, changed
  <2> QED
    BY <2>4, <2>5, MergeFilling
<1>4. CASE ~(HasFullContext(e) /\ wasFull)
  <2>1. GroupBlocks(e, previous, wasFull)
            = PersistentBlocks(e.table, end, last, LocalTokens(Monus(MinEnd(e), PrecisionTail)))
    BY <1>4 DEF GroupBlocks
  <2> HIDE DEF end, last
  <2> QED
    BY <1>1, <1>2, <2>1, PersistentFilling
<1> QED
  BY <1>3, <1>4

-----------------------------------------------------------------------------
(* The tables of an update. *)

\* Logical numbers of some of the blocks in S.
Placings(S) == UNION {[B -> Nat] : B \in SUBSET S}

LEMMA PlacingDef ==
    ASSUME NEW S, NEW f, f = [b \in DOMAIN f |-> f[b]], DOMAIN f \subseteq S,
           \A b \in DOMAIN f : f[b] \in Nat
    PROVE  f \in Placings(S)
<1>1. f \in [DOMAIN f -> Nat]
  OBVIOUS
<1> QED
  BY <1>1 DEF Placings

LEMMA PlacingParts ==
    ASSUME NEW S, NEW f \in Placings(S)
    PROVE  DOMAIN f \subseteq S /\ \A b \in DOMAIN f : f[b] \in Nat
<1>1. PICK B \in SUBSET S : f \in [B -> Nat]
  BY DEF Placings
<1> QED
  BY <1>1

LEMMA PlacingMonotone ==
    ASSUME NEW S, NEW R, S \subseteq R
    PROVE  Placings(S) \subseteq Placings(R)
  BY DEF Placings

LEMMA NoPlacings ==
    ASSUME NEW S
    PROVE  NoBlocks \in Placings(S) /\ DOMAIN NoBlocks = {}
<1>1. DOMAIN NoBlocks = {} /\ NoBlocks = [b \in {} |-> 0]
  BY DEF NoBlocks
<1> HIDE DEF NoBlocks
<1>2. NoBlocks = [b \in DOMAIN NoBlocks |-> NoBlocks[b]]
  BY <1>1
<1> QED
  BY <1>1, <1>2, PlacingDef

\* step_blocks names blocks the step touches and blocks of corrections.
LEMMA UpdatedSteps ==
    ASSUME NEW removed, NEW scheduled, Update(removed, scheduled), NEW S,
           \A r \in Req : resolvedBlocks[r] \in Fillings(S),
           \A r \in DOMAIN scheduled :
              Sound(scheduled[r]) /\ Members(scheduled[r].table) \subseteq S
    PROVE  /\ stepBlocks' \in Fillings(S)
           /\ DOMAIN stepBlocks' \subseteq
                 (UNION {DOMAIN resolvedBlocks[r] : r \in Req})
                   \cup (UNION {Members(scheduled[r].table) : r \in DOMAIN scheduled})
<1> DEFINE touched  == [r \in DOMAIN scheduled |-> TouchedFills(scheduled[r])]
           held     == UNION {DOMAIN Remaining(removed)[r] : r \in Req}
           resolved == [r \in Req |->
                          [b \in DOMAIN resolvedBlocks[r] \ held |-> resolvedBlocks[r][b]]]
<1>1. stepBlocks' = Merge(MergeAll(resolved), MergeAll(touched))
  BY DEF Update, Consumed
<1>2. ASSUME NEW r \in DOMAIN touched
      PROVE  touched[r] \in Fillings(S) /\ DOMAIN touched[r] \subseteq Members(scheduled[r].table)
  <2>1. Sound(scheduled[r]) /\ Members(scheduled[r].table) \subseteq S
    OBVIOUS
  <2>2. TouchedFills(scheduled[r]) \in Fillings(Members(scheduled[r].table))
    BY <2>1, TouchedFilling
  <2>3. touched[r] = TouchedFills(scheduled[r])
    OBVIOUS
  <2> HIDE DEF touched
  <2> QED
    BY <2>1, <2>2, <2>3, FillingParts, FillingMonotone
<1>3. ASSUME NEW r \in Req
      PROVE  resolved[r] \in Fillings(S) /\ DOMAIN resolved[r] \subseteq DOMAIN resolvedBlocks[r]
  <2> DEFINE B == DOMAIN resolvedBlocks[r] \ held
  <2>1. B \in SUBSET DOMAIN resolvedBlocks[r]
    OBVIOUS
  <2>2. resolved[r] = [b \in B |-> resolvedBlocks[r][b]]
    OBVIOUS
  <2> HIDE DEF B, resolved
  <2>3. [b \in B |-> resolvedBlocks[r][b]] \in Fillings(S)
    BY <2>1, RestrictFilling
  <2>4. DOMAIN resolved[r] = B
    BY <2>2
  <2> QED
    BY <2>1, <2>2, <2>3, <2>4
<1>4. DOMAIN touched = DOMAIN scheduled /\ DOMAIN resolved = Req
  OBVIOUS
<1> HIDE DEF touched, resolved
<1>5. /\ MergeAll(touched) \in Fillings(S)
      /\ DOMAIN MergeAll(touched) = UNION {DOMAIN touched[r] : r \in DOMAIN touched}
  BY <1>2, MergeAllFilling
<1>6. /\ MergeAll(resolved) \in Fillings(S)
      /\ DOMAIN MergeAll(resolved) = UNION {DOMAIN resolved[r] : r \in DOMAIN resolved}
  BY <1>3, <1>4, MergeAllFilling
<1>7. /\ stepBlocks' \in Fillings(S)
      /\ DOMAIN stepBlocks' = DOMAIN MergeAll(resolved) \cup DOMAIN MergeAll(touched)
  BY <1>1, <1>5, <1>6, MergeFilling
<1>8. DOMAIN MergeAll(resolved) \subseteq UNION {DOMAIN resolvedBlocks[r] : r \in Req}
  BY <1>3, <1>4, <1>6
<1>9. DOMAIN MergeAll(touched)
          \subseteq UNION {Members(scheduled[r].table) : r \in DOMAIN scheduled}
  BY <1>2, <1>4, <1>5
<1> QED
  BY <1>7, <1>8, <1>9

\* The tables of a scheduled request name blocks of its table.
LEMMA UpdatedScheduled ==
    ASSUME NEW removed, NEW scheduled, Update(removed, scheduled),
           NEW r \in Req, r \in DOMAIN scheduled, NEW e, e = scheduled[r], Sound(e),
           NEW S, stepBlocks' \in Fillings(S),
           requestBlocks[r] \in Fillings(Members(e.table)),
           epochBlocks[r] \in Fillings(Members(e.table)),
           pendingBlocks[r] \in Placings(Members(e.table))
    PROVE  /\ requestBlocks'[r] \in Fillings(Members(e.table))
           /\ epochBlocks'[r] \in Fillings(Members(e.table))
           /\ pendingBlocks'[r] \in Placings(Members(e.table))
           /\ resolvedBlocks'[r] = NoBlocks
<1> DEFINE M       == Members(e.table)
           touched == [q \in DOMAIN scheduled |-> TouchedFills(scheduled[q])]
           opened  == {q \in DOMAIN scheduled :
                          scheduled[q].rollback > 0 /\ Touched(scheduled[q]) # {}}
<1>1. requestBlocks'[r] \in Fillings(M)
  <2>1. requestBlocks'[r] = GroupBlocks(e, Remaining(removed)[r], r \in fullContext \ removed)
    BY DEF Update
  <2>2. Remaining(removed)[r] \in Fillings(M)
    BY NoFillings DEF Remaining
  <2> QED
    BY <2>1, <2>2, GroupFilling
<1>2. /\ TouchedFills(e) \in Fillings(M)
      /\ DOMAIN TouchedFills(e) = TouchedBlocks(e)
      /\ Touched(e) \in SUBSET Nat
  BY TouchedFilling, TouchedBound
<1>3. epochBlocks'[r] \in Fillings(M)
  <2> DEFINE fills == [b \in DOMAIN touched[r] |-> stepBlocks'[b]]
  <2>1. CASE r \in opened
    <3>1. epochBlocks'[r] = Merge(fills, IF HasFullContext(e) THEN NoBlocks
                                         ELSE requestBlocks'[r])
      BY <2>1 DEF Update
    <3>2. touched[r] = TouchedFills(e)
      OBVIOUS
    <3>3. DOMAIN touched[r] \subseteq DOMAIN stepBlocks'
      <4>1. stepBlocks' = Merge(Consumed(removed), MergeAll(touched))
        BY DEF Update
      <4>2. r \in DOMAIN touched
        OBVIOUS
      <4> HIDE DEF touched
      <4>3. DOMAIN touched[r] \subseteq DOMAIN MergeAll(touched)
        BY <4>2 DEF MergeAll
      <4> QED
        BY <4>1, <4>3 DEF Merge
    <3>4. fills \in Fillings(M)
      <4>1. DOMAIN fills = DOMAIN TouchedFills(e) /\ fills = [b \in DOMAIN fills |-> fills[b]]
        BY <3>2
      <4>2. DOMAIN fills \subseteq M
        BY <1>2, <4>1, FillingParts
      <4>3. \A b \in DOMAIN fills : fills[b] \in 0 .. Group
        BY <3>3, FillingParts
      <4> HIDE DEF fills
      <4> QED
        BY <4>1, <4>2, <4>3, FillingDef
    <3> DEFINE kept == IF HasFullContext(e) THEN NoBlocks ELSE requestBlocks'[r]
    <3>5. kept \in Fillings(M)
      BY <1>1, NoFillings
    <3>6. epochBlocks'[r] = Merge(fills, kept)
      BY <3>1
    <3>7. Merge(fills, kept) \in Fillings(M)
      <4> HIDE DEF fills, kept, M
      <4> QED
        BY <3>4, <3>5, MergeFilling
    <3> QED
      BY <3>6, <3>7
  <2>2. CASE r \notin opened
    <3>1. epochBlocks'[r] = IF r \in removed THEN NoBlocks ELSE epochBlocks[r]
      BY <2>2 DEF Update
    <3> QED
      BY <3>1, NoFillings
  <2> QED
    BY <2>1, <2>2
<1>4. pendingBlocks'[r] \in Placings(M)
  <2>1. CASE r \in opened
    <3> DEFINE at == [b \in DOMAIN touched[r] |-> CHOOSE k \in Touched(e) : e.table[k + 1] = b]
    <3>1. pendingBlocks'[r] = at
      BY <2>1 DEF Update
    <3>2. DOMAIN at = DOMAIN TouchedFills(e) /\ at = [b \in DOMAIN at |-> at[b]]
      OBVIOUS
    <3>3. DOMAIN at \subseteq M
      BY <1>2, <3>2, FillingParts
    <3>4. ASSUME NEW b \in DOMAIN at PROVE at[b] \in Nat
      <4>1. b \in TouchedBlocks(e)
        BY <1>2, <3>2
      <4>2. PICK k \in Touched(e) : e.table[k + 1] = b
        BY <4>1 DEF TouchedBlocks
      <4>3. at[b] = CHOOSE i \in Touched(e) : e.table[i + 1] = b
        BY <3>2
      <4>4. at[b] \in Touched(e)
        BY <4>2, <4>3
      <4> HIDE DEF at
      <4> QED
        BY <1>2, <4>4
    <3> HIDE DEF at
    <3> QED
      BY <3>1, <3>2, <3>3, <3>4, PlacingDef
  <2>2. CASE r \notin opened
    <3>1. pendingBlocks'[r] = IF r \in removed THEN NoBlocks ELSE pendingBlocks[r]
      BY <2>2 DEF Update
    <3> QED
      BY <3>1, NoPlacings
  <2> QED
    BY <2>1, <2>2
<1>5. resolvedBlocks'[r] = NoBlocks
  BY DEF Update, Nothing
<1> QED
  BY <1>1, <1>3, <1>4, <1>5

\* An update leaves a request it does not schedule alone, or drops it.
LEMMA UpdatedOthers ==
    ASSUME NEW removed, NEW scheduled, Update(removed, scheduled),
           NEW r \in Req, r \notin DOMAIN scheduled
    PROVE  /\ requestBlocks'[r] = IF r \in removed THEN NoBlocks ELSE requestBlocks[r]
           /\ epochBlocks'[r] = IF r \in removed THEN NoBlocks ELSE epochBlocks[r]
           /\ pendingBlocks'[r] = IF r \in removed THEN NoBlocks ELSE pendingBlocks[r]
           /\ resolvedBlocks'[r] = NoBlocks
  BY DEF Update, Remaining, Nothing

-----------------------------------------------------------------------------
(* The tables once the outcome of a step is known. *)

LEMMA CorrectedFilling ==
    ASSUME NEW r, NEW end \in Nat, NEW S, pendingBlocks[r] \in Placings(S)
    PROVE  Corrected(r, end) \in Fillings(S)
<1> DEFINE fill == [b \in DOMAIN pendingBlocks[r] |->
                       BlockFill(LocalTokens(end), pendingBlocks[r][b])]
           B    == {c \in DOMAIN fill : fill[c] > 0}
<1>1. LocalTokens(end) \in Nat
  BY CountParts
<1>2. DOMAIN pendingBlocks[r] \subseteq S /\ \A b \in DOMAIN pendingBlocks[r] : pendingBlocks[r][b] \in Nat
  BY PlacingParts
<1>3. fill \in Fillings(S)
  <2>1. DOMAIN fill = DOMAIN pendingBlocks[r] /\ fill = [b \in DOMAIN fill |-> fill[b]]
    OBVIOUS
  <2>2. ASSUME NEW b \in DOMAIN fill PROVE fill[b] \in 0 .. Group
    <3>1. fill[b] = BlockFill(LocalTokens(end), pendingBlocks[r][b])
      OBVIOUS
    <3>2. pendingBlocks[r][b] \in Nat
      BY <1>2
    <3> HIDE DEF fill
    <3> QED
      BY <1>1, <3>1, <3>2, BlockFillType
  <2> HIDE DEF fill
  <2> QED
    BY <1>2, <2>1, <2>2, FillingDef
<1>4. Corrected(r, end) = [b \in B |-> fill[b]]
  BY DEF Corrected
<1>5. B \in SUBSET DOMAIN fill
  OBVIOUS
<1> HIDE DEF fill, B
<1> QED
  BY <1>3, <1>4, <1>5, RestrictFilling

LEMMA RebuiltFilling ==
    ASSUME NEW r, NEW end \in Nat, NEW T, NEW table \in Seq(T), NEW S, Members(table) \subseteq S,
           pendingBlocks[r] \in Placings(S), requestBlocks[r] \in Fillings(S)
    PROVE  Rebuilt(r, table, end) \in Fillings(S)
<1>1. CASE r \in fullContext
  <2> DEFINE B    == DOMAIN requestBlocks[r] \ DOMAIN pendingBlocks[r]
             kept == [b \in B |-> requestBlocks[r][b]]
             corr == Corrected(r, end)
  <2>1. Rebuilt(r, table, end) = Merge(kept, corr)
    BY <1>1 DEF Rebuilt
  <2>2. kept \in Fillings(S)
    <3>1. B \in SUBSET DOMAIN requestBlocks[r]
      OBVIOUS
    <3> HIDE DEF B
    <3> QED
      BY <3>1, RestrictFilling
  <2>3. corr \in Fillings(S)
    BY CorrectedFilling
  <2>4. Merge(kept, corr) \in Fillings(S)
    <3> HIDE DEF kept, corr
    <3> QED
      BY <2>2, <2>3, MergeFilling
  <2> QED
    BY <2>1, <2>4
<1>2. CASE r \notin fullContext
  <2> DEFINE local == LocalTokens(end)
             tail  == LocalTokens(Monus(end, PrecisionTail))
  <2>1. Rebuilt(r, table, end) = PersistentBlocks(table, local, local, tail)
    BY <1>2 DEF Rebuilt
  <2>2. local \in Nat
    BY CountParts
  <2> HIDE DEF local, tail
  <2>3. PersistentBlocks(table, local, local, tail) \in Fillings(Members(table))
    BY <2>2, PersistentFilling
  <2> QED
    BY <2>1, <2>3, FillingMonotone
<1> QED
  BY <1>1, <1>2

\* Resolving keeps a request's tables on the blocks it owns.
LEMMA ResolvedTables ==
    ASSUME NEW ends, NEW tables, ResolveAsync(ends, tables), NEW r \in Req, NEW S,
           requestBlocks[r] \in Fillings(S), epochBlocks[r] \in Fillings(S),
           resolvedBlocks[r] \in Fillings(S), pendingBlocks[r] \in Placings(S),
           NEW T,
           r \in DOMAIN ends =>
              ends[r] \in Nat /\ tables[r] \in Seq(T) /\ Members(tables[r]) \subseteq S
    PROVE  /\ requestBlocks'[r] \in Fillings(S)
           /\ epochBlocks'[r] \in Fillings(S)
           /\ resolvedBlocks'[r] \in Fillings(S)
           /\ pendingBlocks'[r] \in Placings(S)
<1>1. /\ requestBlocks'[r] = IF r \in DOMAIN ends /\ DOMAIN pendingBlocks[r] # {}
                             THEN Rebuilt(r, tables[r], ends[r]) ELSE requestBlocks[r]
      /\ resolvedBlocks'[r] = IF r \in DOMAIN ends /\ DOMAIN pendingBlocks[r] # {}
                              THEN Corrected(r, ends[r]) ELSE resolvedBlocks[r]
      /\ pendingBlocks'[r] = IF r \in DOMAIN ends THEN NoBlocks ELSE pendingBlocks[r]
      /\ epochBlocks'[r] = IF r \in DOMAIN ends THEN NoBlocks ELSE epochBlocks[r]
  BY DEF ResolveAsync
<1>2. NoBlocks \in Fillings(S) /\ NoBlocks \in Placings(S)
  BY NoFillings, NoPlacings
<1>3. CASE r \in DOMAIN ends
  <2>1. Corrected(r, ends[r]) \in Fillings(S) /\ Rebuilt(r, tables[r], ends[r]) \in Fillings(S)
    BY <1>3, CorrectedFilling, RebuiltFilling
  <2> QED
    BY <1>1, <1>2, <2>1
<1>4. CASE r \notin DOMAIN ends
  BY <1>1, <1>4
<1> QED
  BY <1>3, <1>4

-----------------------------------------------------------------------------
(* Whole blocks: what an update, whichever tokens it is called with, says of *)
(* the blocks that have all their rows.                                      *)

LEMMA CeilCovers ==
    ASSUME NEW n \in Nat, NEW d \in Nat \ {0}, NEW m \in Nat, (n + d - 1) \div d <= m
    PROVE  n <= m * d
<1> DEFINE q == (n + d - 1) \div d
           o == (n + d - 1) % d
<1>1. n + d - 1 \in Nat
  OBVIOUS
<1>2. q \in Nat /\ o \in 0 .. d - 1 /\ n + d - 1 = d * q + o
  BY <1>1, DivMod
<1> HIDE DEF o
<1>3. d * q <= d * m
  <2>1. q <= m
    OBVIOUS
  <2> HIDE DEF q
  <2> QED
    BY <2>1, <1>2, TimesMonotone
<1> HIDE DEF q
<1> QED
  BY <1>2, <1>3

\* All the rows of logical block k are among the first n tokens.
Whole(k, n) == (k + 1) * Group <= LocalTokens(n)

LEMMA WholeMonotone ==
    ASSUME NEW k \in Nat, NEW m \in Nat, NEW n \in Nat, m <= n, Whole(k, m)
    PROVE  Whole(k, n)
<1>1. LocalTokens(m) \in Nat /\ LocalTokens(n) \in Nat /\ LocalTokens(m) <= LocalTokens(n)
  BY CountParts, CountMonotone
<1>2. (k + 1) * Group \in Nat
  BY GeometryAssumption
<1> QED
  BY <1>1, <1>2 DEF Whole

LEMMA WholeFill ==
    ASSUME NEW k \in Nat, NEW n \in Nat, Whole(k, n)
    PROVE  BlockFill(LocalTokens(n), k) = Group
<1>1. LocalTokens(n) \in Nat /\ k * Group \in Nat /\ (k + 1) * Group = k * Group + Group
  BY CountParts, GeometryAssumption
<1> DEFINE p == k * Group
<1>2. p \in Nat /\ p + Group <= LocalTokens(n)
  BY <1>1 DEF Whole
<1> HIDE DEF p
<1>3. Lesser(Group, Monus(LocalTokens(n), p)) = Group
  BY <1>1, <1>2, GeometryAssumption DEF Lesser, Monus
<1> QED
  BY <1>3 DEF BlockFill, p

LEMMA WholeBelow ==
    ASSUME NEW k \in Nat, NEW m \in Nat, NEW n \in Nat, m <= n, Whole(k, m)
    PROVE  k * Group < LocalTokens(n)
<1>1. LocalTokens(m) \in Nat /\ LocalTokens(n) \in Nat /\ LocalTokens(m) <= LocalTokens(n)
  BY CountParts, CountMonotone
<1>2. (k + 1) * Group = k * Group + Group /\ k * Group \in Nat /\ Group \in Nat \ {0}
  BY GeometryAssumption
<1> QED
  BY <1>1, <1>2 DEF Whole

\* A block before the last of the first n tokens is whole.
LEMMA BeforeLast ==
    ASSUME NEW k \in Nat, NEW n \in Nat, k < Monus(Blocks(LocalTokens(n)), 1)
    PROVE  Whole(k, n)
<1> DEFINE x == LocalTokens(n)
           q == Blocks(x)
           o == (x + Group - 1) % Group
<1>1. x \in Nat /\ Group \in Nat \ {0} /\ x + Group - 1 \in Nat
  BY CountParts, GeometryAssumption
<1>2. q \in Nat /\ o \in 0 .. Group - 1 /\ x + Group - 1 = Group * q + o
  <2> HIDE DEF x
  <2> QED
    BY <1>1, DivMod DEF Blocks
<1> HIDE DEF o
<1>3. k + 2 <= q
  <2> HIDE DEF q
  <2>1. k < Monus(q, 1)
    BY DEF q
  <2> QED
    BY <2>1, <1>2 DEF Monus
<1> HIDE DEF q, x
<1>4. Group * (k + 2) <= Group * q
  BY <1>1, <1>2, <1>3, TimesMonotone
<1>5. Group * (k + 2) = (k + 1) * Group + Group /\ (k + 1) * Group \in Nat /\ Group * q \in Nat
  BY <1>1, <1>2
<1>6. (k + 1) * Group <= x
  BY <1>1, <1>2, <1>4, <1>5
<1> QED
  BY <1>6 DEF Whole, x

\* The blocks that end before a row are whole there.
LEMMA BeforeRow ==
    ASSUME NEW k \in Nat, NEW n \in Nat
    PROVE  k < LocalTokens(n) \div Group => Whole(k, n)
<1> DEFINE x == LocalTokens(n)
           q == x \div Group
<1>1. x \in Nat /\ Group \in Nat \ {0}
  BY CountParts, GeometryAssumption
<1>2. q \in Nat /\ x % Group \in Nat /\ x = Group * q + (x % Group)
  <2> HIDE DEF x
  <2> QED
    BY <1>1, DivMod
<1> HIDE DEF q
<1>3. ASSUME k < q PROVE Group * (k + 1) <= Group * q
  <2>1. k + 1 <= q /\ k + 1 \in Nat
    BY <1>2, <1>3
  <2> QED
    BY <1>1, <1>2, <2>1, TimesMonotone
<1>4. ASSUME k < q PROVE (k + 1) * Group <= x
  <2>1. (k + 1) * Group = Group * (k + 1) /\ Group * (k + 1) \in Nat /\ Group * q \in Nat
    BY <1>1, <1>2
  <2> HIDE DEF x
  <2> QED
    BY <1>1, <1>2, <1>3, <1>4, <2>1
<1> QED
  BY <1>4 DEF Whole, q

\* A logical block that starts before a row is one of the table's blocks.
LEMMA LogicalBlock ==
    ASSUME NEW S, NEW table \in Seq(S), NEW end \in Nat, NEW k \in Nat,
           k + 1 \in 1 .. Len(table), k * Group < end
    PROVE  k \in 0 .. NumLogical(table, end) - 1
<1> DEFINE row == k * Group
<1>1. row \in Nat /\ Group \in Nat \ {0} /\ row = Group * k + 0 /\ row < end
  BY GeometryAssumption
<1> HIDE DEF row
<1>2. row \div Group = k
  <2>1. 0 \in 0 .. Group - 1
    BY <1>1
  <2> QED
    BY <1>1, <2>1, DivUnique
<1>3. k + 1 <= Blocks(end) /\ Blocks(end) \in Nat
  BY <1>1, <1>2, RowBlock
<1>4. Len(table) \in Nat /\ k + 1 <= Len(table)
  OBVIOUS
<1> QED
  BY <1>3, <1>4 DEF NumLogical, Lesser

\* What an entry's ends are like.
Ordered(e) ==
    /\ MinStart(e) \in Nat /\ MinEnd(e) \in Nat /\ MaxEnd(e) \in Nat
    /\ MinStart(e) <= MinEnd(e) /\ MinEnd(e) <= MaxEnd(e)

\* A block with rows that a step does not touch, before the one it may end in,
\* was whole where the step starts at the earliest.
LEMMA UntouchedWhole ==
    ASSUME NEW e, Ordered(e), NEW S, e.table \in Seq(S),
           NEW k \in Nat, k + 1 \in 1 .. Len(e.table), k * Group < LocalTokens(MaxEnd(e)),
           k \notin Touched(e), k < Monus(Blocks(LocalTokens(MinEnd(e))), 1)
    PROVE  Whole(k, MinStart(e))
<1> DEFINE first == LocalTokens(MinStart(e))
           end   == LocalTokens(MinEnd(e))
           last  == LocalTokens(MaxEnd(e))
           n     == NumLogical(e.table, last)
<1>1. /\ first \in Nat /\ end \in Nat /\ last \in Nat /\ first <= end /\ end <= last
      /\ Group \in Nat \ {0} /\ k * Group \in Nat /\ k * Group < last
  <2>1. MinStart(e) \in Nat /\ MinEnd(e) \in Nat /\ MaxEnd(e) \in Nat
        /\ MinStart(e) <= MinEnd(e) /\ MinEnd(e) <= MaxEnd(e)
    BY DEF Ordered
  <2>2. first \in Nat /\ end \in Nat /\ last \in Nat
    BY <2>1, CountParts
  <2>3. first <= end /\ end <= last
    BY <2>1, CountMonotone
  <2>4. Group \in Nat \ {0} /\ k * Group \in Nat
    BY GeometryAssumption
  <2> QED
    BY <2>2, <2>3, <2>4
<1>2. Whole(k, MinEnd(e))
  BY BeforeLast DEF Ordered
<1>3. CASE ~(first < last)
  <2>1. first = end
    <3> HIDE DEF first, end, last
    <3> QED
      BY <1>1, <1>3
  <2> QED
    BY <1>2, <2>1 DEF Whole
<1>4. CASE first < last
  <2>1. k < n
    <3>1. k + 1 <= Blocks(last) /\ Blocks(last) \in Nat
      <4>1. (k * Group) \div Group = k
        <5>1. k * Group = Group * k + 0
          BY <1>1
        <5> QED
          BY <1>1, <5>1, DivUnique
      <4> DEFINE row == k * Group
      <4>2. row \in Nat /\ row < last
        BY <1>1
      <4> HIDE DEF last, row
      <4>3. row \div Group + 1 <= Blocks(last) /\ Blocks(last) \in Nat
        BY <1>1, <4>2, RowBlock
      <4> QED
        BY <4>1, <4>3 DEF row
    <3>2. k + 1 <= Len(e.table) /\ Len(e.table) \in Nat
      OBVIOUS
    <3> HIDE DEF last
    <3> QED
      BY <3>1, <3>2 DEF NumLogical, Lesser
  <2>2. k <= (last - 1) \div Group /\ (last - 1) \div Group \in Nat
    <3>1. (k * Group) \div Group = k
      <4>1. k * Group = Group * k + 0
        BY <1>1
      <4> QED
        BY <1>1, <4>1, DivUnique
    <3> DEFINE row == k * Group
    <3>2. row \in Nat /\ row < last
      BY <1>1
    <3> HIDE DEF last, row
    <3>3. row \div Group <= (last - 1) \div Group
      BY <1>1, <3>2, RowBlock
    <3>4. last - 1 \in Nat
      BY <1>1, <3>2
    <3>5. (last - 1) \div Group \in Nat
      BY <1>1, <3>4, DivMod
    <3> QED
      BY <3>1, <3>3, <3>5 DEF row
  <2>3. n \in Nat
    BY <1>1, NumLogicalBound
  <2>4. k \notin first \div Group .. Lesser((last - 1) \div Group, n - 1)
    <3>1. n > 0
      <4> HIDE DEF n
      <4> QED
        BY <2>1, <2>3
    <3> QED
      BY <1>4, <3>1 DEF Touched
  <2>5. first \div Group \in Nat /\ first % Group \in Nat
        /\ first = Group * (first \div Group) + (first % Group)
    <3>1. first \in Nat /\ Group \in Nat \ {0}
      BY <1>1
    <3> HIDE DEF first
    <3>2. first \div Group \in Nat /\ first % Group \in 0 .. Group - 1
          /\ first = Group * (first \div Group) + (first % Group)
      BY <3>1, DivMod
    <3> QED
      BY <3>1, <3>2
  <2> DEFINE f == first \div Group
             l == (last - 1) \div Group
  <2>6. k + 1 <= f /\ f \in Nat
    <3>1. /\ f \in Nat /\ l \in Nat /\ n \in Nat /\ k < n /\ k <= l
          /\ k \notin f .. Lesser(l, n - 1)
      BY <2>1, <2>2, <2>3, <2>4, <2>5
    <3> HIDE DEF f, l, n
    <3> QED
      BY <3>1 DEF Lesser
  <2>7. Group * (k + 1) <= Group * f
    <3> HIDE DEF f
    <3> QED
      BY <2>6, <1>1, TimesMonotone
  <2>8. first = Group * f + (first % Group) /\ first % Group \in Nat
    BY <2>5
  <2> HIDE DEF f
  <2>9. (k + 1) * Group <= first
    <3>1. Group * (k + 1) = (k + 1) * Group /\ (k + 1) * Group \in Nat /\ Group * f \in Nat
      BY <1>1, <2>6
    <3> HIDE DEF first
    <3> QED
      BY <1>1, <2>7, <2>8, <3>1
  <2> QED
    BY <2>9 DEF Whole
<1> QED
  BY <1>3, <1>4

\* The blocks of a table are different blocks.
Distinct(table) == \A i, j \in DOMAIN table : table[i] = table[j] => i = j

\* The fill of a block by its place.
LEMMA FillAt ==
    ASSUME NEW S, NEW table \in Seq(S), Distinct(table), NEW end,
           NEW K \in SUBSET Nat, \A j \in K : j + 1 \in 1 .. Len(table), NEW k \in K
    PROVE  /\ table[k + 1] \in DOMAIN FillsOf(table, K, end)
           /\ FillsOf(table, K, end)[table[k + 1]] = BlockFill(end, k)
<1> DEFINE b == table[k + 1]
           i == CHOOSE j \in K : table[j + 1] = b
<1>1. i \in K /\ table[i + 1] = b
  OBVIOUS
<1>2. i = k
  <2> HIDE DEF i
  <2>1. i + 1 \in DOMAIN table /\ k + 1 \in DOMAIN table
    BY <1>1
  <2>2. i + 1 = k + 1 /\ i \in Nat /\ k \in Nat
    BY <1>1, <2>1 DEF Distinct
  <2> QED
    BY <2>2
<1>3. b \in {table[j + 1] : j \in K}
  OBVIOUS
<1>4. FillsOf(table, K, end)[b] = BlockFill(end, i)
  BY <1>3 DEF FillsOf
<1> HIDE DEF i
<1> QED
  BY <1>2, <1>3, <1>4 DEF FillsOf

\* Block b = <<r, k + 1>> lies before the one a step may end in.
Earlier(e, k) == k < Monus(Blocks(LocalTokens(MinEnd(e))), 1)

\* A block of the table that a scheduled request does not keep lies before the
\* block the step may end in; one it keeps that is whole where the step ends at
\* the earliest is said to be full, or was kept before and is untouched.
GroupedBlock(e, previous, kept, k, b) ==
    /\ b \notin DOMAIN kept => Earlier(e, k)
    /\ b \in DOMAIN kept /\ Whole(k, MinEnd(e)) =>
          \/ kept[b] = Group
          \/ /\ k \notin Touched(e) /\ Earlier(e, k)
             /\ b \in DOMAIN previous /\ kept[b] = previous[b]

LEMMA GroupedAt ==
    ASSUME NEW e, Ordered(e), NEW S, e.table \in Seq(S), Distinct(e.table),
           NEW previous \in Fillings(Members(e.table)), NEW wasFull \in BOOLEAN,
           NEW k \in Nat, k + 1 \in 1 .. Len(e.table), k * Group < LocalTokens(MaxEnd(e)),
           NEW b, b = e.table[k + 1], NEW kept, kept = GroupBlocks(e, previous, wasFull)
    PROVE  GroupedBlock(e, previous, kept, k, b)
<1> DEFINE end  == LocalTokens(MinEnd(e))
           last == LocalTokens(MaxEnd(e))
           n    == NumLogical(e.table, last)
           at   == Monus(Blocks(end), 1)
           from == {at} \cup Touched(e)
           news == {j \in 0 .. n - 1 : \E f \in from : j >= f}
           old  == DOMAIN previous \ {e.table[j + 1] : j \in news}
           tail == LocalTokens(Monus(MinEnd(e), PrecisionTail))
           K    == Kept(n, end, tail)
<1>1. end \in Nat /\ last \in Nat
  BY CountParts DEF Ordered
<1>2. n \in Nat /\ \A j \in 0 .. n - 1 : j \in Nat /\ j + 1 \in 1 .. Len(e.table)
  BY <1>1, NumLogicalBound
<1>3. k \in 0 .. n - 1
  <2>1. k + 1 <= Blocks(last) /\ Blocks(last) \in Nat
    <3>1. k * Group \in Nat /\ Group \in Nat \ {0} /\ k * Group = Group * k + 0
      BY GeometryAssumption
    <3>2. (k * Group) \div Group = k
      BY <3>1, DivUnique
    <3> DEFINE row == k * Group
    <3>3. row \in Nat /\ row < last
      BY <3>1
    <3> HIDE DEF last, row
    <3>4. row \div Group + 1 <= Blocks(last) /\ Blocks(last) \in Nat
      BY <1>1, <3>3, RowBlock
    <3> QED
      BY <3>2, <3>4 DEF row
  <2>2. k + 1 <= Len(e.table) /\ Len(e.table) \in Nat
    OBVIOUS
  <2> HIDE DEF last
  <2> QED
    BY <2>1, <2>2 DEF NumLogical, Lesser
<1>4. at \in Nat
  <2>1. Blocks(end) \in Nat
    <3> HIDE DEF end
    <3>1. end + Group - 1 \in Nat /\ Group \in Nat \ {0}
      BY <1>1, GeometryAssumption
    <3> QED
      BY <3>1, DivMod DEF Blocks
  <2> HIDE DEF end
  <2> QED
    BY <2>1 DEF Monus
<1>5. Whole(k, MinEnd(e)) => BlockFill(end, k) = Group
  BY WholeFill DEF Ordered
<1>6. e.table[k + 1] = b
  OBVIOUS
<1>7. ASSUME HasFullContext(e) /\ wasFull
      PROVE  /\ b \notin DOMAIN kept => k < at
             /\ b \in DOMAIN kept /\ Whole(k, MinEnd(e)) =>
                  \/ kept[b] = Group
                  \/ k \notin Touched(e) /\ k < at /\ b \in DOMAIN previous /\ kept[b] = previous[b]
  <2> DEFINE before  == [c \in old |-> previous[c]]
             changed == FillsOf(e.table, news, end)
  <2>1. kept = Merge(before, changed)
    BY <1>7 DEF GroupBlocks
  <2>2. news \in SUBSET Nat /\ \A j \in news : j + 1 \in 1 .. Len(e.table)
    <3> HIDE DEF n
    <3> QED
      BY <1>2
  <2>3. DOMAIN before = old /\ \A c \in old : before[c] = previous[c]
    OBVIOUS
  <2>4. DOMAIN changed = {e.table[j + 1] : j \in news}
    BY DEF FillsOf
  <2>5. CASE k \in news
    <3>1. b \in DOMAIN changed /\ changed[b] = BlockFill(end, k)
      <4> HIDE DEF news, end
      <4> QED
        BY <2>2, <2>5, FillAt
    <3>2. b \notin DOMAIN before
      BY <2>3, <2>4, <3>1
    <3> HIDE DEF before, changed
    <3>3. b \in DOMAIN kept /\ kept[b] = BlockFill(end, k)
      BY <2>1, <3>1, <3>2 DEF Merge
    <3> QED
      BY <1>5, <3>3
  <2>6. CASE k \notin news
    <3>1. ~(\E f \in from : k >= f)
      BY <1>3, <2>6
    <3>2. k < at /\ k \notin Touched(e)
      <4>1. ~(k >= at) /\ (k \in Touched(e) => k >= k)
        BY <3>1
      <4> HIDE DEF at
      <4>2. k < at
        BY <1>4, <4>1
      <4>3. k \notin Touched(e)
        BY <3>1
      <4> QED
        BY <4>2, <4>3
    <3>3. b \notin DOMAIN changed
      <4>1. ASSUME NEW j \in news, e.table[j + 1] = b PROVE FALSE
        <5>1. j \in Nat /\ j + 1 \in DOMAIN e.table /\ k + 1 \in DOMAIN e.table
          BY <2>2
        <5>2. j + 1 = k + 1
          BY <1>6, <4>1, <5>1 DEF Distinct
        <5>3. j = k
          BY <5>1, <5>2
        <5> QED
          BY <2>6, <5>3
      <4> QED
        BY <2>4, <4>1
    <3>4. b \in DOMAIN kept => b \in DOMAIN previous /\ kept[b] = previous[b]
      <4>1. b \in DOMAIN kept => b \in DOMAIN before /\ kept[b] = before[b]
        <5> HIDE DEF before, changed
        <5> QED
          BY <2>1, <3>3 DEF Merge
      <4>2. b \in DOMAIN before => b \in DOMAIN previous /\ before[b] = previous[b]
        OBVIOUS
      <4> QED
        BY <4>1, <4>2
    <3> QED
      BY <3>2, <3>4
  <2> QED
    BY <2>5, <2>6
<1>8. ASSUME ~(HasFullContext(e) /\ wasFull)
      PROVE  /\ b \notin DOMAIN kept => k < at
             /\ b \in DOMAIN kept /\ Whole(k, MinEnd(e)) =>
                  \/ kept[b] = Group
                  \/ k \notin Touched(e) /\ k < at /\ b \in DOMAIN previous /\ kept[b] = previous[b]
  <2>1. kept = FillsOf(e.table, K, end)
    BY <1>8 DEF GroupBlocks, PersistentBlocks
  <2>2. K \in SUBSET Nat /\ \A j \in K : j + 1 \in 1 .. Len(e.table)
    <3>1. K \subseteq 0 .. n - 1
      BY DEF Kept
    <3> HIDE DEF K, n
    <3> QED
      BY <1>2, <3>1
  <2>3. CASE k \in K
    <3>1. b \in DOMAIN kept /\ kept[b] = BlockFill(end, k)
      <4> HIDE DEF K, end
      <4> QED
        BY <2>1, <2>2, <2>3, FillAt
    <3> QED
      BY <1>5, <3>1
  <2>4. CASE k \notin K
    <3>1. k < at
      <4>1. ~(k >= at)
        BY <1>3, <2>4 DEF Kept
      <4> HIDE DEF at
      <4> QED
        BY <1>4, <4>1
    <3>2. b \notin DOMAIN kept
      <4>1. DOMAIN kept = {e.table[j + 1] : j \in K}
        BY <2>1 DEF FillsOf
      <4>2. ASSUME NEW j \in K, e.table[j + 1] = b PROVE FALSE
        <5>1. j \in Nat /\ j + 1 \in DOMAIN e.table /\ k + 1 \in DOMAIN e.table
          BY <2>2
        <5>2. j + 1 = k + 1
          BY <1>6, <4>2, <5>1 DEF Distinct
        <5>3. j = k
          BY <5>1, <5>2
        <5> QED
          BY <2>4, <5>3
      <4> QED
        BY <4>1, <4>2
    <3> QED
      BY <3>1, <3>2
  <2> QED
    BY <2>3, <2>4
<1>9. Earlier(e, k) <=> k < at
  BY DEF Earlier
<1> HIDE DEF at
<1>10. /\ b \notin DOMAIN kept => k < at
       /\ b \in DOMAIN kept /\ Whole(k, MinEnd(e)) =>
             \/ kept[b] = Group
             \/ k \notin Touched(e) /\ k < at /\ b \in DOMAIN previous /\ kept[b] = previous[b]
  BY <1>7, <1>8
<1> QED
  BY <1>9, <1>10 DEF GroupedBlock

\* A touched block that is whole where the step ends at the earliest is
\* published as full.
LEMMA TouchedAt ==
    ASSUME NEW e, Ordered(e), NEW S, e.table \in Seq(S), Distinct(e.table),
           NEW k \in Touched(e), k \in Nat, Whole(k, MinEnd(e))
    PROVE  /\ e.table[k + 1] \in DOMAIN TouchedFills(e)
           /\ TouchedFills(e)[e.table[k + 1]] = Group
<1>1. Touched(e) \in SUBSET Nat /\ \A j \in Touched(e) : j + 1 \in 1 .. Len(e.table)
  <2>1. Sound(e)
    BY DEF Sound, Ordered
  <2> QED
    BY <2>1, TouchedBound
<1>2. BlockFill(LocalTokens(MinEnd(e)), k) = Group
  BY WholeFill DEF Ordered
<1> QED
  BY <1>1, <1>2, FillAt DEF TouchedFills

\* A block that one of the tables says is full is full in their merge.
LEMMA MergeFull ==
    ASSUME NEW S, NEW f \in Fillings(S), NEW g \in Fillings(S), NEW b,
           \/ b \in DOMAIN f /\ f[b] = Group
           \/ b \in DOMAIN g /\ g[b] = Group
    PROVE  b \in DOMAIN Merge(f, g) /\ Merge(f, g)[b] = Group
<1>1. /\ b \in DOMAIN f => f[b] \in 0 .. Group
      /\ b \in DOMAIN g => g[b] \in 0 .. Group
  BY FillingParts
<1> QED
  BY <1>1, GeometryAssumption DEF Merge, Greater

LEMMA MergeAllFull ==
    ASSUME NEW S, NEW fills, \A q \in DOMAIN fills : fills[q] \in Fillings(S),
           NEW r \in DOMAIN fills, NEW b \in DOMAIN fills[r], fills[r][b] = Group
    PROVE  b \in DOMAIN MergeAll(fills) /\ MergeAll(fills)[b] = Group
<1> DEFINE P(n) == /\ \E q \in DOMAIN fills : b \in DOMAIN fills[q] /\ fills[q][b] = n
                   /\ \A q \in DOMAIN fills : b \in DOMAIN fills[q] => fills[q][b] <= n
<1>1. b \in DOMAIN MergeAll(fills) /\ MergeAll(fills)[b] = CHOOSE n \in 0 .. Group : P(n)
  BY DEF MergeAll
<1>2. Group \in 0 .. Group
  BY GeometryAssumption
<1>3. P(Group)
  <2>1. ASSUME NEW q \in DOMAIN fills, b \in DOMAIN fills[q] PROVE fills[q][b] <= Group
    <3>1. fills[q][b] \in 0 .. Group
      BY <2>1, FillingParts
    <3> QED
      BY <3>1, GeometryAssumption
  <2> QED
    BY <2>1
<1>4. \A n \in 0 .. Group : P(n) => n = Group
  <2> SUFFICES ASSUME NEW n \in 0 .. Group, P(n) PROVE n = Group
    OBVIOUS
  <2>1. Group <= n
    OBVIOUS
  <2> QED
    BY <2>1, GeometryAssumption
<1> HIDE DEF P
<1>5. (CHOOSE n \in 0 .. Group : P(n)) = Group
  BY <1>2, <1>3, <1>4
<1> QED
  BY <1>1, <1>5

\* A merge of five tables names what they name, and says that a block is full
\* where one of the first three does.
Combined(all, A, T, Q, E, Z, b) ==
    /\ DOMAIN all = DOMAIN A \cup DOMAIN T \cup DOMAIN Q \cup DOMAIN E \cup DOMAIN Z
    /\ \/ b \in DOMAIN A /\ A[b] = Group
       \/ b \in DOMAIN T /\ T[b] = Group
       \/ b \in DOMAIN Q /\ Q[b] = Group
       => b \in DOMAIN all /\ all[b] = Group

LEMMA FiveMerged ==
    ASSUME NEW S, NEW A \in Fillings(S), NEW T \in Fillings(S), NEW Q \in Fillings(S),
           NEW E \in Fillings(S), NEW Z \in Fillings(S), NEW b,
           NEW all, all = Merge(Merge(Merge(A, T), Q), Merge(E, Z))
    PROVE  Combined(all, A, T, Q, E, Z, b)
<1> DEFINE AT  == Merge(A, T)
           EZ  == Merge(E, Z)
           ATQ == Merge(AT, Q)
<1>1. AT \in Fillings(S) /\ DOMAIN AT = DOMAIN A \cup DOMAIN T
  BY MergeFilling
<1>2. EZ \in Fillings(S) /\ DOMAIN EZ = DOMAIN E \cup DOMAIN Z
  BY MergeFilling
<1>3. \/ b \in DOMAIN A /\ A[b] = Group
      \/ b \in DOMAIN T /\ T[b] = Group
      => b \in DOMAIN AT /\ AT[b] = Group
  BY MergeFull
<1> HIDE DEF AT
<1>4. ATQ \in Fillings(S) /\ DOMAIN ATQ = DOMAIN AT \cup DOMAIN Q
  <2>1. AT \in Fillings(S) /\ Q \in Fillings(S)
    BY <1>1
  <2>2. Merge(AT, Q) \in Fillings(S)
    BY <2>1, MergeFilling
  <2>3. DOMAIN Merge(AT, Q) = DOMAIN AT \cup DOMAIN Q
    BY <2>1, MergeFilling
  <2> QED
    BY <2>2, <2>3
<1>5. \/ b \in DOMAIN AT /\ AT[b] = Group
      \/ b \in DOMAIN Q /\ Q[b] = Group
      => b \in DOMAIN ATQ /\ ATQ[b] = Group
  BY <1>1, MergeFull
<1>6. all = Merge(ATQ, EZ)
  BY DEF AT
<1> HIDE DEF ATQ, EZ
<1>7. DOMAIN Merge(ATQ, EZ) = DOMAIN ATQ \cup DOMAIN EZ
  <2>1. ATQ \in Fillings(S) /\ EZ \in Fillings(S)
    BY <1>2, <1>4
  <2> QED
    BY <2>1, MergeFilling
<1>8. ASSUME b \in DOMAIN ATQ, ATQ[b] = Group
      PROVE  b \in DOMAIN all /\ all[b] = Group
  <2>1. ATQ \in Fillings(S) /\ EZ \in Fillings(S)
    BY <1>2, <1>4
  <2>2. b \in DOMAIN Merge(ATQ, EZ)
    BY <1>8, <2>1, MergeFull
  <2>3. Merge(ATQ, EZ)[b] = Group
    BY <1>8, <2>1, MergeFull
  <2> QED
    BY <1>6, <2>2, <2>3
<1> QED
  BY <1>1, <1>2, <1>3, <1>4, <1>5, <1>6, <1>7, <1>8 DEF Combined
=============================================================================
