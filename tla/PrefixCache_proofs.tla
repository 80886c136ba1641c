-------------------------- MODULE PrefixCache_proofs --------------------------
(***************************************************************************)
(* What PrefixCache promises is enough: however requests are given blocks, *)
(* hit registered ones and release them, two requests that read one block  *)
(* have the same text up to its end.                                       *)
(***************************************************************************)
EXTENDS PrefixCache, SequenceTheorems, TLAPS

\* A sealed block carries the hash of its owner's text.
SealedHashes ==
    \A r \in Req : \A i \in 1 .. sealed[r] : hash[table[r][i]] = PrefixOf(text[r], i)

\* A block that is not sealed is not registered and has one holder.
PrivateBlocks ==
    \A r \in Req : \A i \in sealed[r] + 1 .. Len(table[r]) :
        /\ hash[table[r][i]] = NoHash
        /\ \A q \in Req : \A j \in DOMAIN table[q] :
              table[r][i] = table[q][j] => r = q /\ i = j

IInv == TypeOK /\ SealedHashes /\ PrivateBlocks

-----------------------------------------------------------------------------

\* The hash of a block tells its place.
LEMMA PrefixLemma ==
    ASSUME NEW t \in Prefix, NEW i \in 0 .. Len(t)
    PROVE  PrefixOf(t, i) \in Prefix /\ Len(PrefixOf(t, i)) = i
  BY SubSeqProperties DEF Prefix, PrefixOf

LEMMA PrefixesDiffer ==
    ASSUME NEW t \in Prefix, NEW u \in Prefix,
           NEW i \in 1 .. Len(t), NEW j \in 1 .. Len(u),
           PrefixOf(t, i) = PrefixOf(u, j)
    PROVE  i = j /\ PrefixOf(t, i) # NoHash
<1>1. Len(PrefixOf(t, i)) = i /\ Len(PrefixOf(u, j)) = j
  BY PrefixLemma
<1>2. Len(NoHash) = 0
  BY DEF NoHash
<1> QED
  BY <1>1, <1>2

\* No block stands twice in the table of a request.
LEMMA TableInjective ==
    ASSUME IInv, NEW r \in Req, NEW i \in DOMAIN table[r], NEW j \in DOMAIN table[r],
           table[r][i] = table[r][j]
    PROVE  i = j
<1>1. table[r] \in Seq(Block) /\ DOMAIN table[r] = 1 .. Len(table[r]) /\ Len(table[r]) \in Nat
  BY DEF IInv, TypeOK
<1>2. sealed[r] \in Nat /\ sealed[r] <= Len(text[r]) /\ text[r] \in Prefix /\ Len(text[r]) \in Nat
  BY DEF IInv, TypeOK, Prefix
<1>3. CASE i <= sealed[r] /\ j <= sealed[r]
  <2>1. PrefixOf(text[r], i) = PrefixOf(text[r], j)
    BY <1>1, <1>2, <1>3 DEF IInv, SealedHashes
  <2> QED
    BY <2>1, <1>1, <1>2, <1>3, PrefixesDiffer
<1>4. CASE i > sealed[r] \/ j > sealed[r]
  BY <1>1, <1>2, <1>4 DEF IInv, PrivateBlocks
<1> QED
  BY <1>1, <1>2, <1>3, <1>4

\* Only sealed blocks are shared.
LEMMA SharedAreSealed ==
    ASSUME IInv, NEW r \in Req, NEW q \in Req,
           NEW i \in DOMAIN table[r], NEW j \in DOMAIN table[q],
           table[r][i] = table[q][j], r # q \/ i # j
    PROVE  i \in 1 .. sealed[r]
<1>1. /\ DOMAIN table[r] = 1 .. Len(table[r]) /\ Len(table[r]) \in Nat /\ sealed[r] \in Nat
  BY DEF IInv, TypeOK
<1>2. i \notin sealed[r] + 1 .. Len(table[r])
  BY DEF IInv, PrivateBlocks
<1> QED
  BY <1>1, <1>2

LEMMA InitLemma == Init => IInv
<1> SUFFICES ASSUME Init PROVE IInv
  OBVIOUS
<1>1. << >> \in Prefix /\ << >> \in Seq(Block)
  BY DEF Prefix
<1>2. TypeOK
  BY <1>1 DEF Init, TypeOK, NoHash
<1>3. SealedHashes /\ PrivateBlocks
  BY DEF Init, SealedHashes, PrivateBlocks
<1> QED
  BY <1>2, <1>3 DEF IInv

-----------------------------------------------------------------------------

\* The step in which a request is given blocks, learns text or seals blocks.
LEMMA HoldLemma ==
    ASSUME IInv, NEW r \in Req, NEW hits \in Nat, NEW t, NEW s, NEW blocks,
           Hold(r, hits, t, s, blocks)
    PROVE  IInv'
<1> DEFINE old   == Len(table[r])
           first == IF hits > 0 THEN hits ELSE old
           fresh == first + 1 .. Len(blocks)
           Has(n, b) == \E i \in 1 .. n : blocks[i] = b
<1>1. /\ t \in Prefix /\ Len(t) \in Nat /\ s \in Nat
      /\ blocks \in Seq(Block) /\ DOMAIN blocks = 1 .. Len(blocks) /\ Len(blocks) \in Nat
  BY DEF Hold, Prefix
<1>2. /\ table[r] \in Seq(Block) /\ DOMAIN table[r] = 1 .. old /\ old \in Nat
      /\ sealed[r] \in Nat /\ sealed[r] <= old /\ sealed[r] <= Len(text[r])
      /\ text[r] \in Prefix /\ Len(text[r]) \in Nat
  BY DEF IInv, TypeOK, Prefix
<1>3. /\ old <= Len(blocks) /\ (hits > 0 => old = 0)
      /\ s >= sealed[r] /\ s >= hits /\ s <= Len(blocks) /\ s <= Len(t)
      /\ first \in Nat /\ first <= Len(blocks)
  BY <1>1, <1>2 DEF Hold
<1>4. \A i \in 1 .. old : blocks[i] = table[r][i]
  <2> SUFFICES ASSUME NEW i \in 1 .. old PROVE blocks[i] = table[r][i]
    OBVIOUS
  <2>1. SubSeq(blocks, 1, old) = table[r]
    BY DEF Hold
  <2>2. SubSeq(blocks, 1, old)[i] = blocks[i]
    BY <1>1, <1>2, <1>3, SubSeqProperties
  <2> QED
    BY <2>1, <2>2
<1>5. \A i \in 1 .. hits : hash[blocks[i]] = PrefixOf(t, i)
  BY DEF Hold
<1>6. \A i \in fresh : blocks[i] \notin Held /\ \A j \in 1 .. i - 1 : blocks[j] # blocks[i]
  BY DEF Hold
<1>7. \A i, j \in 1 .. Len(blocks) : blocks[i] = blocks[j] => i = j
  <2> SUFFICES ASSUME NEW i \in 1 .. Len(blocks), NEW j \in 1 .. Len(blocks),
                      blocks[i] = blocks[j], j < i
               PROVE  FALSE
    BY <1>1
  <2>1. CASE i > first
    BY <1>3, <1>6, <2>1
  <2>2. CASE i <= first /\ hits > 0
    <3>1. PrefixOf(t, i) = PrefixOf(t, j)
      BY <1>5, <2>2
    <3> QED
      BY <3>1, <1>1, <1>3, <2>2, PrefixesDiffer
  <2>3. CASE i <= first /\ hits = 0
    BY <1>2, <1>4, <2>3, TableInjective
  <2> QED
    BY <1>1, <1>3, <2>1, <2>2, <2>3
<1>8. /\ text' = [text EXCEPT ![r] = t]
      /\ table' = [table EXCEPT ![r] = blocks]
      /\ sealed' = [sealed EXCEPT ![r] = s]
      /\ hash' = [b \in Block |->
            IF Has(s, b) THEN PrefixOf(t, CHOOSE i \in 1 .. s : blocks[i] = b)
            ELSE IF \E i \in fresh : blocks[i] = b THEN NoHash ELSE hash[b]]
  BY DEF Hold
<1>9. /\ text'[r] = t /\ table'[r] = blocks /\ sealed'[r] = s
      /\ \A q \in Req \ {r} :
            text'[q] = text[q] /\ table'[q] = table[q] /\ sealed'[q] = sealed[q]
  BY <1>8 DEF IInv, TypeOK
<1>10. \A i \in 1 .. s : hash'[blocks[i]] = PrefixOf(t, i)
  <2> SUFFICES ASSUME NEW i \in 1 .. s PROVE hash'[blocks[i]] = PrefixOf(t, i)
    OBVIOUS
  <2>1. blocks[i] \in Block /\ Has(s, blocks[i])
    BY <1>1, <1>3
  <2>2. (CHOOSE k \in 1 .. s : blocks[k] = blocks[i]) = i
    BY <1>1, <1>3, <1>7
  <2> QED
    BY <1>8, <2>1, <2>2
<1>11. \A i \in s + 1 .. Len(blocks) : hash'[blocks[i]] = NoHash
  <2> SUFFICES ASSUME NEW i \in s + 1 .. Len(blocks) PROVE hash'[blocks[i]] = NoHash
    OBVIOUS
  <2>1. blocks[i] \in Block /\ ~Has(s, blocks[i])
    BY <1>1, <1>3, <1>7
  <2>2. CASE i \in fresh
    BY <1>8, <2>1, <2>2
  <2>3. CASE i \notin fresh
    <3>1. hits = 0 /\ i \in sealed[r] + 1 .. old
      BY <1>1, <1>2, <1>3, <2>3
    <3>2. hash[blocks[i]] = NoHash
      BY <3>1, <1>2, <1>4 DEF IInv, PrivateBlocks
    <3> QED
      BY <1>8, <2>1, <3>2
  <2> QED
    BY <2>2, <2>3
<1>12. ASSUME NEW q \in Req \ {r}, NEW j \in DOMAIN table[q], Has(Len(blocks), table[q][j])
       PROVE  /\ j \in 1 .. sealed[q]
              /\ \E i \in 1 .. s : blocks[i] = table[q][j] /\ PrefixOf(t, i) = hash[table[q][j]]
  <2>0. PICK i \in 1 .. Len(blocks) : blocks[i] = table[q][j]
    BY <1>12
  <2>1. /\ table[q] \in Seq(Block) /\ DOMAIN table[q] = 1 .. Len(table[q]) /\ Len(table[q]) \in Nat
        /\ sealed[q] \in Nat /\ table[q][j] \in Block
    BY DEF IInv, TypeOK
  <2>2. table[q][j] \in Held
    BY <2>1 DEF Held
  <2>3. i <= first
    BY <1>1, <1>3, <1>6, <2>0, <2>2
  <2>4. CASE hits > 0
    <3>1. i \in 1 .. s /\ PrefixOf(t, i) = hash[table[q][j]]
      BY <1>1, <1>3, <1>5, <2>0, <2>3, <2>4
    <3>2. PrefixOf(t, i) # NoHash
      BY <3>1, <1>1, <1>3, PrefixesDiffer
    <3>3. j \in 1 .. sealed[q]
      BY <3>1, <3>2, <2>1 DEF IInv, PrivateBlocks
    <3> QED
      BY <2>0, <3>1, <3>3
  <2>5. CASE hits = 0
    <3>1. i \in DOMAIN table[r] /\ table[r][i] = table[q][j]
      BY <1>2, <1>3, <1>4, <2>0, <2>3, <2>5
    <3>2. j \in 1 .. sealed[q] /\ i \in 1 .. sealed[r]
      BY <3>1, SharedAreSealed
    <3>3. hash[table[q][j]] = PrefixOf(text[r], i)
      BY <3>1, <3>2 DEF IInv, SealedHashes
    <3>4. PrefixOf(t, i) = PrefixOf(text[r], i)
      BY <3>2 DEF Hold
    <3>5. i \in 1 .. s
      BY <1>1, <1>2, <1>3, <3>2
    <3>6. blocks[i] = table[q][j] /\ PrefixOf(t, i) = hash[table[q][j]]
      BY <2>0, <3>3, <3>4
    <3> QED
      BY <3>2, <3>5, <3>6
  <2> QED
    BY <2>4, <2>5
<1>13. \A q \in Req \ {r} : \A j \in DOMAIN table[q] : hash'[table[q][j]] = hash[table[q][j]]
  <2> SUFFICES ASSUME NEW q \in Req \ {r}, NEW j \in DOMAIN table[q]
               PROVE  hash'[table[q][j]] = hash[table[q][j]]
    OBVIOUS
  <2>1. table[q][j] \in Block
    BY DEF IInv, TypeOK
  <2>2. CASE Has(Len(blocks), table[q][j])
    BY <1>10, <1>12, <2>2
  <2>3. CASE ~Has(Len(blocks), table[q][j])
    BY <1>1, <1>3, <1>8, <2>1, <2>3
  <2> QED
    BY <2>2, <2>3
<1>14. TypeOK'
  <2>1. text' \in [Req -> Prefix] /\ table' \in [Req -> Seq(Block)] /\ sealed' \in [Req -> Nat]
    BY <1>1, <1>8 DEF IInv, TypeOK
  <2>2. hash' \in [Block -> Prefix]
    <3> SUFFICES ASSUME NEW b \in Block PROVE hash'[b] \in Prefix
      BY <1>8
    <3>1. CASE Has(s, b)
      <4>1. PICK i \in 1 .. s : blocks[i] = b
        BY <3>1
      <4> QED
        BY <4>1, <1>1, <1>3, <1>10, PrefixLemma
    <3>2. CASE ~Has(s, b)
      BY <1>8, <3>2 DEF IInv, TypeOK, NoHash, Prefix
    <3> QED
      BY <3>1, <3>2
  <2>3. \A q \in Req : sealed'[q] <= Len(table'[q]) /\ sealed'[q] <= Len(text'[q])
    BY <1>3, <1>9 DEF IInv, TypeOK
  <2> QED
    BY <2>1, <2>2, <2>3 DEF TypeOK
<1>15. SealedHashes'
  <2> SUFFICES ASSUME NEW q \in Req, NEW i \in 1 .. sealed'[q]
               PROVE  hash'[table'[q][i]] = PrefixOf(text'[q], i)
    BY DEF SealedHashes, PrefixOf
  <2>1. CASE q = r
    BY <1>9, <1>10, <2>1
  <2>2. CASE q # r
    <3>1. i \in 1 .. sealed[q] /\ i \in DOMAIN table[q]
      BY <1>9, <2>2 DEF IInv, TypeOK
    <3>2. hash[table[q][i]] = PrefixOf(text[q], i)
      BY <3>1 DEF IInv, SealedHashes
    <3> QED
      BY <1>9, <1>13, <2>2, <3>1, <3>2
  <2> QED
    BY <2>1, <2>2
<1>16. PrivateBlocks'
  <2> SUFFICES ASSUME NEW q \in Req, NEW i \in sealed'[q] + 1 .. Len(table'[q])
               PROVE  /\ hash'[table'[q][i]] = NoHash
                      /\ \A p \in Req : \A j \in DOMAIN table'[p] :
                            table'[q][i] = table'[p][j] => q = p /\ i = j
    BY DEF PrivateBlocks, NoHash
  <2>1. CASE q = r
    <3>1. i \in s + 1 .. Len(blocks)
      BY <1>9, <2>1
    <3>2. ASSUME NEW p \in Req \ {r}, NEW j \in DOMAIN table[p], blocks[i] = table[p][j]
          PROVE  FALSE
      <4>1. i \in 1 .. Len(blocks)
        BY <1>1, <3>1
      <4>2. PICK k \in 1 .. s : blocks[k] = table[p][j]
        BY <1>12, <3>2, <4>1
      <4> QED
        BY <1>1, <1>3, <1>7, <3>1, <3>2, <4>1, <4>2
    <3>3. \A j \in DOMAIN blocks : blocks[i] = blocks[j] => i = j
      BY <1>1, <1>7, <3>1
    <3> QED
      BY <1>9, <1>11, <2>1, <3>1, <3>2, <3>3
  <2>2. CASE q # r
    <3>1. i \in sealed[q] + 1 .. Len(table[q]) /\ i \in DOMAIN table[q] /\ i \notin 1 .. sealed[q]
      BY <1>9, <2>2 DEF IInv, TypeOK
    <3>2. \A j \in 1 .. Len(blocks) : blocks[j] # table[q][i]
      BY <1>12, <2>2, <3>1
    <3>3. hash[table[q][i]] = NoHash
      BY <3>1 DEF IInv, PrivateBlocks
    <3>4. \A p \in Req \ {r} : \A j \in DOMAIN table[p] :
              table[q][i] = table[p][j] => q = p /\ i = j
      BY <3>1 DEF IInv, PrivateBlocks
    <3> QED
      BY <1>1, <1>9, <1>13, <2>2, <3>1, <3>2, <3>3, <3>4
  <2> QED
    BY <2>1, <2>2
<1> QED
  BY <1>14, <1>15, <1>16 DEF IInv

-----------------------------------------------------------------------------

LEMMA ReleaseLemma ==
    ASSUME IInv, NEW r \in Req, NEW t, Release(r, t)
    PROVE  IInv'
<1>1. /\ text'[r] = t /\ table'[r] = << >> /\ sealed'[r] = 0
      /\ \A q \in Req \ {r} :
            text'[q] = text[q] /\ table'[q] = table[q] /\ sealed'[q] = sealed[q]
      /\ hash' = hash
  BY DEF Release, IInv, TypeOK
<1>2. TypeOK'
  <2>1. text' \in [Req -> Prefix] /\ table' \in [Req -> Seq(Block)]
          /\ sealed' \in [Req -> Nat] /\ hash' \in [Block -> Prefix]
    BY DEF Release, IInv, TypeOK
  <2>2. \A q \in Req : sealed'[q] <= Len(table'[q]) /\ sealed'[q] <= Len(text'[q])
    <3>1. Len(t) \in Nat
      BY DEF Release, Prefix
    <3>2. sealed'[r] <= Len(table'[r]) /\ sealed'[r] <= Len(text'[r])
      BY <1>1, <3>1
    <3>3. \A q \in Req \ {r} : sealed'[q] <= Len(table'[q]) /\ sealed'[q] <= Len(text'[q])
      BY <1>1 DEF IInv, TypeOK
    <3> QED
      BY <3>2, <3>3
  <2> QED
    BY <2>1, <2>2 DEF TypeOK
<1>3. SealedHashes'
  <2> SUFFICES ASSUME NEW q \in Req, NEW i \in 1 .. sealed'[q]
               PROVE  hash'[table'[q][i]] = PrefixOf(text'[q], i)
    BY DEF SealedHashes
  <2>1. q # r
    BY <1>1
  <2>2. sealed'[q] = sealed[q] /\ table'[q] = table[q] /\ text'[q] = text[q]
    BY <1>1, <2>1
  <2>3. hash[table[q][i]] = PrefixOf(text[q], i)
    BY <2>2 DEF IInv, SealedHashes
  <2> QED
    BY <1>1, <2>2, <2>3
<1>4. PrivateBlocks'
  <2> SUFFICES ASSUME NEW q \in Req, NEW i \in sealed'[q] + 1 .. Len(table'[q])
               PROVE  /\ hash'[table'[q][i]] = NoHash
                      /\ \A p \in Req : \A j \in DOMAIN table'[p] :
                            table'[q][i] = table'[p][j] => q = p /\ i = j
    BY DEF PrivateBlocks
  <2>1. q # r
    BY <1>1
  <2>2. sealed'[q] = sealed[q] /\ table'[q] = table[q]
    BY <1>1, <2>1
  <2>3. hash[table[q][i]] = NoHash
    BY <2>2 DEF IInv, PrivateBlocks
  <2>4. \A p \in Req : \A j \in DOMAIN table[p] :
            table[q][i] = table[p][j] => q = p /\ i = j
    BY <2>2 DEF IInv, PrivateBlocks
  <2>5. DOMAIN table'[r] = {}
    BY <1>1
  <2>6. \A p \in Req \ {r} : table'[p] = table[p]
    BY <1>1
  <2> QED
    BY <1>1, <2>2, <2>3, <2>4, <2>5, <2>6
<1> QED
  BY <1>2, <1>3, <1>4 DEF IInv

LEMMA ForgetLemma ==
    ASSUME IInv, Forget
    PROVE  IInv'
<1>1. \A r \in Req : DOMAIN table[r] = {} /\ Len(table[r]) = 0 /\ sealed[r] = 0
  <2> SUFFICES ASSUME NEW r \in Req PROVE DOMAIN table[r] = {} /\ Len(table[r]) = 0 /\ sealed[r] = 0
    OBVIOUS
  <2>1. table[r] \in Seq(Block) /\ sealed[r] \in Nat /\ sealed[r] <= Len(table[r])
          /\ DOMAIN table[r] = 1 .. Len(table[r]) /\ Len(table[r]) \in Nat
    BY DEF IInv, TypeOK
  <2>2. \A i \in DOMAIN table[r] : table[r][i] \in Held
    BY <2>1 DEF Held
  <2>3. DOMAIN table[r] = {}
    BY <2>2 DEF Forget
  <2>4. Len(table[r]) = 0
    <3>1. 1 \notin 1 .. Len(table[r])
      BY <2>1, <2>3
    <3> QED
      BY <2>1, <3>1
  <2> QED
    BY <2>1, <2>3, <2>4
<1>2. TypeOK'
  BY DEF Forget, IInv, TypeOK, Prefix, NoHash
<1>3. SealedHashes' /\ PrivateBlocks'
  BY <1>1 DEF Forget, SealedHashes, PrivateBlocks
<1> QED
  BY <1>2, <1>3 DEF IInv

LEMMA StepLemma == IInv /\ [Next]_vars => IInv'
<1> SUFFICES ASSUME IInv, [Next]_vars PROVE IInv'
  OBVIOUS
<1>1. ASSUME NEW r \in Req, NEW hits \in 0 .. Len(table'[r]),
             Hold(r, hits, text'[r], sealed'[r], table'[r])
      PROVE  IInv'
  <2>1. hits \in Nat
    OBVIOUS
  <2> QED
    BY <1>1, <2>1, HoldLemma
<1>2. ASSUME NEW r \in Req, Release(r, text'[r])
      PROVE  IInv'
  BY <1>2, ReleaseLemma
<1>3. CASE Forget
  BY <1>3, ForgetLemma
<1>4. CASE UNCHANGED vars
  BY <1>4 DEF vars, IInv, TypeOK, SealedHashes, PrivateBlocks, PrefixOf, Prefix, NoHash
<1> QED
  BY <1>1, <1>2, <1>3, <1>4 DEF Next

LEMMA SharedLemma == IInv => SharedTextsAgree
<1> SUFFICES ASSUME IInv, NEW r \in Req, NEW q \in Req,
                    NEW i \in DOMAIN table[r], NEW j \in DOMAIN table[q],
                    table[r][i] = table[q][j], <<r, i>> # <<q, j>>
             PROVE  i <= Len(text[r]) /\ j <= Len(text[q])
                      /\ PrefixOf(text[r], i) = PrefixOf(text[q], j)
  BY DEF SharedTextsAgree
<1>1. \A p \in Req : /\ DOMAIN table[p] = 1 .. Len(table[p]) /\ Len(table[p]) \in Nat
                     /\ sealed[p] \in Nat /\ Len(text[p]) \in Nat /\ sealed[p] <= Len(text[p])
  BY DEF IInv, TypeOK, Prefix
<1>2. i \in 1 .. sealed[r] /\ j \in 1 .. sealed[q]
  BY SharedAreSealed
<1>3. hash[table[r][i]] = PrefixOf(text[r], i) /\ hash[table[q][j]] = PrefixOf(text[q], j)
  BY <1>2 DEF IInv, SealedHashes
<1> QED
  BY <1>1, <1>2, <1>3

\* Whatever blocks change hands, hits included, the abstract cache is well
\* typed: no more blocks are sealed than a request has, or has text for.
THEOREM CacheTypeTheorem == Spec => []TypeOK
<1>1. IInv => TypeOK
  BY DEF IInv
<1> QED
  BY <1>1, InitLemma, StepLemma, PTL DEF Spec

\* Two requests read one block only where their texts agree up to its end:
\* find_longest_cache_hit, eviction and release never let a request read the
\* context of another text.
THEOREM SharedTheorem == Spec => []SharedTextsAgree
  BY InitLemma, StepLemma, SharedLemma, PTL DEF Spec
=============================================================================
