----------------------------- MODULE PrefixCache -----------------------------
(***************************************************************************)
(* What the block manager promises to those who read and write the cache:  *)
(* how blocks pass from request to request, whatever the order of eviction *)
(* and however references are counted.                                     *)
(*                                                                         *)
(* The leading blocks of a request are sealed: they are registered under   *)
(* the hash of the text up to their end, may be shared, and are not        *)
(* written again.  The blocks after them belong to that request alone.     *)
(***************************************************************************)
EXTENDS Naturals, Sequences

CONSTANTS
    Block,    \* physical blocks
    Req,      \* requests
    Content   \* what the tokens of one block may be

\* The hash of a block stands for the text from the first token to its end.
Prefix == Seq(Content)

\* A block that is not registered; no block stands for the empty text.
NoHash == << >>

VARIABLES
    text,     \* per request, the contents of its blocks as far as known
    table,    \* the blocks of a request
    sealed,   \* the number of its sealed blocks
    hash      \* the registered hash of a block

vars == <<text, table, sealed, hash>>

PrefixOf(t, i) == SubSeq(t, 1, i)

Held == {b \in Block : \E r \in Req : \E i \in DOMAIN table[r] : table[r][i] = b}

Init ==
    /\ text = [r \in Req |-> << >>]
    /\ table = [r \in Req |-> << >>]
    /\ sealed = [r \in Req |-> 0]
    /\ hash = [b \in Block |-> NoHash]

\* A request is given blocks, learns its text, or seals blocks: a request
\* without blocks may start with `hits` blocks that are registered for its own
\* text; the other new blocks are held by nobody and lose their registration.
Hold(r, hits, t, s, blocks) ==
    LET old   == Len(table[r])
        fresh == (IF hits > 0 THEN hits ELSE old) + 1 .. Len(blocks)
    IN  /\ t \in Prefix /\ s \in Nat /\ blocks \in Seq(Block)
        /\ Len(blocks) >= old /\ SubSeq(blocks, 1, old) = table[r]
        /\ hits > 0 => old = 0
        /\ \A i \in 1 .. hits : hash[blocks[i]] = PrefixOf(t, i)
        /\ \A i \in fresh : blocks[i] \notin Held
        /\ \A i \in fresh : \A j \in 1 .. i - 1 : blocks[j] # blocks[i]
        /\ s >= sealed[r] /\ s >= hits /\ s <= Len(blocks) /\ s <= Len(t)
        /\ \A i \in 1 .. sealed[r] : PrefixOf(t, i) = PrefixOf(text[r], i)
        /\ text' = [text EXCEPT ![r] = t]
        /\ table' = [table EXCEPT ![r] = blocks]
        /\ sealed' = [sealed EXCEPT ![r] = s]
        /\ hash' = [b \in Block |->
              IF \E i \in 1 .. s : blocks[i] = b
              THEN PrefixOf(t, CHOOSE i \in 1 .. s : blocks[i] = b)
              ELSE IF \E i \in fresh : blocks[i] = b THEN NoHash ELSE hash[b]]

\* A request gives all its blocks back; their registration stays.
Release(r, t) ==
    /\ t \in Prefix
    /\ text' = [text EXCEPT ![r] = t]
    /\ table' = [table EXCEPT ![r] = << >>]
    /\ sealed' = [sealed EXCEPT ![r] = 0]
    /\ UNCHANGED hash

\* Every registration is dropped, while nobody holds a block.
Forget ==
    /\ Held = {}
    /\ hash' = [b \in Block |-> NoHash]
    /\ UNCHANGED <<text, table, sealed>>

Next ==
    \/ \E r \in Req : \E hits \in 0 .. Len(table'[r]) :
          Hold(r, hits, text'[r], sealed'[r], table'[r])
    \/ \E r \in Req : Release(r, text'[r])
    \/ Forget

Spec == Init /\ [][Next]_vars

-----------------------------------------------------------------------------
(* Properties. *)

TypeOK ==
    /\ text \in [Req -> Prefix]
    /\ table \in [Req -> Seq(Block)]
    /\ sealed \in [Req -> Nat]
    /\ hash \in [Block -> Prefix]
    /\ \A r \in Req : sealed[r] <= Len(table[r]) /\ sealed[r] <= Len(text[r])

\* Two requests read the same block only where their texts agree up to its
\* end, so that nobody is served with the context of somebody else.
SharedTextsAgree ==
    \A r, s \in Req : \A i \in DOMAIN table[r], j \in DOMAIN table[s] :
        table[r][i] = table[s][j] /\ <<r, i>> # <<s, j>> =>
            i <= Len(text[r]) /\ j <= Len(text[s])
                /\ PrefixOf(text[r], i) = PrefixOf(text[s], j)
=============================================================================
