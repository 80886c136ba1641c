----------------------------- MODULE MCBlockPool -----------------------------
(* Instances of BlockPool for TLC. *)
EXTENDS BlockPool, TLC

\* Blocks, requests and contents are interchangeable.
Symmetric == Permutations(Block) \cup Permutations(Req) \cup Permutations(Content)
=============================================================================
