--------------------------- MODULE MCKVarNServing ---------------------------
(* Instances of KVarNServing for TLC. *)
EXTENDS KVarNServing, TLC

\* Blocks and request names are interchangeable.
Symmetric == Permutations(Block) \cup Permutations(Req)
=============================================================================
