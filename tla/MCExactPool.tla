---------------------------- MODULE MCExactPool ----------------------------
(* Instances of ExactPool for TLC. *)
EXTENDS ExactPool, TLC

\* Blocks and slots are interchangeable: allocation picks any free slot.
Symmetric == Permutations(Block) \cup Permutations(Slot)
=============================================================================
