--------------------------- MODULE MCFixedSizePool --------------------------
(***************************************************************************)
(* FixedSizePool with containers and malloc's blocks interchangeable.      *)
(***************************************************************************)
EXTENDS FixedSizePool, TLC

Symmetry == Permutations(Containers) \cup Permutations(HeapBlocks)
=============================================================================
