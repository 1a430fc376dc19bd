--------------------------- MODULE MCGarbageCollector ---------------------------
(* Model-checking instance of GarbageCollector.                              *)
EXTENDS GarbageCollector, TLC

BlockSymmetry == Permutations(Blocks) \cup Permutations(Slots)
=============================================================================
