------------------------- MODULE MCMemoryExtraction -------------------------
(***************************************************************************)
(* MemoryExtraction for TLC.                                               *)
(***************************************************************************)
EXTENDS MemoryExtraction, TLC

CONSTANTS t1, t2, w1, w2

Symmetry == Permutations(Threads) \cup Permutations(Workers)
=============================================================================
