------------------------ MODULE MCMemoryConsolidation ------------------------
(***************************************************************************)
(* MemoryConsolidation for TLC.                                            *)
(***************************************************************************)
EXTENDS MemoryConsolidation, TLC

CONSTANTS t1, t2, w1, w2
=============================================================================
