---------------------------- MODULE MCKernelTurns ----------------------------
(***************************************************************************)
(* KernelTurns for TLC.                                                    *)
(***************************************************************************)
EXTENDS KernelTurns, TLC

CONSTANTS t1, t2, t3, t4, u1, u2, m1, m2, q1, x1, c1
=============================================================================
