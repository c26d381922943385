--------------------------- MODULE MCSessionTurns ---------------------------
(* Small instances of SessionTurns for TLC. *)
EXTENDS SessionTurns, TLC

CONSTANTS bash, read

AllReplies == {<<>>, <<bash>>, <<bash, bash>>, <<read, bash>>}
OneCall    == {<<>>, <<bash>>}
=============================================================================
