---------------------------- MODULE MCEngineHost ----------------------------
(* Small instances of EngineHost for TLC. *)
EXTENDS EngineHost, TLC
=============================================================================
