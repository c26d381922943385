---------------------------- MODULE MCMcpServers ----------------------------
(* A small instance of McpServers for TLC. *)
EXTENDS McpServers, TLC

CONSTANTS k1, k2, x1, x2
=============================================================================
