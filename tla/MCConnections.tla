----------------------------- MODULE MCConnections -----------------------------
(* Two callers closing two connections, for TLC. *)
EXTENDS Connections
=============================================================================
