--------------------------- MODULE MCPingStore ----------------------------
(* PingStore for TLC; the configurations choose the manager and the bounds. *)
EXTENDS PingStore
=============================================================================
