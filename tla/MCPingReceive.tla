--------------------------- MODULE MCPingReceive ----------------------------
(* PingReceive for TLC: two echo replies of different sizes and one packet of *)
(* another kind.                                                              *)
EXTENDS PingReceive

MCPackets == {[id |-> 1, size |-> 2, reply |-> TRUE],
              [id |-> 2, size |-> 3, reply |-> TRUE],
              [id |-> 3, size |-> 2, reply |-> FALSE]}
=============================================================================
