---------------------------- MODULE MCNodeManager ----------------------------
(* Two servers, three callers and two nodes: a call finds the pool full,   *)
(* and both launcher threads race for the last node.                       *)
EXTENDS NodeManager

CONSTANTS telnet, ssh, c1, c2, c3

MCServers == {telnet, ssh}
MCCallers == {c1, c2, c3}
MCBlacklisted == {c1}
=============================================================================
