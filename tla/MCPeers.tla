------------------------------- MODULE MCPeers --------------------------------
(* A small instance of Peers: one node may connect twice.                  *)
EXTENDS Peers

CONSTANTS n1, n2, f1

MCMaxSessions == [n \in Nodes |-> IF n = n1 THEN 2 ELSE 1]
MCSpeakers == {<<n1, 1>>}
===============================================================================
