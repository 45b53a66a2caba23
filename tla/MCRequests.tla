------------------------------ MODULE MCRequests ------------------------------
(* Small instances of Requests.                                            *)
EXTENDS Requests

CONSTANTS b1, b2, tick, query

MCVersions == {65, 66}

\* The requests of three goroutines, the message loop, a confirmation and an ancient
\* query, meet at a peer of either version.  An ETH65 peer announces two blocks in
\* one message, which fill the queue of three channels.
MCPackets == [v \in MCVersions |-> IF v = 65 THEN {<<b1, b2>>} ELSE {<<b1>>}]
MCAsking == [v \in MCVersions |-> {tick, query}]
==============================================================================
