------------------------------- MODULE MCPeer --------------------------------
(* Small instances of PeerQueue.                                           *)
EXTENDS PeerQueue

\* Two forks that leave the genesis block.
MCBlocks == {<<>>, <<0>>, <<1>>, <<0, 0>>, <<1, 0>>, <<0, 0, 0>>}
MCOffered == MCBlocks \ {<<>>, <<1>>}
MCHeads == {<<>>, <<0>>, <<1>>, <<0, 0>>}
\* A list with two forks of one height, an unordered one and an empty one
MCPackets == {<<<<0>>, <<1>>>>, <<<<0, 0>>, <<0>>>>, <<>>}
MCGenesis == <<>>
==============================================================================
