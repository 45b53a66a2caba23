------------------------------- MODULE MCChain -------------------------------
(* Small instances of Chain.                                               *)
EXTENDS Chain

\* A trunk of three blocks on genesis and a longer fork that leaves it at height 2.
MCBlocks == {<<>>, <<0>>, <<0, 0>>, <<0, 0, 0>>, <<0, 0, 1>>, <<0, 0, 1, 0>>}
MCSeen == MCBlocks \ {<<>>}
MCWithTD == {<<0, 0>>}

\* The head in the peer's Status message is a block of the trunk, which is delivered
\* as well.
MCStatusHead == {<<0, 0>>}
==============================================================================
