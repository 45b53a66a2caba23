------------------------------- MODULE MCRelay -------------------------------
(* A small instance of BlockRelay: a branch of two blocks, of which the    *)
(* second may be named by a Status message as well.                        *)
EXTENDS BlockRelay

MCBlocks == {<<>>, <<0>>, <<0, 0>>}
MCSeen == MCBlocks \ {<<>>}
MCWithTD == {<<0, 0>>}
MCStatusHead == {<<0, 0>>}
==============================================================================
