------------------------------- MODULE MCLocks --------------------------------
(* Small instances of ChainLocks.                                          *)
EXTENDS ChainLocks, TLC

\* Two blocks of one height on the genesis block.
MCBlocks == {<<>>, <<0>>, <<1>>}
MCArguments == {<<0>>, <<1>>}

MCAllCalls == Calls
MCAddAndClean == {"AddBlock", "clean"}

\* Goroutines may call any operation and no property tells them apart.
ProcSymmetry == Permutations(Procs)
==============================================================================
