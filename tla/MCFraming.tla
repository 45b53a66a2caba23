------------------------------ MODULE MCFraming -------------------------------
(* Small instances of Framing.                                             *)
EXTENDS Framing

MCTx(t, n) == NewTx(7, n, 1, 3, t)
MCBlock(n, k) == NewBlockBroadcast(8, n, k, 2)

\* Times on both sides of the end of a window; contents and blocks of several
\* lengths, with and without short IDs
MCOutgoing == {MCTx(127, 9), MCTx(128, 30), MCTx(150, 8), MCBlock(0, 2), MCBlock(13, 0)}
MCClocks == {116, 127, 128, 138, 162}
===============================================================================
