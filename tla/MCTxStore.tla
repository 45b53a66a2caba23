------------------------------ MODULE MCTxStore -------------------------------
(* Small instances of TxStore.                                             *)
EXTENDS TxStore, TLC

CONSTANTS h1, h2, s1

MCAssigned == (s1 :> h1)
===============================================================================
