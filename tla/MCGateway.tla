------------------------------ MODULE MCGateway -------------------------------
(* Small instances of Gateway.                                             *)
EXTENDS Gateway

CONSTANTS t1, t2, r1, r2

MCBatches == {<<>>, <<t1>>, <<t2, t1>>}
MCSockets == (r1 :> 2) @@ (r2 :> 0)
===============================================================================
