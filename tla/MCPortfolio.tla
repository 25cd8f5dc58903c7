---------------------------- MODULE MCPortfolio ----------------------------
(* Three trades that do not all fit in the capital at once, with profits   *)
(* that include a loss and zero.                                           *)
EXTENDS Portfolio, TLC

CONSTANTS t1, t2, t3

MCSize == t1 :> 2 @@ t2 :> 3 @@ t3 :> 4

MCProfits == {-2, 0, 1}
=============================================================================
