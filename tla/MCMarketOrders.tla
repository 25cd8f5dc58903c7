--------------------------- MODULE MCMarketOrders ---------------------------
(***************************************************************************)
(* One call of the entry to either of its two routines that retry market   *)
(* orders on every doubt: place_market_order_with_retry for the missing    *)
(* leg, or emergency_close_position for the filled one (after a hedge that *)
(* failed, or at once when the depth check forbids it).  The routines      *)
(* share nothing; which of them is called is chosen at the start.          *)
(***************************************************************************)
EXTENDS MarketHedge, EmergencyClose

VARIABLE called

callVars == <<called, vars, closeVars>>

Hedging == called = "hedge" /\ Next /\ UNCHANGED <<called, closeVars>>
Closing == called = "close" /\ CloseNext /\ UNCHANGED <<called, vars>>

OrdersInit == called \in {"hedge", "close"} /\ Init /\ CloseInit

OrdersNext == Hedging \/ Closing

OrdersSpec ==
    /\ OrdersInit /\ [][OrdersNext]_callVars
    /\ called = "hedge" => Fairness
    /\ called = "close" => CloseFairness

(* The routine that was called answers its caller, if every call it makes  *)
(* returns: the hedge with Ok or Err, and the close so that trading is     *)
(* halted when it could not close the leg.                                 *)
HedgeCallReturns == called = "hedge" => HedgeReturns
CloseCallReturns == called = "close" => CloseReturns
=============================================================================
