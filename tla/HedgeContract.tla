--------------------------- MODULE HedgeContract ---------------------------
(***************************************************************************)
(* What a market hedge promises its caller, whatever the exchange does:    *)
(* the position it builds only grows, is never more than Limit, is at      *)
(* least Target when the hedge reports success, and the report is given    *)
(* once.  It promises no upper bound of Target: a hedge can end up over    *)
(* its target, and after "err" any part of it may be held.                 *)
(***************************************************************************)
EXTENDS Naturals

CONSTANTS Target, Limit

VARIABLES outcome, held

hedgeVars == <<outcome, held>>

Init == outcome = "pending" /\ held = 0

(* The exchange executes some of an order, before or after the report.     *)
Acquire ==
    /\ held' \in (held + 1) .. Limit
    /\ UNCHANGED outcome

ReportOk ==
    /\ outcome = "pending"
    /\ held >= Target
    /\ outcome' = "ok"
    /\ UNCHANGED held

ReportErr ==
    /\ outcome = "pending"
    /\ outcome' = "err"
    /\ UNCHANGED held

Next == Acquire \/ ReportOk \/ ReportErr

Spec == Init /\ [][Next]_hedgeVars
=============================================================================
