--------------------------- MODULE EmergencyClose ---------------------------
(***************************************************************************)
(* EntryExecutor::emergency_close_position (strategy/entry.rs), the        *)
(* MarketOrderPlacer::place_with_retry it is built on and the global       *)
(* TRADING_HALTED flag (strategy/atomic_execution.rs), with the orders the *)
(* demo client makes of them (testnet/bybit_testnet.rs).                   *)
(*                                                                         *)
(* A leg that could not be hedged is closed with market orders of its full *)
(* size; if the exchange refuses that size, with two orders of half of it. *)
(* The client rounds each of them to the step of the symbol and sends it   *)
(* Immediate-Or-Cancel.  place_with_retry sends the SAME quantity again    *)
(* whenever it did not see the order Filled, and gives up waiting, with    *)
(* Ok, on its last attempt.  If the close fails, trading is halted.        *)
(*                                                                         *)
(* The size is counted in units finer than a step, as the f64 of the code  *)
(* is; quantities on the exchange are counted in steps.                    *)
(***************************************************************************)
EXTENDS Naturals

CONSTANTS
    FULL_RETRIES,     \* attempts with the full size, 10 in the code
    HALF_RETRIES,     \* attempts for each half, 5 in the code
    STEP,             \* the qtyStep of the symbol, in units
    SIZE              \* filled_order.size, in units

ASSUME CloseAssumption ==
    /\ FULL_RETRIES \in Nat \ {0}
    /\ HALF_RETRIES \in Nat \ {0}
    /\ STEP \in Nat \ {0}
    /\ SIZE \in Nat \ {0}

VARIABLES
    phase,            \* "full", "half1", "half2", or the result "ok" / "err"
    step,             \* inside place_with_retry: "place" or "verify"
    attempts,         \* its counter
    placed_order,     \* the order of this attempt: [qty, filled] on the exchange
    abandoned,        \* open quantity of the orders left behind
    closed,           \* quantity really closed on the exchange
    expired,          \* quantity the exchange accepted and then cancelled
    halted            \* TRADING_HALTED

closeVars == <<phase, step, attempts, placed_order, abandoned, closed, expired, halted>>

NoCloseOrder == [qty |-> 0, filled |-> 0]

Unfilled == placed_order.qty - placed_order.filled

(* (size / qty_step).round() of the whole size and of size / 2.0: to the   *)
(* nearest step, away from zero in the middle.                             *)
FullQuantity == (2 * SIZE + STEP) \div (2 * STEP)
HalfQuantity == (SIZE + STEP) \div (2 * STEP)

(* Mutant: the two halves are sent with the size of the whole.             *)
QuantityNotHalved == FullQuantity

(* What the current call of place_with_retry sends in each attempt.        *)
Quantity == IF phase = "full" THEN FullQuantity ELSE HalfQuantity
MaxRetries == IF phase = "full" THEN FULL_RETRIES ELSE HALF_RETRIES

Running == phase \in {"full", "half1", "half2"}

CloseInit ==
    /\ phase = "full"
    /\ step = "place"
    /\ attempts = 0
    /\ placed_order = NoCloseOrder
    /\ abandoned = 0
    /\ closed = 0
    /\ expired = 0
    /\ halted = FALSE

-----------------------------------------------------------------------------
(* How place_with_retry returns to emergency_close_position.               *)

(* Mutant: the second half is forgotten.                                   *)
ReturnOkAfterFirstHalf ==
    /\ phase' = "ok"
    /\ step' = "place"
    /\ attempts' = 0
    /\ UNCHANGED halted

(* Ok: the full size is closed, or the first half and then the second.     *)
ReturnOk ==
    /\ phase' = IF phase = "half1" THEN "half2" ELSE "ok"
    /\ step' = "place"
    /\ attempts' = 0
    /\ UNCHANGED halted

(* Err of the full size because of the exchange's quantity limits: split.  *)
ReturnQuantityLimit ==
    /\ phase = "full"
    /\ phase' = "half1"
    /\ step' = "place"
    /\ attempts' = 0
    /\ UNCHANGED halted

(* Any other Err, and an Err of either half: halt_trading, then Err.       *)
ReturnErr ==
    /\ phase' = "err"
    /\ step' = "place"
    /\ attempts' = 0
    /\ halted' = TRUE

(* The next attempt of place_with_retry sends order.clone(), the quantity  *)
(* of the first.                                                           *)
Retry ==
    /\ step' = "place"
    /\ UNCHANGED <<phase, attempts, halted>>

-----------------------------------------------------------------------------
(* One attempt of place_with_retry.                                        *)

(* The exchange takes the order (never one that was rounded to nothing)    *)
(* and fills some of it.                                                   *)
CloseAccepted ==
    /\ Running /\ step = "place"
    /\ Quantity > 0
    /\ \E n \in 0 .. Quantity :
          /\ placed_order' = [qty |-> Quantity, filled |-> n]
          /\ closed' = closed + n
    /\ abandoned' = abandoned + Unfilled
    /\ attempts' = attempts + 1
    /\ step' = "verify"
    /\ UNCHANGED <<phase, expired, halted>>

(* Mutant: a placement that keeps being refused is tried for ever.         *)
CloseFailedForever ==
    /\ Running /\ step = "place"
    /\ attempts' = (attempts + 1) % MaxRetries
    /\ UNCHANGED <<phase, step, halted, placed_order, abandoned, closed, expired>>

(* place_market_order answers Err; `took` of the quantity reached the      *)
(* exchange all the same (all of it when only the answer was lost).        *)
CloseFailed ==
    /\ Running /\ step = "place"
    /\ \E took \in {0, Quantity} : abandoned' = abandoned + took
    /\ IF attempts + 1 < MaxRetries
       THEN attempts' = attempts + 1 /\ UNCHANGED <<phase, step, halted>>
       ELSE ReturnErr \/ ReturnQuantityLimit
    /\ UNCHANGED <<placed_order, closed, expired>>

(* get_order_status_detailed reports Filled: all of the order executed.    *)
VerifyFilled ==
    /\ Running /\ step = "verify"
    /\ placed_order.filled = Quantity
    /\ ReturnOk
    /\ UNCHANGED <<placed_order, abandoned, closed, expired>>

(* The status is something else, or the query failed: another attempt, or  *)
(* Ok when there is none left.                                             *)
VerifyNotFilled ==
    /\ Running /\ step = "verify"
    /\ IF attempts < MaxRetries THEN Retry ELSE ReturnOk
    /\ UNCHANGED <<placed_order, abandoned, closed, expired>>

-----------------------------------------------------------------------------
(* The exchange, at any time.                                              *)

CloseFills ==
    /\ Unfilled > 0
    /\ placed_order' = [placed_order EXCEPT !.filled = @ + 1]
    /\ closed' = closed + 1
    /\ UNCHANGED <<phase, step, attempts, abandoned, expired, halted>>

CloseFillsLate ==
    /\ abandoned > 0
    /\ abandoned' = abandoned - 1
    /\ closed' = closed + 1
    /\ UNCHANGED <<phase, step, attempts, placed_order, expired, halted>>

(* Immediate-Or-Cancel: what an order does not fill is cancelled, and an   *)
(* order that was left behind may be cancelled as well.                    *)
CloseExpires ==
    \/ /\ Unfilled > 0
       /\ placed_order' = [placed_order EXCEPT !.qty = placed_order.filled]
       /\ expired' = expired + Unfilled
       /\ UNCHANGED <<phase, step, attempts, abandoned, closed, halted>>
    \/ \E n \in 1 .. abandoned :
       /\ abandoned' = abandoned - n
       /\ expired' = expired + n
       /\ UNCHANGED <<phase, step, attempts, placed_order, closed, halted>>

CloseRoutine == CloseAccepted \/ CloseFailed \/ VerifyFilled \/ VerifyNotFilled

CloseExchange == CloseFills \/ CloseFillsLate \/ CloseExpires

CloseNext == CloseRoutine \/ CloseExchange

CloseSpec == CloseInit /\ [][CloseNext]_closeVars

(* The caller awaits the close; that each call of the backend returns is   *)
(* an assumption (the demo client's requests have no timeout).             *)
CloseFairness == WF_closeVars(CloseRoutine)

-----------------------------------------------------------------------------
(* What the exchange has executed or may still execute, in steps, and what *)
(* it ever took.                                                           *)
Exposure == closed + abandoned + Unfilled
Taken == Exposure + expired

(* Resending the same quantity on every doubt can close at most one size   *)
(* per attempt with the full size and one per attempt with each pair of    *)
(* halves, plus what rounding adds: half a step to each order.             *)
OverCloseBounded ==
    2 * STEP * Exposure
        <= FULL_RETRIES * (2 * SIZE + STEP) + 2 * HALF_RETRIES * (SIZE + STEP)

(* A close reported as successful has put orders on the exchange for the   *)
(* whole leg but less than one step, although place_with_retry returns Ok  *)
(* without having seen the last fill.                                      *)
ReportedCloseIsBacked == phase = "ok" => STEP * (Taken + 1) > SIZE

(* "If hedge fails, immediately close the filled position to avoid naked   *)
(* exposure" (emergency_close_position): once a close is reported as       *)
(* successful and no order of it is open any more, less than a step of the *)
(* leg is left.                                                            *)
ReportedCloseIsReal ==
    phase = "ok" /\ abandoned + Unfilled = 0 => STEP * (closed + 1) > SIZE

(* The emergency close answers its caller if every call it makes returns,  *)
(* and when it answers Err, with the leg perhaps still open, later entries *)
(* have been stopped.                                                      *)
CloseReturns == <>(phase = "ok" \/ (phase = "err" /\ halted))
=============================================================================
