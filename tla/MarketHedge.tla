---------------------------- MODULE MarketHedge ----------------------------
(***************************************************************************)
(* EntryExecutor::place_market_order_with_retry (strategy/entry.rs).       *)
(*                                                                         *)
(* The routine hedges one leg: it sends a market order, asks the exchange  *)
(* how much of it filled, and sends another one for what it believes is    *)
(* missing, MAX_RETRIES times at most.  What it believes (total_filled) is *)
(* what it could verify; what the account really holds (position) is       *)
(* decided by the exchange, which may execute an order it answered with an *)
(* error, may fail to answer the status query, and may go on filling an    *)
(* order after its status was read.                                        *)
(*                                                                         *)
(* Quantities are counted in exchange quantity steps.                      *)
(***************************************************************************)
EXTENDS Naturals

CONSTANTS
    MAX_RETRIES,      \* attempts, 3 in the code
    TARGET            \* target_quantity, in steps

ASSUME RetriesAssumption == MAX_RETRIES \in Nat \ {0}
ASSUME TargetAssumption == TARGET \in Nat \ {0}

VARIABLES
    pc,               \* "attempt", "verify", "ok" or "err"
    attempt,          \* the loop counter, 1-based
    total_filled,     \* fills the routine has verified
    order,            \* the order of this attempt: [qty, filled] on the exchange
    late,             \* unfilled quantity of every order that may still fill
                      \* but is no longer looked at
    position          \* what the account really acquired

vars == <<pc, attempt, total_filled, order, late, position>>

NoOrder == [qty |-> 0, filled |-> 0]

Remaining == order.qty - order.filled

Init ==
    /\ pc = "attempt"
    /\ attempt = 1
    /\ total_filled = 0
    /\ order = NoOrder
    /\ late = 0
    /\ position = 0

-----------------------------------------------------------------------------
(* Mutant: the bound of the attempt loop is off by one.                    *)
NextAttemptOffByOne ==
    IF attempt <= MAX_RETRIES
    THEN pc' = "attempt" /\ attempt' = attempt + 1
    ELSE pc' = "err" /\ UNCHANGED attempt

(* The loop header: the next attempt, or the Err after the loop.           *)
NextAttempt ==
    IF attempt < MAX_RETRIES
    THEN pc' = "attempt" /\ attempt' = attempt + 1
    ELSE pc' = "err" /\ UNCHANGED attempt

(* backend.place_market_order accepts the order and fills some of it.  The *)
(* quantity is what is missing from the verified fills.                    *)
PlaceAccepted ==
    /\ pc = "attempt"
    /\ \E n \in 0 .. (TARGET - total_filled) :
          /\ order' = [qty |-> TARGET - total_filled, filled |-> n]
          /\ position' = position + n
    /\ late' = late + Remaining
    /\ pc' = "verify"
    /\ UNCHANGED <<attempt, total_filled>>

(* backend.place_market_order answers Err and nothing was executed.        *)
PlaceRejected ==
    /\ pc = "attempt"
    /\ NextAttempt
    /\ UNCHANGED <<total_filled, order, late, position>>

(* backend.place_market_order answers Err, but only the answer was lost:   *)
(* the exchange has the order.                                             *)
PlaceReplyLost ==
    /\ pc = "attempt"
    /\ late' = late + (TARGET - total_filled)
    /\ NextAttempt
    /\ UNCHANGED <<total_filled, order, position>>

(* Mutant: an accepted market order is taken for a filled one.             *)
VerifyAssumesFilled ==
    /\ pc = "verify"
    /\ total_filled' = total_filled + order.qty
    /\ pc' = "ok"
    /\ UNCHANGED <<attempt, order, late, position>>

(* get_order_status_detailed answers: the fill is added to total_filled.   *)
(* `total_filled >= target_quantity` returns; otherwise the loop goes on   *)
(* for the rest, or falls out of its bottom with Err.                      *)
VerifyOk ==
    /\ pc = "verify"
    /\ total_filled' = total_filled + order.filled
    /\ IF total_filled + order.filled >= TARGET
       THEN pc' = "ok" /\ UNCHANGED attempt
       ELSE NextAttempt
    /\ UNCHANGED <<order, late, position>>

(* Mutant: an attempt that could not be verified is not counted.           *)
VerifyFailedNotCounted ==
    /\ pc = "verify"
    /\ pc' = "attempt"
    /\ UNCHANGED <<attempt, total_filled, order, late, position>>

(* get_order_status_detailed answers Err: the fill is not assumed, and the *)
(* next attempt sends the same quantity again.                             *)
VerifyFailed ==
    /\ pc = "verify"
    /\ NextAttempt
    /\ UNCHANGED <<total_filled, order, late, position>>

-----------------------------------------------------------------------------
(* The exchange, at any time.                                              *)

ExchangeFills ==
    /\ Remaining > 0
    /\ order' = [order EXCEPT !.filled = @ + 1]
    /\ position' = position + 1
    /\ UNCHANGED <<pc, attempt, total_filled, late>>

ExchangeFillsLate ==
    /\ late > 0
    /\ late' = late - 1
    /\ position' = position + 1
    /\ UNCHANGED <<pc, attempt, total_filled, order>>

(* What a market order cannot fill is cancelled by the exchange.           *)
ExchangeExpires ==
    \/ /\ Remaining > 0
       /\ order' = [order EXCEPT !.qty = order.filled]
       /\ UNCHANGED <<pc, attempt, total_filled, late, position>>
    \/ /\ late > 0
       /\ \E n \in 0 .. (late - 1) : late' = n
       /\ UNCHANGED <<pc, attempt, total_filled, order, position>>

Routine ==
    \/ PlaceAccepted
    \/ PlaceRejected
    \/ PlaceReplyLost
    \/ VerifyOk
    \/ VerifyFailed

Exchange ==
    \/ ExchangeFills
    \/ ExchangeFillsLate
    \/ ExchangeExpires

Next == Routine \/ Exchange

Spec == Init /\ [][Next]_vars

(* The routine is awaited by its caller.  That every backend call returns  *)
(* is an assumption: the demo client's requests have no timeout.           *)
Fairness == WF_vars(Routine)

-----------------------------------------------------------------------------
(* Properties.                                                             *)

TypeOK ==
    /\ pc \in {"attempt", "verify", "ok", "err"}
    /\ attempt \in 1 .. MAX_RETRIES
    /\ total_filled \in 0 .. TARGET
    /\ order \in [qty : 0 .. TARGET, filled : 0 .. TARGET]
    /\ order.filled <= order.qty
    /\ late \in Nat
    /\ position \in Nat

(* place_market_order_with_retry returns Ok only when the account holds    *)
(* the whole target, whichever replies were lost or queries failed on the  *)
(* way: a hedge reported as done is never short of its leg.                *)
NeverUnderHedged == pc = "ok" => position >= TARGET

(* Attempts whose order can have reached the exchange.                     *)
Sent == IF pc = "attempt" THEN attempt - 1 ELSE attempt

(* However the retries go, what the account holds or may still acquire is  *)
(* bounded by one target per attempt: the damage of the retry-on-doubt     *)
(* policy of place_market_order_with_retry.                                *)
ExposureBounded == position + late + Remaining <= Sent * TARGET

(* The hedge ends with an answer to the caller, if every call it makes     *)
(* returns.                                                                *)
HedgeReturns == <>(pc \in {"ok", "err"})

(* The routine keeps the contract its callers in EntryExecutor rely on.    *)
Contract == INSTANCE HedgeContract WITH
    Target <- TARGET,
    Limit <- MAX_RETRIES * TARGET,
    outcome <- IF pc \in {"ok", "err"} THEN pc ELSE "pending",
    held <- position

ContractSpec == Contract!Spec
=============================================================================
