---------------------------- MODULE EntryExecutor ----------------------------
(***************************************************************************)
(* EntryExecutor::execute_atomic_entry_real (strategy/entry.rs): the       *)
(* two-leg entry with real orders, together with the PriceChaser           *)
(* (strategy/price_chaser.rs) and the RaceConditionGuard                   *)
(* (strategy/atomic_execution.rs) it uses, against two exchanges that fill *)
(* orders whenever they like.                                              *)
(*                                                                         *)
(* A limit order is placed on each leg and both are polled.  The first leg *)
(* seen filled is hedged: the other leg's order is cancelled and the       *)
(* quantity bought with market orders.  A leg that cannot be hedged is     *)
(* closed in an emergency.  The code for a long fill and for a short fill  *)
(* is the same text twice; here it is one action with the leg as state.    *)
(*                                                                         *)
(* place_market_order_with_retry and emergency_close_position appear with  *)
(* the contracts checked in MarketHedge and EmergencyClose.  Quantities    *)
(* are counted in exchange steps; `pos` is the real position of a leg, in  *)
(* the direction of the entry.                                             *)
(***************************************************************************)
EXTENDS Integers

CONSTANTS
    QTY,              \* contract_quantity, in steps
    ROUNDING,         \* how an exchange's own rounding may change it
    MAX_REPRICES,     \* config.max_reprices, 5 in the code
    CALLS_FAIL,       \* TRUE: any backend call may answer Err
    DEPTHS,           \* what the five best bids of a book may add up to, in steps
    EXTRA             \* bound: how far market orders may overshoot

ASSUME EntryAssumption ==
    /\ QTY \in Nat \ {0}
    /\ ROUNDING \subseteq -1 .. 1 /\ ROUNDING # {}
    /\ \A d \in ROUNDING : QTY + d > 0
    /\ MAX_REPRICES \in Nat \ {0}
    /\ CALLS_FAIL \in BOOLEAN
    /\ DEPTHS \subseteq Nat
    /\ EXTRA \in Nat

Legs == {"long", "short"}

Other(l) == IF l = "long" THEN "short" ELSE "long"

VARIABLES
    pc,               \* where the routine is
    leg,              \* the leg it works on; in a hedge, the filled one
    timedOut,         \* start.elapsed() >= timeout
    lim,              \* the order long_order / short_order stands for
    agg,              \* the aggressive limit order of the final hedge
    stray,            \* quantity of live orders the routine lost sight of
    pos,              \* the position really held on each leg
    known,            \* long_filled / short_filled
    size,             \* long_order.size / short_order.size
    reprices,         \* long_reprice_count / short_reprice_count
    total,            \* total_filled of the final hedge
    lock,             \* the hedge lock of the symbol: "free", "me", "other"
    halted,           \* TRADING_HALTED
    closed,           \* an emergency close reported success
    exitQty,          \* size of the exit order placed, 0 for None
    result            \* "none", "ok", or what kind of Err was returned

exchange == <<lim, agg, stray, pos>>
books == <<known, size, reprices, total, exitQty>>
control == <<pc, leg, timedOut, lock, halted, closed, result>>
vars == <<pc, leg, timedOut, lim, agg, stray, pos, known, size, reprices,
          total, lock, halted, closed, exitQty, result>>

NoOrder == [qty |-> 0, filled |-> 0, live |-> FALSE]

Rest(o) == o.qty - o.filled

(* Mutant: a partial fill counts as filled.                                *)
IsPartlyFilled(o) == o.qty > 0 /\ o.filled > 0

IsFullyFilled(o) == o.qty > 0 /\ o.filled >= o.qty

IsCancelled(o) == ~o.live /\ o.filled = 0

(* A placement the exchange accepts: nothing filled yet.                   *)
Accepted(q) == [qty |-> q, filled |-> 0, live |-> TRUE]

(* cancel_order: what the exchange may do to the order, with the answer.   *)
(* Cancelling a filled or cancelled order is an error that changes         *)
(* nothing; an error on a live order may or may not have cancelled it.     *)
CancelOutcomes(o) ==
    IF o.live
    THEN {[ok |-> TRUE, order |-> [o EXCEPT !.live = FALSE]]} \cup
         (IF CALLS_FAIL
          THEN {[ok |-> FALSE, order |-> [o EXCEPT !.live = b]] : b \in BOOLEAN}
          ELSE {})
    ELSE {[ok |-> FALSE, order |-> o]}

Init ==
    /\ pc = "begin"
    /\ leg = "long"
    /\ timedOut = FALSE
    /\ lim = [l \in Legs |-> NoOrder]
    /\ agg = NoOrder
    /\ stray = [l \in Legs |-> 0]
    /\ pos = [l \in Legs |-> 0]
    /\ known = [l \in Legs |-> FALSE]
    /\ size = [l \in Legs |-> QTY]
    /\ reprices = [l \in Legs |-> 0]
    /\ total = 0
    /\ lock = "free"
    /\ halted \in BOOLEAN
    /\ closed = FALSE
    /\ exitQty = [l \in Legs |-> 0]
    /\ result = "none"

-----------------------------------------------------------------------------
Goto(where) == pc' = where /\ UNCHANGED <<leg, timedOut, lock, halted, closed, result>>

(* Mutant: the lock is not released when the routine returns.              *)
ReturnKeepingLock(what) ==
    /\ pc' = "done"
    /\ result' = what
    /\ UNCHANGED <<leg, timedOut, lock>>

(* Returning drops the _hedge_lock guard if it is held.                    *)
Return(what) ==
    /\ pc' = "done"
    /\ result' = what
    /\ lock' = IF lock = "me" THEN "free" ELSE lock
    /\ UNCHANGED <<leg, timedOut>>

Fail(what) == Return(what) /\ UNCHANGED <<halted, closed>>

-----------------------------------------------------------------------------
(* Before the first order: the halt flag, the size checks, the rounding,   *)
(* both balances, leverage and margin mode (whose errors are ignored) and  *)
(* the depth checks of the execution mode.                                 *)

RefusedWhenHalted ==
    /\ pc = "begin"
    /\ halted
    /\ Fail("refused")
    /\ UNCHANGED <<exchange, books>>

PreflightFails ==
    /\ pc = "begin"
    /\ ~halted
    /\ Fail("refused")
    /\ UNCHANGED <<exchange, books>>

PreflightPasses ==
    /\ pc = "begin"
    /\ ~halted
    /\ Goto("place_long")
    /\ UNCHANGED <<exchange, books>>

(* place_order for a leg: accepted at the exchange's rounding, refused, or *)
(* accepted with the answer lost, so that nobody knows the order's id.     *)
PlaceLimit(l) ==
    \/ /\ \E d \in ROUNDING : lim' = [lim EXCEPT ![l] = Accepted(QTY + d)]
       /\ UNCHANGED stray
    \/ /\ CALLS_FAIL
       /\ \E lost \in {0, QTY} : stray' = [stray EXCEPT ![l] = @ + lost]
       /\ UNCHANGED lim

(* Both orders are sent before either answer is looked at.                 *)
PlaceLong ==
    /\ pc = "place_long"
    /\ PlaceLimit("long")
    /\ Goto("place_short")
    /\ UNCHANGED <<agg, pos, books>>

PlaceShort ==
    /\ pc = "place_short"
    /\ PlaceLimit("short")
    /\ Goto("placed")
    /\ UNCHANGED <<agg, pos, books>>

(* long_result is Err: return at once, whatever became of the short order. *)
LongNotPlaced ==
    /\ pc = "placed"
    /\ lim["long"] = NoOrder
    /\ Fail("long_not_placed")
    /\ UNCHANGED <<exchange, books>>

(* short_result is Err: the long order is cancelled, the answer ignored.   *)
ShortNotPlaced ==
    /\ pc = "placed"
    /\ lim["long"] # NoOrder
    /\ lim["short"] = NoOrder
    /\ \E c \in CancelOutcomes(lim["long"]) : lim' = [lim EXCEPT !["long"] = c.order]
    /\ Fail("short_not_placed")
    /\ UNCHANGED <<agg, stray, pos, books>>

BothPlaced ==
    /\ pc = "placed"
    /\ \A l \in Legs : lim[l] # NoOrder
    /\ Goto("loop")
    /\ UNCHANGED <<exchange, books>>

-----------------------------------------------------------------------------
(* The polling loop: long status, long reprice, short status, short        *)
(* reprice, then the checks at its bottom.                                 *)

(* The clock passes config.total_timeout_seconds.                          *)
Timeout ==
    /\ pc \notin {"begin", "done"}
    /\ ~timedOut
    /\ timedOut' = TRUE
    /\ UNCHANGED <<pc, leg, lock, halted, closed, result, exchange, books>>

LoopAgain ==
    /\ pc = "loop"
    /\ ~timedOut /\ \E l \in Legs : ~known[l]
    /\ pc' = "poll"
    /\ leg' = "long"
    /\ UNCHANGED <<timedOut, lock, halted, closed, result, exchange, books>>

(* Mutant: the timeout no longer ends the loop.                            *)
LoopEndsOnlyFilled ==
    /\ pc = "loop"
    /\ \A l \in Legs : known[l]
    /\ Goto("final")
    /\ UNCHANGED <<exchange, books>>

LoopEnds ==
    /\ pc = "loop"
    /\ timedOut \/ \A l \in Legs : known[l]
    /\ Goto("final")
    /\ UNCHANGED <<exchange, books>>

(* The status of the leg's order is not news: already known to be filled,  *)
(* the query failed, or the order is pending or partially filled.          *)
PollNothingNew ==
    /\ pc = "poll"
    /\ \/ known[leg]
       \/ CALLS_FAIL
       \/ ~IsFullyFilled(lim[leg]) /\ ~IsCancelled(lim[leg])
    /\ Goto("reprice")
    /\ UNCHANGED <<exchange, books>>

(* The order was cancelled under us: break.                                *)
PollCancelled ==
    /\ pc = "poll"
    /\ ~known[leg]
    /\ IsCancelled(lim[leg])
    /\ Goto("final")
    /\ UNCHANGED <<exchange, books>>

(* The order is fully filled: take its filled quantity and, unless the     *)
(* other leg is known to be filled, hedge.                                 *)
PollFilled ==
    /\ pc = "poll"
    /\ ~known[leg]
    /\ IsFullyFilled(lim[leg])
    /\ known' = [known EXCEPT ![leg] = TRUE]
    /\ size' = [size EXCEPT ![leg] = lim[leg].filled]
    /\ Goto(IF known[Other(leg)] THEN "reprice" ELSE "lock")
    /\ UNCHANGED <<exchange, reprices, total, exitQty>>

(* PriceChaser::reprice_order: cancel, then place the same size at the new *)
(* price.  If the cancel is refused nothing is placed; if the placement    *)
(* fails the cancelled order stays the leg's order.                        *)
RepriceOrder(l) ==
    \E c \in CancelOutcomes(lim[l]) :
       \/ /\ ~c.ok
          /\ lim' = [lim EXCEPT ![l] = c.order]
          /\ UNCHANGED <<stray, reprices>>
       \/ /\ c.ok
          /\ \E d \in ROUNDING : lim' = [lim EXCEPT ![l] = Accepted(QTY + d)]
          /\ reprices' = [reprices EXCEPT ![l] = @ + 1]
          /\ UNCHANGED stray
       \/ /\ c.ok
          /\ CALLS_FAIL
          /\ lim' = [lim EXCEPT ![l] = c.order]
          /\ \E lost \in {0, QTY} : stray' = [stray EXCEPT ![l] = @ + lost]
          /\ UNCHANGED reprices

AfterReprice ==
    /\ pc' = IF leg = "long" THEN "poll" ELSE "checks"
    /\ leg' = "short"
    /\ UNCHANGED <<timedOut, lock, halted, closed, result>>

(* should_reprice: the best price moved more than the threshold away.      *)
Reprice ==
    /\ pc = "reprice"
    /\ ~known[leg] /\ reprices[leg] < MAX_REPRICES
    /\ RepriceOrder(leg)
    /\ AfterReprice
    /\ UNCHANGED <<agg, pos, known, size, total, exitQty>>

(* The leg is filled, out of reprices, its price has not moved, or the     *)
(* best price could not be read.                                           *)
NoReprice ==
    /\ pc = "reprice"
    /\ AfterReprice
    /\ UNCHANGED <<exchange, books>>

CancelBoth ==
    \E c \in CancelOutcomes(lim["long"]), d \in CancelOutcomes(lim["short"]) :
       lim' = [lim EXCEPT !["long"] = c.order, !["short"] = d.order]

(* The spread of the two order prices left its initial value, which takes  *)
(* a reprice: cancel both and give up.                                     *)
SpreadCollapsed ==
    /\ pc = "checks"
    /\ \A l \in Legs : ~known[l]
    /\ \E l \in Legs : reprices[l] > 0
    /\ CancelBoth
    /\ Fail("collapsed")
    /\ UNCHANGED <<agg, stray, pos, books>>

(* A leg that is not filled has used up its reprices.                      *)
RepricesExhausted ==
    /\ pc = "checks"
    /\ \E l \in Legs : reprices[l] >= MAX_REPRICES /\ ~known[l]
    /\ CancelBoth
    /\ Fail("exhausted")
    /\ UNCHANGED <<agg, stray, pos, books>>

ChecksPass ==
    /\ pc = "checks"
    /\ ~\E l \in Legs : reprices[l] >= MAX_REPRICES /\ ~known[l]
    /\ Goto(IF \A l \in Legs : known[l] THEN "final" ELSE "loop")
    /\ UNCHANGED <<exchange, books>>

-----------------------------------------------------------------------------
(* After the loop.                                                         *)

(* Neither leg is known to be filled: one more status query for each.      *)
LastCheck ==
    /\ pc = "final"
    /\ \A l \in Legs : ~known[l]
    /\ \E answered \in SUBSET Legs :
          /\ CALLS_FAIL \/ answered = Legs
          /\ known' = [l \in Legs |-> l \in answered /\ IsFullyFilled(lim[l])]
          /\ size' = [l \in Legs |-> IF known'[l] THEN lim[l].filled ELSE size[l]]
    /\ Goto("last_checked")
    /\ UNCHANGED <<exchange, reprices, total, exitQty>>

LoopFoundBoth ==
    /\ pc = "final"
    /\ \E l \in Legs : known[l]
    /\ Goto("last_checked")
    /\ UNCHANGED <<exchange, books>>

NeitherFilled ==
    /\ pc = "last_checked"
    /\ \A l \in Legs : ~known[l]
    /\ CancelBoth
    /\ Fail("neither")
    /\ UNCHANGED <<agg, stray, pos, books>>

OneFilled ==
    /\ pc = "last_checked"
    /\ \E l \in Legs :
          /\ known[l] /\ ~known[Other(l)]
          /\ leg' = l
    /\ pc' = "final_lock"
    /\ UNCHANGED <<timedOut, lock, halted, closed, result, exchange, books>>

BothFilled ==
    /\ pc = "last_checked"
    /\ \A l \in Legs : known[l]
    /\ Goto("exit")
    /\ UNCHANGED <<exchange, books>>

-----------------------------------------------------------------------------
(* Hedging the filled leg, from the loop or after it.                      *)

(* RaceConditionGuard::try_acquire_hedge_lock.                             *)
AcquireLock ==
    /\ pc \in {"lock", "final_lock"}
    /\ lock = "free"
    /\ lock' = "me"
    /\ pc' = IF pc = "lock" THEN "both" ELSE "final_depth"
    /\ UNCHANGED <<leg, timedOut, halted, closed, result, exchange, books>>

LockRefused ==
    /\ pc \in {"lock", "final_lock"}
    /\ lock = "other"
    /\ Fail("lock_refused")
    /\ UNCHANGED <<exchange, books>>

ReleaseLock(where) ==
    /\ pc' = where
    /\ lock' = "free"
    /\ UNCHANGED <<leg, timedOut, halted, closed, result>>

(* RaceConditionGuard::check_both_legs_status finds the other leg filled   *)
(* too.  If the exchanges rounded differently the excess of the larger     *)
(* leg is sold with one market order, of which nothing is verified, and    *)
(* that leg's size corrected; then the other leg's size is set, whether it *)
(* was the larger one or not.                                              *)
BothLegsFilled ==
    LET o == Other(leg)
        got == [l \in Legs |-> lim[l].filled]
        Excess(l) == got[l] - got[Other(l)]
    IN
    /\ pc = "both"
    /\ IsFullyFilled(lim[leg]) /\ IsFullyFilled(lim[o])
    /\ known' = [known EXCEPT ![o] = TRUE]
    /\ \/ /\ got[leg] = got[o]
          /\ size' = [size EXCEPT ![o] = got[o]]
          /\ UNCHANGED pos
       \/ \E big \in Legs :
             /\ Excess(big) > 0
             /\ pos' = [pos EXCEPT ![big] = @ - Excess(big)]
             /\ size' = [size EXCEPT ![big] = got[Other(big)], ![o] = got[o]]
       \/ \E big \in Legs :
             /\ Excess(big) > 0
             /\ CALLS_FAIL
             /\ \E n \in {0, Excess(big)} : pos' = [pos EXCEPT ![big] = @ - n]
             /\ size' = [size EXCEPT ![o] = got[o]]
    /\ ReleaseLock("loop")
    /\ UNCHANGED <<lim, agg, stray, reprices, total, exitQty>>

(* The other leg is not filled, or the check failed: hedge.                *)
NotBothFilled ==
    /\ pc = "both"
    /\ CALLS_FAIL \/ ~IsFullyFilled(lim[Other(leg)])
    /\ Goto("depth")
    /\ UNCHANGED <<exchange, books>>

(* DepthChecker: the five best bids, of whichever leg, hold less than 0.73 *)
(* of one and a half times the quantity to hedge, that is 1.095 times it.  *)
is_critical(available, quantity) == quantity = 0 \/ 200 * available < 219 * quantity

(* Mutant: a thin book aborts the entry and the filled leg is left alone.  *)
DepthAbortsNakedly ==
    /\ pc \in {"depth", "final_depth"}
    /\ Fail("neither")
    /\ UNCHANGED <<exchange, books>>

(* The book is too thin for the hedge: close the filled leg, leaving the   *)
(* other leg's order where it is.                                          *)
DepthAborts ==
    /\ pc \in {"depth", "final_depth"}
    /\ \E available \in DEPTHS : is_critical(available, size[leg])
    /\ Goto("close")
    /\ UNCHANGED <<exchange, books>>

(* Deep enough, or the depth check failed.                                 *)
DepthAllows ==
    /\ pc \in {"depth", "final_depth"}
    /\ CALLS_FAIL \/ \E available \in DEPTHS : ~is_critical(available, size[leg])
    /\ Goto(IF pc = "depth" THEN "cancel" ELSE "final_cancel")
    /\ UNCHANGED <<exchange, books>>

(* The other leg's order is cancelled; in the loop nothing looks at what   *)
(* it had filled, after the loop its status is read.                       *)
CancelOther ==
    /\ pc \in {"cancel", "final_cancel"}
    /\ \E c \in CancelOutcomes(lim[Other(leg)]) :
          lim' = [lim EXCEPT ![Other(leg)] = c.order]
    /\ Goto(IF pc = "cancel" THEN "market" ELSE "check_cancelled")
    /\ UNCHANGED <<agg, stray, pos, books>>

(* What is missing of the filled leg's quantity.                           *)
Missing == size[leg] - total

(* The other leg is hedged with `n` recorded; its limit order, if it is    *)
(* still live, is forgotten.                                               *)
Hedged(n) ==
    LET o == Other(leg) IN
    /\ known' = [known EXCEPT ![o] = TRUE]
    /\ size' = [size EXCEPT ![o] = n]
    /\ ReleaseLock("final")

CheckCancelled ==
    /\ pc = "check_cancelled"
    /\ \E read \in {lim[Other(leg)].filled} \cup (IF CALLS_FAIL THEN {0} ELSE {}) :
          /\ total' = read
          /\ IF read >= size[leg]
             THEN Hedged(read)
             ELSE Goto("aggressive") /\ UNCHANGED <<known, size>>
    /\ UNCHANGED <<exchange, reprices, exitQty>>

(* A limit order at the best price of the other side for what is missing.  *)
PlaceAggressive ==
    /\ pc = "aggressive"
    /\ agg' = Accepted(Missing)
    /\ Goto("aggressive_wait")
    /\ UNCHANGED <<lim, stray, pos, books>>

(* The best price or the placement failed.                                 *)
AggressiveFails ==
    /\ pc = "aggressive"
    /\ CALLS_FAIL
    /\ \E lost \in {0, Missing} : stray' = [stray EXCEPT ![Other(leg)] = @ + lost]
    /\ Goto("market")
    /\ UNCHANGED <<lim, agg, pos, books>>

(* After two seconds the aggressive order's fill is read once.             *)
CheckAggressive ==
    /\ pc = "aggressive_wait"
    /\ \E read \in {agg.filled} \cup (IF CALLS_FAIL THEN {0} ELSE {}) :
          /\ total' = total + read
          /\ IF read >= Missing
             THEN Hedged(total + read)
             ELSE Goto("aggressive_cancel") /\ UNCHANGED <<known, size>>
    /\ UNCHANGED <<exchange, reprices, exitQty>>

(* It is then cancelled and not looked at again.                           *)
CancelAggressive ==
    /\ pc = "aggressive_cancel"
    /\ \E c \in CancelOutcomes(agg) : agg' = c.order
    /\ Goto("market")
    /\ UNCHANGED <<lim, stray, pos, books>>

(* place_market_order_with_retry returns Ok: at least what is missing is   *)
(* held.  The recorded size is that of the market orders alone.            *)
MarketHedged ==
    /\ pc = "market"
    /\ \E extra \in 0 .. EXTRA :
          pos' = [pos EXCEPT ![Other(leg)] = @ + Missing + extra]
    /\ Hedged(Missing)
    /\ UNCHANGED <<lim, agg, stray, reprices, total, exitQty>>

(* Mutant: the error of the market hedge is ignored.                       *)
MarketFailsIgnored ==
    /\ pc = "market"
    /\ \E n \in 0 .. Missing : pos' = [pos EXCEPT ![Other(leg)] = @ + n]
    /\ Hedged(Missing)
    /\ UNCHANGED <<lim, agg, stray, reprices, total, exitQty>>

(* It returns Err: any part of it may be held all the same.                *)
MarketFails ==
    /\ pc = "market"
    /\ \E n \in 0 .. Missing + EXTRA :
          pos' = [pos EXCEPT ![Other(leg)] = @ + n]
    /\ Goto("close")
    /\ UNCHANGED <<lim, agg, stray, books>>

(* emergency_close_position reports success and the entry returns Err.  It *)
(* may report it without a fill, or after having sent its order more than  *)
(* once (EmergencyClose).                                                  *)
EmergencyCloseOk ==
    /\ pc = "close"
    /\ \E n \in 0 .. size[leg] + EXTRA : pos' = [pos EXCEPT ![leg] = @ - n]
    /\ closed' = TRUE
    /\ Return("closed")
    /\ UNCHANGED <<halted, lim, agg, stray, books>>

(* It fails: trading is halted and the entry returns Err.                  *)
EmergencyCloseFails ==
    /\ pc = "close"
    /\ \E n \in 0 .. size[leg] + EXTRA : pos' = [pos EXCEPT ![leg] = @ - n]
    /\ halted' = TRUE
    /\ Return("critical")
    /\ UNCHANGED <<closed, lim, agg, stray, books>>

-----------------------------------------------------------------------------
(* Both legs are filled: place the two exit orders (either may fail and is *)
(* then None) and return the trade.                                        *)
PlaceExits ==
    /\ pc = "exit"
    /\ \E placed \in SUBSET Legs :
          /\ CALLS_FAIL \/ placed = Legs
          /\ exitQty' = [l \in Legs |-> IF l \in placed THEN size[l] ELSE 0]
    /\ Fail("ok")
    /\ UNCHANGED <<exchange, known, size, reprices, total>>

-----------------------------------------------------------------------------
(* The exchanges fill live orders in any order and at any time.            *)

Fill(o) == [o EXCEPT !.filled = @ + 1, !.live = o.filled + 1 < o.qty]

FillLimit(l) ==
    /\ lim[l].live
    /\ lim' = [lim EXCEPT ![l] = Fill(@)]
    /\ pos' = [pos EXCEPT ![l] = @ + 1]
    /\ UNCHANGED <<agg, stray, control, books>>

FillAggressive ==
    /\ agg.live
    /\ agg' = Fill(agg)
    /\ pos' = [pos EXCEPT ![Other(leg)] = @ + 1]
    /\ UNCHANGED <<lim, stray, control, books>>

FillStray(l) ==
    /\ stray[l] > 0
    /\ stray' = [stray EXCEPT ![l] = @ - 1]
    /\ pos' = [pos EXCEPT ![l] = @ + 1]
    /\ UNCHANGED <<lim, agg, control, books>>

(* Another entry of the same symbol takes and drops the process-wide hedge *)
(* lock.                                                                   *)
OtherHolder ==
    /\ lock # "me"
    /\ lock' = IF lock = "free" THEN "other" ELSE "free"
    /\ UNCHANGED <<pc, leg, timedOut, halted, closed, result, exchange, books>>

Preflight == RefusedWhenHalted \/ PreflightFails \/ PreflightPasses

Placement == PlaceLong \/ PlaceShort \/ LongNotPlaced \/ ShortNotPlaced \/ BothPlaced

Polling ==
    \/ LoopAgain \/ LoopEnds
    \/ PollNothingNew \/ PollCancelled \/ PollFilled
    \/ Reprice \/ NoReprice
    \/ SpreadCollapsed \/ RepricesExhausted \/ ChecksPass

AfterLoop == LastCheck \/ LoopFoundBoth \/ NeitherFilled \/ OneFilled \/ BothFilled

Hedging ==
    \/ AcquireLock \/ LockRefused
    \/ BothLegsFilled \/ NotBothFilled
    \/ DepthAborts \/ DepthAllows
    \/ CancelOther \/ CheckCancelled
    \/ PlaceAggressive \/ AggressiveFails \/ CheckAggressive \/ CancelAggressive
    \/ MarketHedged \/ MarketFails
    \/ EmergencyCloseOk \/ EmergencyCloseFails

(* The code has the steps of Polling and Hedging twice, once for a filled  *)
(* long leg and once, mirrored, for a filled short leg.                    *)
Routine == Preflight \/ Placement \/ Polling \/ AfterLoop \/ Hedging \/ PlaceExits

Exchanges ==
    \/ \E l \in Legs : FillLimit(l) \/ FillStray(l)
    \/ FillAggressive

Next == Routine \/ Exchanges \/ Timeout \/ OtherHolder

Spec == Init /\ [][Next]_vars

(* The routine is awaited by the strategy task and the clock that ends the *)
(* polling loop runs; that every call of the backend returns is an         *)
(* assumption (the demo client's requests have no timeout).                *)
FairSpec == Spec /\ WF_vars(Routine) /\ WF_vars(Timeout)

-----------------------------------------------------------------------------
(* The smallest quantity an exchange can have taken the order for.         *)
LeastQty == CHOOSE q \in {QTY + d : d \in ROUNDING} : \A d \in ROUNDING : q <= QTY + d

(* An entry that returns a trade holds both legs: whichever fills, cancels *)
(* and hedges raced, no Ok of execute_atomic_entry_real leaves a leg short *)
(* of the quantity ordered.                                                *)
OkHoldsBothLegs == result = "ok" => \A l \in Legs : pos[l] >= LeastQty

(* The exit orders of a returned trade sell no more than the account       *)
(* holds, as long as both exchanges took the same quantity.                *)
ExitsAreCovered ==
    (result = "ok" /\ lim["long"].qty = lim["short"].qty) =>
        \A l \in Legs : exitQty[l] <= pos[l]

(* Once a leg has been seen filled, an Err is returned only after an       *)
(* emergency close reported success or trading was halted; the one         *)
(* exception in the code is a hedge lock held by somebody else.            *)
FilledLegNotAbandoned ==
    (pc = "done" /\ result # "ok" /\ \E l \in Legs : known[l]) =>
        closed \/ halted \/ result = "lock_refused"

(* The hedge lock is held exactly during a hedge, and dropped on every     *)
(* return of the routine.                                                  *)
LockHeldWhileHedging ==
    lock = "me" <=> pc \in {"both", "depth", "cancel", "market", "close",
                            "final_depth", "final_cancel", "check_cancelled",
                            "aggressive", "aggressive_wait", "aggressive_cancel"}

(* The polling loop and the hedges end: every entry returns to the runner, *)
(* if every call it makes returns.                                         *)
EntryReturns == <>(pc = "done")

InFlight == agg.live \/ \E l \in Legs : lim[l].live \/ stray[l] > 0

(* "contract quantity (same on both legs for delta neutrality)" and "This  *)
(* guarantees hedge with minimal directional risk" (entry.rs): the two     *)
(* legs of a returned trade are equal.                                     *)
DeltaNeutral == (result = "ok" /\ ~InFlight) => pos["long"] = pos["short"]

=============================================================================
