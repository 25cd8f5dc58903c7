------------------------- MODULE EntryExecutorProofs -------------------------
(***************************************************************************)
(* Proofs about the two-leg entry, for every order quantity, rounding,     *)
(* number of reprices, book depth and overshoot, and whether or not calls  *)
(* may fail: the hedge lock, the fate of a leg seen filled, and what an    *)
(* entry that returns Ok really holds.                                     *)
(***************************************************************************)
EXTENDS EntryExecutor, TLAPS

(* The control states under the hedge lock, and those of a whole hedge.    *)
Locked == {"both", "depth", "cancel", "market", "close",
           "final_depth", "final_cancel", "check_cancelled",
           "aggressive", "aggressive_wait", "aggressive_cancel"}
Hedge == Locked \cup {"lock", "final_lock"}
Before == {"begin", "place_long", "place_short", "placed"}
Loop == {"loop", "poll", "reprice", "checks", "final"}
Pcs == Before \cup Loop \cup Hedge \cup {"last_checked", "exit", "done"}

(* What the routine answers when it has seen no leg filled.                *)
Clean == {"refused", "long_not_placed", "short_not_placed", "collapsed",
          "exhausted", "neither"}
Results == Clean \cup {"none", "ok", "lock_refused", "closed", "critical"}

NoneKnown == \A l \in Legs : ~known[l]
AllKnown == \A l \in Legs : known[l]

ControlType ==
    /\ pc \in Pcs
    /\ leg \in Legs
    /\ known \in [Legs -> BOOLEAN]
    /\ lock \in {"free", "me", "other"}
    /\ result \in Results

(* In the loop the legs are known to be filled together: the first one     *)
(* seen leads to its hedge, which ends with both known or with a return.   *)
Phases ==
    /\ pc \in Before => NoneKnown
    /\ pc \in Loop => NoneKnown \/ AllKnown
    /\ pc \in Hedge => known[leg] /\ ~known[Other(leg)]
    /\ pc = "exit" => AllKnown

Outcome ==
    /\ pc = "done" <=> result # "none"
    /\ result \in Clean => NoneKnown
    /\ result = "ok" => AllKnown
    /\ result = "closed" => closed
    /\ result = "critical" => halted

Control == ControlType /\ Phases /\ Outcome /\ LockHeldWhileHedging

-----------------------------------------------------------------------------
(* The quantities.                                                         *)

Quantities == {QTY + d : d \in ROUNDING}

(* An order is never filled beyond its quantity, and not live once full.   *)
Orders ==
    {o \in [qty : Nat, filled : Nat, live : BOOLEAN] :
        o.filled <= o.qty /\ (o.live => o.filled < o.qty)}

QuantityType ==
    /\ lim \in [Legs -> Orders]
    /\ \A l \in Legs : lim[l] = NoOrder \/ lim[l].qty \in Quantities
    /\ agg \in Orders
    /\ stray \in [Legs -> Nat]
    /\ pos \in [Legs -> Int]
    /\ size \in [Legs -> Nat]
    /\ reprices \in [Legs -> Nat]
    /\ total \in Nat
    /\ exitQty \in [Legs -> Nat]

(* The routine is at work, or it has returned a trade.                     *)
Open == pc # "done" \/ result = "ok"

(* Until both legs are known to be filled nothing has been sold: a leg     *)
(* holds what its order, and the aggressive order of its hedge, filled.    *)
Unsold ==
    pc # "done" /\ ~AllKnown =>
       \A l \in Legs :
          pos[l] >= lim[l].filled + (IF l = Other(leg) THEN agg.filled ELSE 0)

(* A leg known to be filled holds at least what was ordered, even when it  *)
(* was trimmed to the other leg's size.                                    *)
Held == Open => \A l \in Legs : known[l] => pos[l] >= LeastQty

(* The recorded size is covered, unless the two exchanges took different   *)
(* quantities.                                                             *)
Covered ==
    Open => \A l \in Legs :
       known[l] /\ (~AllKnown \/ lim["long"].qty = lim["short"].qty) => size[l] <= pos[l]

(* The quantity to hedge is that of an order.                              *)
HedgeSize ==
    pc # "done" => \A l \in Legs : known[l] /\ ~known[Other(l)] => size[l] \in Quantities

Late == {"aggressive_wait", "aggressive_cancel", "market", "close", "done"}

(* total_filled never counts more than the other leg's orders filled.      *)
Counted ==
    /\ pc \notin Late /\ ~AllKnown => agg = NoOrder
    /\ pc \notin Late \cup {"aggressive"} /\ ~AllKnown => total = 0
    /\ pc \in {"aggressive", "aggressive_wait"} =>
          total <= lim[Other(leg)].filled /\ total < size[leg]
    /\ pc \in {"aggressive_cancel", "market"} =>
          total <= lim[Other(leg)].filled + agg.filled /\ total < size[leg]

Exits == result = "ok" => \A l \in Legs : exitQty[l] \in {0, size[l]}

Quantity ==
    QuantityType /\ Unsold /\ Held /\ Covered /\ HedgeSize /\ Counted /\ Exits

IInv == Control /\ Quantity

USE EntryAssumption

-----------------------------------------------------------------------------
LEMMA InitControl == Init => Control
  BY DEF Init, Control, ControlType, Phases, Outcome, LockHeldWhileHedging,
         Pcs, Before, Loop, Hedge, Locked, Clean, Results, NoneKnown, AllKnown, Legs, Other

(* A step inside the routine that learns nothing about the legs.           *)
LEMMA Unlearned ==
    ASSUME Control, pc # "done", known' = known, leg' \in Legs,
           pc' \in Pcs \ {"done"}, result' = result, lock' \in {"free", "me", "other"},
           lock' = "me" <=> pc' \in Locked,
           pc' \in Before => NoneKnown,
           pc' \in Loop => NoneKnown \/ AllKnown,
           pc' \in Hedge => known[leg'] /\ ~known[Other(leg')],
           pc' = "exit" => AllKnown
    PROVE  Control'
<1>1. result = "none"
  BY DEF Control, Outcome
<1>2. ControlType'
  BY DEF Control, ControlType
<1>3. Phases'
  BY DEF Control, Phases, NoneKnown, AllKnown, Other
<1>4. Outcome'
  BY <1>1 DEF Outcome, Clean
<1>5. LockHeldWhileHedging'
  BY DEF LockHeldWhileHedging, Locked
<1> QED BY <1>2, <1>3, <1>4, <1>5 DEF Control

(* A return of the routine.                                                *)
LEMMA Returned ==
    ASSUME Control, pc # "done", known' = known, NEW what \in Results \ {"none"},
           Return(what),
           what \in Clean => NoneKnown,
           what = "ok" => AllKnown,
           what = "closed" => closed',
           what = "critical" => halted'
    PROVE  Control'
<1>1. ControlType'
  BY DEF Control, ControlType, Return, Pcs
<1>2. Phases'
  BY DEF Return, Phases, Before, Loop, Hedge, Locked
<1>3. Outcome'
  BY DEF Return, Outcome, NoneKnown, AllKnown, Results
<1>4. LockHeldWhileHedging'
  BY DEF Return, LockHeldWhileHedging, Control, ControlType
<1> QED BY <1>1, <1>2, <1>3, <1>4 DEF Control

(* The other leg of a hedge is recorded and the lock dropped.              *)
LEMMA BothLearned ==
    ASSUME Control, pc \in Hedge, NEW where \in {"loop", "final"},
           ReleaseLock(where), known' = [known EXCEPT ![Other(leg)] = TRUE]
    PROVE  Control'
<1>1. known' \in [Legs -> BOOLEAN] /\ \A l \in Legs : known'[l]
  BY DEF Control, ControlType, Phases, Legs, Other
<1>2. ControlType'
  BY <1>1 DEF Control, ControlType, ReleaseLock, Pcs, Loop
<1>3. Phases'
  BY <1>1 DEF ReleaseLock, Phases, AllKnown, Before, Loop, Hedge, Locked
<1>4. result = "none"
  BY DEF Control, Outcome, Hedge, Locked
<1>5. Outcome'
  BY <1>4 DEF ReleaseLock, Outcome, Clean
<1>6. LockHeldWhileHedging'
  BY DEF ReleaseLock, LockHeldWhileHedging
<1> QED BY <1>2, <1>3, <1>5, <1>6 DEF Control

LEMMA ControlPlacement ==
    ASSUME Control, Preflight \/ Placement
    PROVE  Control'
<1> USE DEF books, Fail
<1>0. NoneKnown /\ pc \in Before /\ lock # "me" /\ lock \in {"free", "other"} /\ leg \in Legs
  BY DEF Preflight, Placement, RefusedWhenHalted, PreflightFails, PreflightPasses,
         PlaceLong, PlaceShort, LongNotPlaced, ShortNotPlaced, BothPlaced,
         Control, Phases, Before, LockHeldWhileHedging, ControlType
<1>1. CASE RefusedWhenHalted \/ PreflightFails
  BY <1>0, <1>1, Returned DEF RefusedWhenHalted, PreflightFails, Results, Clean
<1>2. CASE LongNotPlaced \/ ShortNotPlaced
  BY <1>0, <1>2, Returned DEF LongNotPlaced, ShortNotPlaced, Results, Clean
<1>3. CASE PreflightPasses \/ PlaceLong \/ PlaceShort \/ BothPlaced
  <2>1. /\ pc # "done" /\ known' = known /\ leg' = leg /\ result' = result /\ lock' = lock
        /\ pc' \in {"place_long", "place_short", "placed", "loop"}
    BY <1>3 DEF PreflightPasses, PlaceLong, PlaceShort, BothPlaced, Goto
  <2> QED BY <1>0, <2>1, Unlearned DEF Pcs, Before, Loop, Hedge, Locked
<1> QED BY <1>1, <1>2, <1>3 DEF Preflight, Placement

LEMMA ControlPolling == ASSUME Control, Polling PROVE Control'
<1> USE DEF books
<1>0. /\ pc \in Loop /\ pc # "done" /\ (NoneKnown \/ AllKnown)
      /\ lock \in {"free", "other"} /\ leg \in Legs /\ result = "none"
  BY DEF Polling, LoopAgain, LoopEnds, PollNothingNew, PollCancelled, PollFilled, Reprice,
         NoReprice, SpreadCollapsed, RepricesExhausted, ChecksPass,
         Control, Phases, Loop, LockHeldWhileHedging, ControlType, Outcome
<1>1. CASE LoopAgain \/ LoopEnds \/ PollNothingNew \/ PollCancelled \/ ChecksPass
  <2>1. /\ known' = known /\ leg' \in Legs /\ result' = result /\ lock' = lock
        /\ pc' \in Loop
    BY <1>0, <1>1 DEF LoopAgain, LoopEnds, PollNothingNew, PollCancelled, ChecksPass, Goto, Loop, Legs
  <2> QED BY <1>0, <2>1, Unlearned DEF Pcs, Before, Loop, Hedge, Locked
<1>2. CASE Reprice \/ NoReprice
  <2>1. /\ known' = known /\ leg' \in Legs /\ result' = result /\ lock' = lock
        /\ pc' \in Loop
    BY <1>0, <1>2 DEF Reprice, NoReprice, AfterReprice, Loop, Legs
  <2> QED BY <1>0, <2>1, Unlearned DEF Pcs, Before, Loop, Hedge, Locked
<1>3. CASE SpreadCollapsed \/ RepricesExhausted
  <2>1. NoneKnown
    BY <1>0, <1>3 DEF SpreadCollapsed, RepricesExhausted, NoneKnown, AllKnown
  <2> QED BY <1>0, <1>3, <2>1, Returned
          DEF SpreadCollapsed, RepricesExhausted, Fail, Results, Clean
<1>4. CASE PollFilled
  <2>1. /\ ~known[leg] /\ known' = [known EXCEPT ![leg] = TRUE] /\ pc' = "lock"
        /\ leg' = leg /\ lock' = lock /\ result' = result
    BY <1>0, <1>4 DEF PollFilled, Goto, NoneKnown, AllKnown, Legs, Other
  <2>2. known' \in [Legs -> BOOLEAN] /\ known'[leg] /\ ~known'[Other(leg)]
    BY <1>0, <2>1 DEF Control, ControlType, NoneKnown, AllKnown, Legs, Other
  <2>3. ControlType'
    BY <2>1, <2>2 DEF Control, ControlType, Pcs, Hedge
  <2>4. Phases'
    BY <2>1, <2>2 DEF Phases, Before, Loop, Other
  <2>5. Outcome'
    BY <1>0, <2>1 DEF Outcome, Clean
  <2>6. LockHeldWhileHedging'
    BY <1>0, <2>1 DEF LockHeldWhileHedging
  <2> QED BY <2>3, <2>4, <2>5, <2>6 DEF Control
<1> QED BY <1>1, <1>2, <1>3, <1>4 DEF Polling

LEMMA ControlAfterLoop == ASSUME Control, AfterLoop \/ PlaceExits PROVE Control'
<1> USE DEF books
<1>0. /\ pc \in {"final", "last_checked", "exit"} /\ lock \in {"free", "other"}
      /\ leg \in Legs /\ result = "none" /\ known \in [Legs -> BOOLEAN]
  BY DEF AfterLoop, PlaceExits, LastCheck, LoopFoundBoth, NeitherFilled, OneFilled, BothFilled,
         Control, LockHeldWhileHedging, ControlType, Outcome
<1>1. CASE LastCheck
  <2>1. known' \in [Legs -> BOOLEAN]
    <3>1. PICK answered \in SUBSET Legs :
             known' = [l \in Legs |-> l \in answered /\ IsFullyFilled(lim[l])]
      BY <1>1 DEF LastCheck
    <3> QED BY <3>1 DEF IsFullyFilled
  <2>2. pc' = "last_checked" /\ leg' = leg /\ lock' = lock /\ result' = result
    BY <1>1 DEF LastCheck, Goto
  <2>3. ControlType'
    BY <2>1, <2>2 DEF Control, ControlType, Pcs
  <2>4. Phases'
    BY <2>2 DEF Phases, Before, Loop, Hedge, Locked
  <2>5. Outcome'
    BY <1>0, <2>2 DEF Outcome, Clean
  <2>6. LockHeldWhileHedging'
    BY <1>0, <2>2 DEF LockHeldWhileHedging
  <2> QED BY <2>3, <2>4, <2>5, <2>6 DEF Control
<1>2. CASE LoopFoundBoth \/ BothFilled
  <2>1. /\ known' = known /\ leg' = leg /\ result' = result /\ lock' = lock
        /\ pc' \in {"last_checked", "exit"} /\ (pc' = "exit" => AllKnown)
    BY <1>2 DEF LoopFoundBoth, BothFilled, Goto, AllKnown
  <2> QED BY <1>0, <2>1, Unlearned DEF Pcs, Before, Loop, Hedge, Locked
<1>3. CASE OneFilled
  <2>1. /\ known' = known /\ leg' \in Legs /\ result' = result /\ lock' = lock
        /\ pc' = "final_lock" /\ known[leg'] /\ ~known[Other(leg')]
    BY <1>3 DEF OneFilled
  <2> QED BY <1>0, <2>1, Unlearned DEF Pcs, Before, Loop, Hedge, Locked
<1>4. CASE NeitherFilled
  BY <1>0, <1>4, Returned DEF NeitherFilled, Fail, NoneKnown, Results, Clean
<1>5. CASE PlaceExits
  <2>1. AllKnown /\ known' = known /\ Return("ok")
    BY <1>5 DEF PlaceExits, Fail, Control, Phases
  <2> QED BY <1>0, <2>1, Returned DEF Results, Clean
<1> QED BY <1>1, <1>2, <1>3, <1>4, <1>5 DEF AfterLoop

LEMMA ControlHedging == ASSUME Control, Hedging PROVE Control'
<1> USE DEF books
<1>0. /\ leg \in Legs /\ lock \in {"free", "me", "other"}
      /\ lock = "me" <=> pc \in Locked
      /\ pc \in Hedge => known[leg] /\ ~known[Other(leg)]
  BY DEF Control, LockHeldWhileHedging, ControlType, Phases, Locked
<1>1. CASE AcquireLock
  <2>1. /\ pc \in Hedge /\ known' = known /\ leg' = leg /\ result' = result
        /\ lock' = "me" /\ pc' \in {"both", "final_depth"}
    BY <1>1 DEF AcquireLock, Hedge
  <2> QED BY <1>0, <2>1, Unlearned DEF Pcs, Before, Loop, Hedge, Locked
<1>2. CASE LockRefused
  <2>1. pc # "done" /\ known' = known /\ Return("lock_refused")
    BY <1>2 DEF LockRefused, Fail
  <2> QED BY <2>1, Returned DEF Results, Clean
<1>3. CASE NotBothFilled \/ DepthAborts \/ DepthAllows \/ CancelOther \/ PlaceAggressive
           \/ AggressiveFails \/ CancelAggressive \/ MarketFails
  <2>1. /\ pc \in Locked /\ known' = known /\ leg' = leg /\ result' = result
        /\ lock' = lock /\ pc' \in Locked
    BY <1>3 DEF NotBothFilled, DepthAborts, DepthAllows, CancelOther, PlaceAggressive,
                AggressiveFails, CancelAggressive, MarketFails, Goto, Locked
  <2> QED BY <1>0, <2>1, Unlearned DEF Pcs, Before, Loop, Hedge, Locked
<1>4. CASE BothLegsFilled
  BY <1>4, BothLearned DEF BothLegsFilled, Hedge, Locked
<1>5. CASE CheckCancelled \/ CheckAggressive
  <2>1. CASE known' = known
    <3>1. /\ pc \in Locked /\ leg' = leg /\ result' = result
          /\ lock' = lock /\ pc' \in {"aggressive", "aggressive_cancel"}
      BY <1>0, <1>5, <2>1 DEF CheckCancelled, CheckAggressive, Hedged, Goto, Locked, Hedge,
                              Control, ControlType, Legs, Other
    <3> QED BY <1>0, <2>1, <3>1, Unlearned DEF Pcs, Before, Loop, Hedge, Locked
  <2>2. CASE known' # known
    <3>1. pc \in Hedge /\ ReleaseLock("final") /\ known' = [known EXCEPT ![Other(leg)] = TRUE]
      BY <1>5, <2>2 DEF CheckCancelled, CheckAggressive, Hedged, Locked, Hedge
    <3> QED BY <3>1, BothLearned
  <2> QED BY <2>1, <2>2
<1>6. CASE MarketHedged
  BY <1>6, BothLearned DEF MarketHedged, Hedged, Hedge, Locked
<1>7. CASE EmergencyCloseOk
  <2>1. pc # "done" /\ known' = known /\ Return("closed") /\ closed'
    BY <1>7 DEF EmergencyCloseOk
  <2> QED BY <2>1, Returned DEF Results, Clean
<1>8. CASE EmergencyCloseFails
  <2>1. pc # "done" /\ known' = known /\ Return("critical") /\ halted'
    BY <1>8 DEF EmergencyCloseFails
  <2> QED BY <2>1, Returned DEF Results, Clean
<1> QED BY <1>1, <1>2, <1>3, <1>4, <1>5, <1>6, <1>7, <1>8 DEF Hedging

LEMMA NextControl == Control /\ [Next]_vars => Control'
<1> SUFFICES ASSUME Control, [Next]_vars PROVE Control'
  OBVIOUS
<1>1. CASE Routine
  BY <1>1, ControlPlacement, ControlPolling, ControlAfterLoop, ControlHedging DEF Routine
<1>2. CASE Exchanges \/ Timeout \/ UNCHANGED vars
  <2>1. UNCHANGED <<pc, leg, known, lock, halted, closed, result>>
    BY <1>2 DEF Exchanges, FillLimit, FillStray, FillAggressive, Timeout, control, books, vars
  <2> QED BY <2>1 DEF Control, ControlType, Phases, Outcome, LockHeldWhileHedging,
                      NoneKnown, AllKnown, Other
<1>3. CASE OtherHolder
  <2>1. /\ UNCHANGED <<pc, leg, known, halted, closed, result>>
        /\ lock # "me" /\ lock' \in {"free", "other"}
    BY <1>3 DEF OtherHolder, books
  <2> QED BY <2>1 DEF Control, ControlType, Phases, Outcome, LockHeldWhileHedging,
                      NoneKnown, AllKnown, Other
<1> QED BY <1>1, <1>2, <1>3 DEF Next

(* Which legs are known to be filled, where the routine is, who holds the  *)
(* lock and what was returned agree at every step.                         *)
THEOREM ControlInvariant == Spec => []Control
<1> QED BY InitControl, NextControl, PTL DEF Spec

(* The hedge lock of the symbol is held exactly during a hedge and dropped *)
(* on every return of execute_atomic_entry_real.                           *)
THEOREM LockHeldExactlyInHedge == Spec => []LockHeldWhileHedging
<1>1. Control => LockHeldWhileHedging
  BY DEF Control
<1> QED BY <1>1, ControlInvariant, PTL

(* A leg seen filled is hedged, closed, or trading is halted, unless the   *)
(* lock was refused; no other error path of the routine abandons it.       *)
THEOREM NoFilledLegAbandoned == Spec => []FilledLegNotAbandoned
<1>1. Control => FilledLegNotAbandoned
  BY DEF Control, ControlType, Outcome, FilledLegNotAbandoned, NoneKnown, Results
<1> QED BY <1>1, ControlInvariant, PTL

-----------------------------------------------------------------------------
(* What the quantities' operators do.                                      *)

LEMMA LeastQuantity ==
    /\ LeastQty \in Quantities
    /\ \A q \in Quantities : LeastQty <= q
    /\ \A q \in Quantities : q \in Nat /\ q > 0
<1>1. \A q \in Quantities : q \in Nat /\ q > 0
  BY DEF Quantities
<1>2. \E m \in ROUNDING : \A d \in ROUNDING : m <= d
  <2>1. \A d \in ROUNDING : d \in Int /\ (d = -1 \/ d = 0 \/ d = 1)
    OBVIOUS
  <2>2. CASE \E m \in ROUNDING : m = -1
    BY <2>1, <2>2
  <2>3. CASE (\A d \in ROUNDING : d # -1) /\ 0 \in ROUNDING
    BY <2>1, <2>3
  <2>4. CASE (\A d \in ROUNDING : d # -1) /\ 0 \notin ROUNDING
    <3>1. \A d \in ROUNDING : d = 1
      BY <2>1, <2>4
    <3>2. 1 \in ROUNDING
      BY <3>1
    <3> QED BY <3>1, <3>2
  <2> QED BY <2>2, <2>3, <2>4
<1>3. \E q \in Quantities : \A d \in ROUNDING : q <= QTY + d
  <2>1. PICK m \in ROUNDING : \A d \in ROUNDING : m <= d
    BY <1>2
  <2>2. m \in Int /\ \A d \in ROUNDING : d \in Int
    OBVIOUS
  <2>3. QTY + m \in Quantities /\ \A d \in ROUNDING : QTY + m <= QTY + d
    BY <2>1, <2>2 DEF Quantities
  <2> QED BY <2>3
<1>4. LeastQty \in Quantities /\ \A d \in ROUNDING : LeastQty <= QTY + d
  BY <1>3 DEF LeastQty, Quantities
<1> QED BY <1>1, <1>4 DEF Quantities

LEMMA OrderShapes ==
    /\ NoOrder \in Orders /\ NoOrder.filled = 0 /\ NoOrder.qty = 0
    /\ \A q \in Nat : q > 0 => /\ Accepted(q) \in Orders
                               /\ Accepted(q).qty = q /\ Accepted(q).filled = 0
    /\ \A o \in Orders : o.qty \in Nat /\ o.filled \in Nat /\ o.filled <= o.qty
    /\ \A o \in Orders : IsFullyFilled(o) => o.filled = o.qty /\ o.qty > 0
  BY DEF NoOrder, Orders, Accepted, IsFullyFilled

(* A cancel, whatever it answers, changes no quantity.                     *)
LEMMA CancelKeeps ==
    ASSUME NEW o \in Orders, NEW c \in CancelOutcomes(o)
    PROVE  /\ c.order \in Orders /\ c.order.qty = o.qty /\ c.order.filled = o.filled
           /\ o = NoOrder => c.order = NoOrder
<1>1. CASE ~o.live
  <2>1. c = [ok |-> FALSE, order |-> o]
    BY <1>1, Zenon DEF CancelOutcomes
  <2> QED BY <2>1
<1>2. CASE o.live
  <2>1. \/ c = [ok |-> TRUE, order |-> [o EXCEPT !.live = FALSE]]
        \/ \E b \in BOOLEAN : c = [ok |-> FALSE, order |-> [o EXCEPT !.live = b]]
    BY <1>2, Zenon DEF CancelOutcomes
  <2>2. PICK b \in BOOLEAN : c.order = [o EXCEPT !.live = b]
    <3>1. CASE c = [ok |-> TRUE, order |-> [o EXCEPT !.live = FALSE]]
      <4>1. c.order = [o EXCEPT !.live = FALSE]
        BY <3>1
      <4> QED BY <4>1, Zenon
    <3>2. CASE \E b \in BOOLEAN : c = [ok |-> FALSE, order |-> [o EXCEPT !.live = b]]
      <4>1. PICK b \in BOOLEAN : c = [ok |-> FALSE, order |-> [o EXCEPT !.live = b]]
        BY <3>2
      <4>2. c.order = [o EXCEPT !.live = b]
        BY <4>1
      <4> QED BY <4>2, Zenon
    <3> QED BY <2>1, <3>1, <3>2
  <2>3. [o EXCEPT !.live = b] \in Orders
        /\ [o EXCEPT !.live = b].qty = o.qty /\ [o EXCEPT !.live = b].filled = o.filled
    BY <1>2 DEF Orders
  <2>4. o # NoOrder
    BY <1>2 DEF NoOrder
  <2> QED BY <2>2, <2>3, <2>4
<1> QED BY <1>1, <1>2

LEMMA FillAdds ==
    ASSUME NEW o \in Orders, o.live
    PROVE  /\ Fill(o) \in Orders /\ Fill(o).qty = o.qty /\ Fill(o).filled = o.filled + 1
           /\ o # NoOrder
<1>1. o.filled < o.qty /\ o.filled \in Nat /\ o.qty \in Nat
      /\ o \in [qty : Nat, filled : Nat, live : BOOLEAN]
  BY DEF Orders
<1>2. CASE o.filled + 1 < o.qty
  <2>1. (o.filled + 1 < o.qty) = TRUE
    BY <1>2
  <2>2. Fill(o) = [o EXCEPT !.filled = o.filled + 1, !.live = TRUE]
    BY <2>1, Zenon DEF Fill
  <2>3. /\ Fill(o) \in [qty : Nat, filled : Nat, live : BOOLEAN]
        /\ Fill(o).qty = o.qty /\ Fill(o).filled = o.filled + 1 /\ Fill(o).live = TRUE
    <3>1. DOMAIN o = {"qty", "filled", "live"} /\ o.filled + 1 \in Nat
      BY <1>1
    <3>2. Fill(o).qty = o.qty
      BY <2>2, <3>1
    <3>3. Fill(o).filled = o.filled + 1
      BY <2>2, <3>1
    <3>4. Fill(o).live = TRUE
      BY <2>2, <3>1
    <3>5. Fill(o) \in [qty : Nat, filled : Nat, live : BOOLEAN]
      BY <1>1, <2>2, <3>1
    <3> QED BY <3>2, <3>3, <3>4, <3>5
  <2>4. Fill(o) \in Orders
    BY <1>1, <1>2, <2>3 DEF Orders
  <2> QED BY <2>3, <2>4 DEF NoOrder
<1>3. CASE ~(o.filled + 1 < o.qty)
  <2>1. (o.filled + 1 < o.qty) = FALSE
    BY <1>3
  <2>2. Fill(o) = [o EXCEPT !.filled = o.filled + 1, !.live = FALSE]
    BY <2>1, Zenon DEF Fill
  <2>3. /\ Fill(o) \in [qty : Nat, filled : Nat, live : BOOLEAN]
        /\ Fill(o).qty = o.qty /\ Fill(o).filled = o.filled + 1 /\ Fill(o).live = FALSE
    <3>1. DOMAIN o = {"qty", "filled", "live"} /\ o.filled + 1 \in Nat
      BY <1>1
    <3>2. Fill(o).qty = o.qty
      BY <2>2, <3>1
    <3>3. Fill(o).filled = o.filled + 1
      BY <2>2, <3>1
    <3>4. Fill(o).live = FALSE
      BY <2>2, <3>1
    <3>5. Fill(o) \in [qty : Nat, filled : Nat, live : BOOLEAN]
      BY <1>1, <2>2, <3>1
    <3> QED BY <3>2, <3>3, <3>4, <3>5
  <2>4. Fill(o) \in Orders
    BY <1>1, <1>3, <2>3 DEF Orders
  <2> QED BY <2>3, <2>4 DEF NoOrder
<1> QED BY <1>2, <1>3

LEMMA InitQuantity == Init => Quantity
<1> SUFFICES ASSUME Init PROVE Quantity
  OBVIOUS
<1>1. QuantityType
  BY OrderShapes DEF Init, QuantityType
<1>2. NoneKnown /\ pc = "begin" /\ result = "none"
  BY DEF Init, NoneKnown
<1>3. Unsold
  BY OrderShapes DEF Init, Unsold
<1> QED BY <1>1, <1>2, <1>3
        DEF Init, Quantity, Held, Covered, HedgeSize, Counted, Exits, NoneKnown

-----------------------------------------------------------------------------
(* Steps by what they do to the quantities.                                *)

(* Where the hedge has not yet begun to buy.                               *)
Early == Pcs \ (Late \cup {"aggressive"})

(* Orders may be cancelled and replaced, nothing is traded.                *)
LEMMA NothingTraded ==
    ASSUME Control, Control', Quantity,
           pc \in Early, pc' \in Early \cup {"market", "close"}, result' = result,
           pc' = "market" => leg' = leg,
           lim' \in [Legs -> Orders], stray' \in [Legs -> Nat], reprices' \in [Legs -> Nat],
           \A l \in Legs : lim'[l] = NoOrder \/ lim'[l].qty \in Quantities,
           \A l \in Legs : lim'[l].filled <= lim[l].filled,
           AllKnown => \A l \in Legs : lim'[l].qty = lim[l].qty,
           UNCHANGED <<agg, pos, known, size, total, exitQty>>
    PROVE  Quantity'
<1> USE DEF Early, Late
<1>1. QuantityType'
  BY DEF Quantity, QuantityType
<1>2. (AllKnown <=> AllKnown') /\ result = "none" /\ leg' \in Legs
  BY DEF AllKnown, Control, Outcome, ControlType
<1>3. Unsold'
  <2> SUFFICES ASSUME ~AllKnown, NEW l \in Legs
               PROVE  pos'[l] >= lim'[l].filled + (IF l = Other(leg') THEN agg'.filled ELSE 0)
    BY <1>2 DEF Unsold, Other
  <2>1. agg = NoOrder /\ pos[l] >= lim[l].filled
    BY OrderShapes DEF Quantity, Counted, Unsold, QuantityType
  <2>2. pos[l] \in Int /\ lim[l].filled \in Nat /\ lim'[l].filled \in Nat
    BY OrderShapes DEF Quantity, QuantityType
  <2> QED BY <2>1, <2>2, OrderShapes
<1>4. Held'
  BY DEF Quantity, Held, Open
<1>5. Covered'
  <2> SUFFICES ASSUME NEW l \in Legs, known[l],
                      ~AllKnown \/ lim'["long"].qty = lim'["short"].qty
               PROVE  size[l] <= pos[l]
    BY <1>2 DEF Covered
  <2> QED BY DEF Quantity, Covered, Open, Legs
<1>6. HedgeSize'
  BY DEF Quantity, HedgeSize, Other
<1>7. Counted'
  <2>1. CASE pc' # "market"
    BY <1>2, <2>1 DEF Quantity, Counted
  <2>2. CASE pc' = "market"
    <3>1. known[leg] /\ ~known[Other(leg)] /\ leg' = leg /\ leg \in Legs /\ Other(leg) \in Legs
      BY <2>2 DEF Control, ControlType, Phases, Hedge, Locked, Legs, Other
    <3>2. ~AllKnown /\ size[leg] \in Quantities
      BY <3>1 DEF AllKnown, Quantity, HedgeSize
    <3>3. total = 0 /\ agg = NoOrder
      BY <3>2 DEF Quantity, Counted
    <3>4. lim'[Other(leg)].filled \in Nat /\ size[leg] > 0 /\ size[leg] \in Nat
      BY <3>1, <3>2, OrderShapes, LeastQuantity
    <3> QED BY <2>2, <3>1, <3>3, <3>4, OrderShapes DEF Counted, Other
  <2> QED BY <2>1, <2>2
<1>8. Exits'
  BY <1>2 DEF Exits
<1> QED BY <1>1, <1>3, <1>4, <1>5, <1>6, <1>7, <1>8 DEF Quantity

(* After a return with an error nothing is promised of the quantities.     *)
LEMMA ErrReturned ==
    ASSUME QuantityType', pc' = "done", result' # "ok"
    PROVE  Quantity'
  BY DEF Quantity, Unsold, Held, Open, Covered, HedgeSize, Counted, Late, Exits

(* The other leg counts as filled with n.                                  *)
LEMMA OtherHedged ==
    ASSUME Control, Quantity, pc \in Hedge, NEW n \in Nat, Hedged(n), QuantityType',
           lim' = lim, pos'[leg] = pos[leg],
           pos'[Other(leg)] >= LeastQty, pos'[Other(leg)] >= n
    PROVE  Quantity'
<1>0. pc' = "final" /\ leg' = leg /\ result' = "none" /\ leg \in Legs /\ result = "none"
  BY DEF Hedged, ReleaseLock, Control, ControlType, Outcome, Hedge, Locked
<1>1. known[leg] /\ ~known[Other(leg)] /\ \A l \in Legs : known'[l]
  BY DEF Control, ControlType, Phases, Hedged, Legs, Other
<1>2. AllKnown'
  BY <1>1 DEF AllKnown
<1>3. Open /\ ~AllKnown
  BY <1>0, <1>1 DEF Open, AllKnown, Control, Outcome, Legs, Other
<1>4. pos[leg] >= LeastQty /\ size[leg] <= pos[leg]
  BY <1>0, <1>1, <1>3 DEF Quantity, Held, Covered
<1>5. size'[leg] = size[leg] /\ size'[Other(leg)] = n
  BY <1>0 DEF Hedged, Quantity, QuantityType, Legs, Other
<1>6. \A l \in Legs : l = leg \/ l = Other(leg)
  BY <1>0 DEF Legs, Other
<1>7. \A l \in Legs : pos'[l] >= LeastQty /\ size'[l] <= pos'[l]
  <2>1. /\ pos'[leg] >= LeastQty /\ size'[leg] <= pos'[leg]
        /\ pos'[Other(leg)] >= LeastQty /\ size'[Other(leg)] <= pos'[Other(leg)]
    <3>1. n \in Int /\ pos'[Other(leg)] \in Int
      BY <1>0 DEF QuantityType, Legs, Other
    <3> QED BY <1>4, <1>5, <3>1
  <2> QED BY <1>6, <2>1
<1>8. Held' /\ Covered'
  BY <1>7 DEF Held, Covered
<1>9. Unsold' /\ Counted' /\ Exits'
  BY <1>0, <1>2 DEF Unsold, Counted, Exits, Late
<1>10. HedgeSize'
  BY <1>1 DEF HedgeSize, Legs, Other
<1> QED BY <1>8, <1>9, <1>10 DEF Quantity

(* The routine learns from a status that orders are filled.                *)
LEMMA SeenFilled ==
    ASSUME Control, Control', Quantity, NoneKnown, pc \in Early, pc' \in Early,
           size' \in [Legs -> Nat],
           \A l \in Legs : known'[l] => IsFullyFilled(lim[l]) /\ size'[l] = lim[l].filled,
           UNCHANGED <<lim, agg, stray, pos, leg, reprices, total, exitQty, result>>
    PROVE  Quantity'
<1> USE DEF Early, Late
<1>0. ~AllKnown /\ result = "none"
  BY DEF NoneKnown, AllKnown, Legs, Control, Outcome
<1>1. QuantityType'
  BY DEF Quantity, QuantityType
<1>2. agg = NoOrder /\ total = 0
  BY <1>0 DEF Quantity, Counted
<1>3. \A l \in Legs : pos[l] >= lim[l].filled
  BY <1>0, <1>2, OrderShapes DEF Quantity, Unsold, QuantityType
<1>4. \A l \in Legs : known'[l] =>
         size'[l] \in Quantities /\ size'[l] >= LeastQty /\ size'[l] <= pos[l]
  <2> SUFFICES ASSUME NEW l \in Legs, known'[l]
               PROVE  size'[l] \in Quantities /\ size'[l] >= LeastQty /\ size'[l] <= pos[l]
    OBVIOUS
  <2>1. lim[l] \in Orders /\ (lim[l] = NoOrder \/ lim[l].qty \in Quantities)
    BY DEF Quantity, QuantityType
  <2>2. lim[l].filled \in Quantities
    BY <2>1, OrderShapes
  <2> QED BY <1>3, <2>2, LeastQuantity
<1>5. \A l \in Legs : known'[l] => pos'[l] >= LeastQty /\ size'[l] <= pos'[l]
  <2> SUFFICES ASSUME NEW l \in Legs, known'[l]
               PROVE  pos'[l] >= LeastQty /\ size'[l] <= pos'[l]
    OBVIOUS
  <2>1. pos[l] \in Int /\ size'[l] \in Int /\ LeastQty \in Int
    BY LeastQuantity DEF Quantity, QuantityType
  <2> QED BY <1>4, <2>1
<1>6. Held' /\ Covered'
  BY <1>5 DEF Held, Covered
<1>7. Unsold'
  BY <1>0 DEF Quantity, Unsold, Other
<1>8. HedgeSize'
  BY <1>4 DEF HedgeSize
<1>9. Counted' /\ Exits'
  BY <1>0, <1>2 DEF Counted, Exits
<1> QED BY <1>1, <1>6, <1>7, <1>8, <1>9 DEF Quantity

(* The hedge goes on with the same leg and the same limit orders.          *)
LEMMA HedgeGoesOn ==
    ASSUME Control, Control', Quantity, pc \in Locked, pc' \in Locked, QuantityType', Counted',
           UNCHANGED <<leg, known, size, lim>>,
           \A l \in Legs : pos'[l] >= pos[l],
           pos'[Other(leg)] >= lim[Other(leg)].filled + agg'.filled
    PROVE  Quantity'
<1>0. /\ leg \in Legs /\ Other(leg) \in Legs /\ known[leg] /\ ~known[Other(leg)]
      /\ result' = "none" /\ pc # "done" /\ pc' # "done"
      /\ \A l \in Legs : l = leg \/ l = Other(leg)
  BY DEF Control, ControlType, Phases, Outcome, Hedge, Locked, Legs, Other
<1>1. ~AllKnown /\ ~AllKnown'
  BY <1>0 DEF AllKnown
<1>2. \A l \in Legs : pos[l] \in Int /\ pos'[l] \in Int /\ size[l] \in Int
                     /\ lim[l].filled \in Int
  BY OrderShapes DEF Quantity, QuantityType
<1>3. Unsold'
  <2>1. pos[leg] >= lim[leg].filled
    BY <1>0, <1>1, OrderShapes DEF Quantity, QuantityType, Unsold, Legs, Other
  <2>2. pos'[leg] >= lim[leg].filled + 0
    BY <1>0, <1>2, <2>1
  <2>3. leg # Other(leg)
    BY <1>0
  <2> QED BY <1>0, <2>2, <2>3 DEF Unsold, Other
<1>4. Held' /\ Covered'
  <2>1. pos[leg] >= LeastQty /\ size[leg] <= pos[leg]
    BY <1>0, <1>1 DEF Quantity, Held, Covered, Open
  <2>2. pos'[leg] >= LeastQty /\ size[leg] <= pos'[leg]
    BY <1>0, <1>2, <2>1, LeastQuantity
  <2> QED BY <1>0, <2>2 DEF Held, Covered
<1>5. HedgeSize' /\ Exits'
  BY <1>0 DEF Quantity, HedgeSize, Exits, Other
<1> QED BY <1>3, <1>4, <1>5 DEF Quantity

-----------------------------------------------------------------------------
(* The limit orders: what is placed, cancelled and replaced.               *)
LimitsKept ==
    /\ lim' \in [Legs -> Orders]
    /\ \A l \in Legs : lim'[l] = NoOrder \/ lim'[l].qty \in Quantities

LEMMA CancelOne ==
    ASSUME QuantityType, NEW l \in Legs, NEW c \in CancelOutcomes(lim[l]),
           lim' = [lim EXCEPT ![l] = c.order]
    PROVE  /\ LimitsKept
           /\ \A k \in Legs : lim'[k].qty = lim[k].qty /\ lim'[k].filled = lim[k].filled
<1>1. /\ c.order \in Orders /\ c.order.qty = lim[l].qty /\ c.order.filled = lim[l].filled
      /\ lim[l] = NoOrder => c.order = NoOrder
  BY CancelKeeps DEF QuantityType
<1>2. lim'[l] = c.order /\ \A k \in Legs : k # l => lim'[k] = lim[k]
  BY DEF QuantityType
<1>3. lim' \in [Legs -> Orders]
  BY <1>1 DEF QuantityType
<1>4. \A k \in Legs : lim'[k].qty = lim[k].qty /\ lim'[k].filled = lim[k].filled
  BY <1>1, <1>2
<1>5. \A k \in Legs : lim'[k] = NoOrder \/ lim'[k].qty \in Quantities
  BY <1>1, <1>2 DEF QuantityType
<1> QED BY <1>3, <1>4, <1>5 DEF LimitsKept

LEMMA CancelTwo ==
    ASSUME QuantityType, CancelBoth
    PROVE  LimitsKept
<1>1. PICK c \in CancelOutcomes(lim["long"]), d \in CancelOutcomes(lim["short"]) :
         lim' = [lim EXCEPT !["long"] = c.order, !["short"] = d.order]
  BY DEF CancelBoth
<1>2. /\ c.order \in Orders /\ c.order.qty = lim["long"].qty
      /\ lim["long"] = NoOrder => c.order = NoOrder
      /\ d.order \in Orders /\ d.order.qty = lim["short"].qty
      /\ lim["short"] = NoOrder => d.order = NoOrder
  BY CancelKeeps DEF QuantityType, Legs
<1>3. lim' \in [Legs -> Orders]
  BY <1>1, <1>2 DEF QuantityType
<1>4. lim'["long"] = c.order /\ lim'["short"] = d.order
  BY <1>1 DEF QuantityType, Legs
<1> QED BY <1>2, <1>3, <1>4 DEF LimitsKept, QuantityType, Legs

LEMMA PlaceOne ==
    ASSUME QuantityType, NEW l \in Legs, NEW d \in ROUNDING,
           lim' = [lim EXCEPT ![l] = Accepted(QTY + d)]
    PROVE  /\ LimitsKept
           /\ \A k \in Legs : lim'[k].filled <= lim[k].filled
<1>1. QTY + d \in Quantities /\ QTY + d \in Nat /\ QTY + d > 0
  BY LeastQuantity DEF Quantities
<1>2. /\ Accepted(QTY + d) \in Orders
      /\ Accepted(QTY + d).qty = QTY + d /\ Accepted(QTY + d).filled = 0
  BY <1>1, OrderShapes
<1>3. lim'[l] = Accepted(QTY + d) /\ \A k \in Legs : k # l => lim'[k] = lim[k]
  BY DEF QuantityType
<1>4. lim' \in [Legs -> Orders]
  BY <1>2 DEF QuantityType
<1>5. \A k \in Legs : lim[k].filled \in Nat
  BY OrderShapes DEF QuantityType
<1>6. \A k \in Legs : lim'[k].filled <= lim[k].filled
  BY <1>2, <1>3, <1>5
<1>7. \A k \in Legs : lim'[k] = NoOrder \/ lim'[k].qty \in Quantities
  BY <1>1, <1>2, <1>3 DEF QuantityType
<1> QED BY <1>4, <1>6, <1>7 DEF LimitsKept

LEMMA StrayType ==
    ASSUME QuantityType, NEW l \in Legs, NEW n \in Nat,
           stray' = [stray EXCEPT ![l] = @ + n]
    PROVE  stray' \in [Legs -> Nat]
  BY DEF QuantityType

-----------------------------------------------------------------------------
LEMMA QuantityPlacement ==
    ASSUME Control, Control', Quantity, Preflight \/ Placement
    PROVE  Quantity'
<1> USE DEF books, exchange
<1>0. QuantityType /\ pc \in Before /\ pc \in Early /\ ~AllKnown
  BY DEF Quantity, Preflight, Placement, RefusedWhenHalted, PreflightFails, PreflightPasses,
         PlaceLong, PlaceShort, LongNotPlaced, ShortNotPlaced, BothPlaced,
         Control, Phases, Before, Early, Pcs, Late, NoneKnown, AllKnown, Legs
<1>1. CASE RefusedWhenHalted \/ PreflightFails \/ LongNotPlaced
  <2>1. QuantityType' /\ pc' = "done" /\ result' # "ok"
    BY <1>0, <1>1 DEF RefusedWhenHalted, PreflightFails, LongNotPlaced, Fail, Return, QuantityType
  <2> QED BY <2>1, ErrReturned
<1>2. CASE ShortNotPlaced
  <2>1. LimitsKept
    BY <1>0, <1>2, CancelOne DEF ShortNotPlaced, Legs
  <2>2. QuantityType' /\ pc' = "done" /\ result' # "ok"
    BY <1>0, <1>2, <2>1 DEF ShortNotPlaced, Fail, Return, QuantityType, LimitsKept
  <2> QED BY <2>2, ErrReturned
<1>3. CASE PreflightPasses \/ BothPlaced
  <2>1. /\ pc' \in Early /\ result' = result
        /\ UNCHANGED <<lim, stray, reprices, agg, pos, known, size, total, exitQty>>
    BY <1>3 DEF PreflightPasses, BothPlaced, Goto, Early, Pcs, Before, Loop, Late
  <2>2. \A l \in Legs : lim[l].filled \in Nat
    BY <1>0, OrderShapes DEF QuantityType
  <2> QED BY <1>0, <2>1, <2>2, NothingTraded DEF QuantityType, Early, Late
<1>4. CASE PlaceLong \/ PlaceShort
  <2>1. /\ pc' \in Early /\ result' = result
        /\ UNCHANGED <<reprices, agg, pos, known, size, total, exitQty>>
        /\ pc' # "market"
    BY <1>4 DEF PlaceLong, PlaceShort, Goto, Early, Pcs, Before, Loop, Late
  <2>2. PICK l \in Legs : PlaceLimit(l)
    BY <1>4 DEF PlaceLong, PlaceShort, Legs
  <2>3. CASE UNCHANGED stray /\ \E d \in ROUNDING : lim' = [lim EXCEPT ![l] = Accepted(QTY + d)]
    <3>1. LimitsKept /\ \A k \in Legs : lim'[k].filled <= lim[k].filled
      BY <1>0, <2>3, PlaceOne
    <3> QED BY <1>0, <2>1, <2>3, <3>1, NothingTraded DEF QuantityType, LimitsKept
  <2>4. CASE UNCHANGED lim /\ \E lost \in {0, QTY} : stray' = [stray EXCEPT ![l] = @ + lost]
    <3>1. stray' \in [Legs -> Nat]
      BY <1>0, <2>4, StrayType
    <3>2. \A k \in Legs : lim[k].filled \in Nat
      BY <1>0, OrderShapes DEF QuantityType
    <3> QED BY <1>0, <2>1, <2>4, <3>1, <3>2, NothingTraded DEF QuantityType
  <2> QED BY <2>2, <2>3, <2>4 DEF PlaceLimit
<1> QED BY <1>1, <1>2, <1>3, <1>4 DEF Preflight, Placement

LEMMA QuantityPolling ==
    ASSUME Control, Control', Quantity, Polling
    PROVE  Quantity'
<1> USE DEF books, exchange
<1>0. /\ QuantityType /\ pc \in Early /\ leg \in Legs /\ (NoneKnown \/ AllKnown)
      /\ \A l \in Legs : lim[l].filled \in Nat
  BY OrderShapes
     DEF Quantity, QuantityType, Polling, LoopAgain, LoopEnds, PollNothingNew, PollCancelled,
         PollFilled, Reprice, NoReprice, SpreadCollapsed, RepricesExhausted, ChecksPass,
         Control, ControlType, Phases, Loop, Early, Pcs, Late
<1>1. CASE LoopAgain \/ LoopEnds \/ PollNothingNew \/ PollCancelled \/ ChecksPass \/ NoReprice
  <2>1. /\ pc' \in Early /\ pc' # "market" /\ result' = result
        /\ UNCHANGED <<lim, stray, reprices, agg, pos, known, size, total, exitQty>>
    BY <1>1 DEF LoopAgain, LoopEnds, PollNothingNew, PollCancelled, ChecksPass, NoReprice,
                AfterReprice, Goto, Early, Pcs, Loop, Late
  <2> QED BY <1>0, <2>1, NothingTraded DEF QuantityType
<1>2. CASE SpreadCollapsed \/ RepricesExhausted
  <2>1. LimitsKept
    BY <1>0, <1>2, CancelTwo DEF SpreadCollapsed, RepricesExhausted
  <2>2. QuantityType' /\ pc' = "done" /\ result' # "ok"
    BY <1>0, <1>2, <2>1
       DEF SpreadCollapsed, RepricesExhausted, Fail, Return, QuantityType, LimitsKept
  <2> QED BY <2>2, ErrReturned
<1>3. CASE Reprice
  <2>1. /\ pc' \in Early /\ pc' # "market" /\ result' = result /\ RepriceOrder(leg)
        /\ ~known[leg] /\ UNCHANGED <<agg, pos, known, size, total, exitQty>>
    BY <1>3 DEF Reprice, AfterReprice, Early, Pcs, Loop, Late
  <2>2. ~AllKnown
    BY <1>0, <2>1 DEF AllKnown
  <2>3. PICK c \in CancelOutcomes(lim[leg]) :
           \/ lim' = [lim EXCEPT ![leg] = c.order] /\ UNCHANGED <<stray, reprices>>
           \/ /\ \E d \in ROUNDING : lim' = [lim EXCEPT ![leg] = Accepted(QTY + d)]
              /\ reprices' = [reprices EXCEPT ![leg] = @ + 1]
              /\ UNCHANGED stray
           \/ /\ lim' = [lim EXCEPT ![leg] = c.order]
              /\ \E lost \in {0, QTY} : stray' = [stray EXCEPT ![leg] = @ + lost]
              /\ UNCHANGED reprices
    BY <2>1 DEF RepriceOrder
  <2>4. LimitsKept /\ \A k \in Legs : lim'[k].filled <= lim[k].filled
    <3>1. CASE lim' = [lim EXCEPT ![leg] = c.order]
      <4>1. LimitsKept /\ \A k \in Legs : lim'[k].filled = lim[k].filled
        BY <1>0, <3>1, CancelOne
      <4> QED BY <1>0, <4>1
    <3>2. CASE \E d \in ROUNDING : lim' = [lim EXCEPT ![leg] = Accepted(QTY + d)]
      BY <1>0, <3>2, PlaceOne
    <3> QED BY <2>3, <3>1, <3>2
  <2>5. stray' \in [Legs -> Nat]
    <3>1. CASE UNCHANGED stray
      BY <1>0, <3>1 DEF QuantityType
    <3>2. CASE \E lost \in {0, QTY} : stray' = [stray EXCEPT ![leg] = @ + lost]
      BY <1>0, <3>2, StrayType
    <3> QED BY <2>3, <3>1, <3>2
  <2>6. reprices' \in [Legs -> Nat]
    BY <1>0, <2>3 DEF QuantityType
  <2> QED BY <1>0, <2>1, <2>2, <2>4, <2>5, <2>6, NothingTraded DEF LimitsKept
<1>4. CASE PollFilled
  <2>1. /\ NoneKnown /\ pc' \in Early
        /\ known' = [known EXCEPT ![leg] = TRUE]
        /\ size' = [size EXCEPT ![leg] = lim[leg].filled]
        /\ IsFullyFilled(lim[leg])
        /\ UNCHANGED <<lim, agg, stray, pos, leg, reprices, total, exitQty, result>>
    BY <1>0, <1>4 DEF PollFilled, Goto, Early, Pcs, Loop, Hedge, Late, AllKnown
  <2>2. \A l \in Legs : known'[l] => l = leg
    BY <2>1 DEF NoneKnown, Control, ControlType
  <2>3. size' \in [Legs -> Nat] /\ size'[leg] = lim[leg].filled
    BY <1>0, <2>1 DEF QuantityType
  <2> QED BY <1>0, <2>1, <2>2, <2>3, SeenFilled
<1> QED BY <1>1, <1>2, <1>3, <1>4 DEF Polling

LEMMA QuantityAfterLoop ==
    ASSUME Control, Control', Quantity, AfterLoop \/ PlaceExits
    PROVE  Quantity'
<1> USE DEF books, exchange
<1>0. /\ QuantityType /\ pc \in Early /\ leg \in Legs
      /\ \A l \in Legs : lim[l].filled \in Nat
  BY OrderShapes
     DEF Quantity, QuantityType, AfterLoop, PlaceExits, LastCheck, LoopFoundBoth, NeitherFilled,
         OneFilled, BothFilled, Control, ControlType, Early, Pcs, Loop, Late
<1>1. CASE LoopFoundBoth \/ BothFilled \/ OneFilled
  <2>1. /\ pc' \in Early /\ pc' # "market" /\ result' = result
        /\ UNCHANGED <<lim, stray, reprices, agg, pos, known, size, total, exitQty>>
    BY <1>1 DEF LoopFoundBoth, BothFilled, OneFilled, Goto, Early, Pcs, Hedge, Late
  <2> QED BY <1>0, <2>1, NothingTraded DEF QuantityType
<1>2. CASE NeitherFilled
  <2>1. LimitsKept
    BY <1>0, <1>2, CancelTwo DEF NeitherFilled
  <2>2. QuantityType' /\ pc' = "done" /\ result' # "ok"
    BY <1>0, <1>2, <2>1 DEF NeitherFilled, Fail, Return, QuantityType, LimitsKept
  <2> QED BY <2>2, ErrReturned
<1>3. CASE LastCheck
  <2>1. PICK answered \in SUBSET Legs :
           /\ known' = [l \in Legs |-> l \in answered /\ IsFullyFilled(lim[l])]
           /\ size' = [l \in Legs |-> IF known'[l] THEN lim[l].filled ELSE size[l]]
    BY <1>3 DEF LastCheck
  <2>2. /\ NoneKnown /\ pc' \in Early
        /\ UNCHANGED <<lim, agg, stray, pos, leg, reprices, total, exitQty, result>>
    BY <1>3 DEF LastCheck, NoneKnown, Goto, Early, Pcs, Late
  <2>3. \A l \in Legs : known'[l] => IsFullyFilled(lim[l]) /\ size'[l] = lim[l].filled
    BY <2>1
  <2>4. size' \in [Legs -> Nat]
    BY <1>0, <2>1 DEF QuantityType
  <2> QED BY <1>0, <2>2, <2>3, <2>4, SeenFilled
<1>4. CASE PlaceExits
  <2>1. PICK placed \in SUBSET Legs : exitQty' = [l \in Legs |-> IF l \in placed THEN size[l] ELSE 0]
    BY <1>4 DEF PlaceExits
  <2>2. /\ AllKnown /\ AllKnown' /\ pc # "done" /\ pc' = "done" /\ result' = "ok"
        /\ UNCHANGED <<lim, agg, stray, pos, known, size, reprices, total>>
    BY <1>4 DEF PlaceExits, Fail, Return, Control, Phases, AllKnown
  <2>3. QuantityType' /\ Exits'
    BY <1>0, <2>1, <2>2 DEF QuantityType, Exits
  <2>4. Held' /\ Covered'
    BY <2>2 DEF Quantity, Held, Covered, Open
  <2>5. Unsold' /\ HedgeSize' /\ Counted'
    BY <2>2 DEF Unsold, HedgeSize, Counted, Late
  <2> QED BY <2>3, <2>4, <2>5 DEF Quantity
<1> QED BY <1>1, <1>2, <1>3, <1>4 DEF AfterLoop

(* Both orders turn out to be filled: the larger leg may be trimmed to the *)
(* quantity of the other, never below it.                                  *)
LEMMA QuantityBoth ==
    ASSUME Control, Control', Quantity, BothLegsFilled
    PROVE  Quantity'
<1>0. /\ QuantityType /\ leg \in Legs /\ Other(leg) \in Legs /\ pc = "both"
      /\ known[leg] /\ ~known[Other(leg)] /\ ~AllKnown /\ result = "none"
      /\ \A l \in Legs : (l = leg \/ l = Other(leg)) /\ Other(l) \in Legs
  BY DEF BothLegsFilled, Quantity, Control, ControlType, Phases, Outcome, Hedge, Locked,
         AllKnown, Legs, Other
<1>1. \A l \in Legs : /\ lim[l].filled = lim[l].qty /\ lim[l].filled \in Quantities
                     /\ lim[l].filled \in Nat /\ lim[l].filled >= LeastQty
  <2>1. IsFullyFilled(lim[leg]) /\ IsFullyFilled(lim[Other(leg)])
    BY DEF BothLegsFilled
  <2>2. \A l \in Legs : IsFullyFilled(lim[l])
    BY <1>0, <2>1
  <2> QED BY <1>0, <2>2, OrderShapes, LeastQuantity DEF QuantityType
<1>2. \A l \in Legs : pos[l] \in Int /\ pos[l] >= lim[l].filled
  <2>1. agg = NoOrder
    BY <1>0 DEF Quantity, Counted, Late
  <2> QED BY <1>0, <1>1, <2>1, OrderShapes DEF Quantity, Unsold, QuantityType
<1>3. /\ size[leg] <= pos[leg] /\ pc' = "loop" /\ result' = "none" /\ leg' = leg
      /\ UNCHANGED <<lim, agg, stray, reprices, total, exitQty>>
      /\ known' = [known EXCEPT ![Other(leg)] = TRUE]
  BY <1>0 DEF BothLegsFilled, ReleaseLock, Quantity, Covered, Open
<1>4. \A l \in Legs : known'[l]
  BY <1>0, <1>3 DEF Control, ControlType
<1>5. AllKnown'
  BY <1>4 DEF AllKnown
<1>6. CASE /\ lim[leg].filled = lim[Other(leg)].filled
           /\ size' = [size EXCEPT ![Other(leg)] = lim[Other(leg)].filled]
           /\ UNCHANGED pos
  <2>1. size' \in [Legs -> Nat] /\ size'[Other(leg)] = lim[Other(leg)].filled
        /\ size'[leg] = size[leg]
    BY <1>0, <1>1, <1>6 DEF QuantityType, Legs, Other
  <2>2. \A l \in Legs : size'[l] <= pos[l]
    BY <1>0, <1>2, <1>3, <2>1
  <2>3. \A l \in Legs : pos[l] >= LeastQty
    BY <1>1, <1>2, LeastQuantity
  <2>4. Held' /\ Covered'
    BY <1>6, <2>2, <2>3 DEF Held, Covered
  <2>5. QuantityType'
    BY <1>0, <1>3, <1>6, <2>1 DEF QuantityType
  <2> QED BY <1>3, <1>4, <1>5, <2>4, <2>5
          DEF Quantity, Unsold, HedgeSize, Counted, Late, Exits, Other, Legs
<1>7. CASE \E big \in Legs, n \in Nat, s \in [Legs -> Nat] :
              /\ lim[big].filled > lim[Other(big)].filled
              /\ n <= lim[big].filled - lim[Other(big)].filled
              /\ pos' = [pos EXCEPT ![big] = @ - n]
              /\ size' = s
  <2>1. PICK big \in Legs, n \in Nat, s \in [Legs -> Nat] :
              /\ lim[big].filled > lim[Other(big)].filled
              /\ n <= lim[big].filled - lim[Other(big)].filled
              /\ pos' = [pos EXCEPT ![big] = @ - n]
              /\ size' = s
    BY <1>7
  <2>2. pos' \in [Legs -> Int] /\ pos'[big] = pos[big] - n
        /\ \A l \in Legs : l # big => pos'[l] = pos[l]
    BY <1>0, <2>1 DEF QuantityType
  <2>3. \A l \in Legs : pos'[l] >= LeastQty
    <3>1. pos'[big] >= lim[Other(big)].filled
      BY <1>0, <1>1, <1>2, <2>1, <2>2
    <3>2. pos'[big] >= LeastQty
      BY <1>0, <1>1, <2>2, <3>1, LeastQuantity
    <3>3. \A l \in Legs : pos[l] >= LeastQty
      BY <1>1, <1>2, LeastQuantity
    <3> QED BY <2>2, <3>2, <3>3
  <2>4. lim["long"].qty # lim["short"].qty
    BY <1>0, <1>1, <2>1 DEF Legs, Other
  <2>5. Held' /\ Covered'
    BY <1>3, <1>5, <2>3, <2>4 DEF Held, Covered
  <2>6. QuantityType'
    BY <1>0, <1>3, <2>1, <2>2 DEF QuantityType
  <2> QED BY <1>3, <1>4, <1>5, <2>5, <2>6
          DEF Quantity, Unsold, HedgeSize, Counted, Late, Exits, Other, Legs
<1>8. ASSUME NEW big \in Legs, lim[big].filled - lim[Other(big)].filled > 0,
             NEW n \in {0, lim[big].filled - lim[Other(big)].filled},
             pos' = [pos EXCEPT ![big] = @ - n],
             \/ size' = [size EXCEPT ![big] = lim[Other(big)].filled,
                                     ![Other(leg)] = lim[Other(leg)].filled]
             \/ size' = [size EXCEPT ![Other(leg)] = lim[Other(leg)].filled]
      PROVE  Quantity'
  <2>1. size' \in [Legs -> Nat]
    BY <1>0, <1>1, <1>8 DEF QuantityType
  <2>2. lim[big].filled \in Nat /\ lim[Other(big)].filled \in Nat
    BY <1>0, <1>1
  <2>3. n \in Nat /\ n <= lim[big].filled - lim[Other(big)].filled
        /\ lim[big].filled > lim[Other(big)].filled
    BY <1>8, <2>2
  <2> QED BY <1>7, <1>8, <2>1, <2>3
<1> DEFINE got == [l \in Legs |-> lim[l].filled]
<1>9. \A l \in Legs : got[l] = lim[l].filled
  OBVIOUS
<1>10. \/ /\ got[leg] = got[Other(leg)]
          /\ size' = [size EXCEPT ![Other(leg)] = got[Other(leg)]]
          /\ UNCHANGED pos
       \/ \E big \in Legs :
             /\ got[big] - got[Other(big)] > 0
             /\ pos' = [pos EXCEPT ![big] = @ - (got[big] - got[Other(big)])]
             /\ size' = [size EXCEPT ![big] = got[Other(big)], ![Other(leg)] = got[Other(leg)]]
       \/ \E big \in Legs :
             /\ got[big] - got[Other(big)] > 0
             /\ \E n \in {0, got[big] - got[Other(big)]} : pos' = [pos EXCEPT ![big] = @ - n]
             /\ size' = [size EXCEPT ![Other(leg)] = got[Other(leg)]]
  BY DEF BothLegsFilled
<1> HIDE DEF got
<1> QED BY <1>0, <1>6, <1>8, <1>9, <1>10

LEMMA QuantityHedging ==
    ASSUME Control, Control', Quantity, Hedging
    PROVE  Quantity'
<1> USE DEF books, exchange
<1>0. /\ QuantityType /\ leg \in Legs /\ Other(leg) \in Legs /\ leg # Other(leg) /\ pc \in Hedge
      /\ known[leg] /\ ~known[Other(leg)] /\ ~AllKnown /\ result = "none" /\ pc # "done"
  BY DEF Hedging, AcquireLock, LockRefused, BothLegsFilled, NotBothFilled, DepthAborts, DepthAllows,
         CancelOther, CheckCancelled, PlaceAggressive, AggressiveFails, CheckAggressive,
         CancelAggressive, MarketHedged, MarketFails, EmergencyCloseOk, EmergencyCloseFails,
         Quantity, Control, ControlType, Phases, Outcome, Hedge, Locked, AllKnown, Legs, Other
<1>1. /\ size[leg] \in Quantities /\ size[leg] \in Nat /\ size[leg] > 0 /\ size[leg] >= LeastQty
      /\ LeastQty \in Nat
  BY <1>0, LeastQuantity DEF Quantity, HedgeSize
<1>2. /\ \A l \in Legs : pos[l] \in Int /\ lim[l].filled \in Nat /\ lim[l] \in Orders
      /\ agg \in Orders /\ agg.filled \in Nat /\ total \in Nat
  BY <1>0, OrderShapes DEF QuantityType
<1>3. pos[Other(leg)] >= lim[Other(leg)].filled + agg.filled
  BY <1>0 DEF Quantity, Unsold
<1>4. CASE AcquireLock \/ NotBothFilled \/ DepthAborts \/ DepthAllows
  <2>1. /\ pc \in Early /\ pc' \in Early \cup {"close"} /\ pc' # "market" /\ result' = result
        /\ UNCHANGED <<lim, stray, reprices, agg, pos, known, size, total, exitQty>>
    BY <1>4 DEF AcquireLock, NotBothFilled, DepthAborts, DepthAllows, Goto, Early, Pcs, Hedge,
                Locked, Late
  <2> QED BY <1>0, <1>2, <2>1, NothingTraded DEF QuantityType
<1>5. CASE LockRefused
  <2>1. QuantityType' /\ pc' = "done" /\ result' # "ok"
    BY <1>0, <1>5 DEF LockRefused, Fail, Return, QuantityType
  <2> QED BY <2>1, ErrReturned
<1>6. CASE BothLegsFilled
  BY <1>6, QuantityBoth
<1>7. CASE CancelOther
  <2>1. /\ pc \in Early /\ pc' \in Early \cup {"market"} /\ leg' = leg /\ result' = result
        /\ UNCHANGED <<stray, reprices, agg, pos, known, size, total, exitQty>>
    BY <1>7 DEF CancelOther, Goto, Early, Pcs, Hedge, Locked, Late
  <2>2. LimitsKept /\ \A k \in Legs : lim'[k].qty = lim[k].qty /\ lim'[k].filled = lim[k].filled
    BY <1>0, <1>7, CancelOne DEF CancelOther
  <2>3. \A k \in Legs : lim'[k].filled <= lim[k].filled
    BY <1>2, <2>2
  <2>4. stray' \in [Legs -> Nat] /\ reprices' \in [Legs -> Nat]
    BY <1>0, <2>1 DEF QuantityType
  <2> QED BY <2>1, <2>2, <2>3, <2>4, NothingTraded DEF LimitsKept
<1>8. CASE CheckCancelled
  <2>1. PICK read \in {lim[Other(leg)].filled} \cup (IF CALLS_FAIL THEN {0} ELSE {}) :
          /\ total' = read
          /\ IF read >= size[leg]
             THEN Hedged(read)
             ELSE Goto("aggressive") /\ UNCHANGED <<known, size>>
    BY <1>8 DEF CheckCancelled
  <2>2. read \in Nat /\ read <= lim[Other(leg)].filled
    BY <1>0, <1>2, <2>1
  <2>3. UNCHANGED <<lim, agg, stray, pos, reprices, exitQty>> /\ pc = "check_cancelled"
    BY <1>8 DEF CheckCancelled
  <2>4. CASE read >= size[leg]
    <3>1. Hedged(read)
      BY <2>1, <2>4
    <3>2. QuantityType'
      BY <1>0, <2>1, <2>2, <2>3, <3>1 DEF QuantityType, Hedged
    <3>3. pos'[leg] = pos[leg] /\ pos'[Other(leg)] >= LeastQty /\ pos'[Other(leg)] >= read
      BY <1>0, <1>1, <1>2, <1>3, <2>2, <2>3, <2>4
    <3> QED BY <1>0, <2>2, <2>3, <3>1, <3>2, <3>3, OtherHedged
  <2>5. CASE ~(read >= size[leg])
    <3>1. pc' = "aggressive" /\ UNCHANGED <<leg, known, size>>
      BY <2>1, <2>5 DEF Goto
    <3>2. QuantityType'
      BY <1>0, <2>1, <2>2, <2>3, <3>1 DEF QuantityType
    <3>3. agg = NoOrder
      BY <1>0, <2>3 DEF Quantity, Counted, Late
    <3>4. Counted'
      BY <1>1, <2>1, <2>2, <2>3, <2>5, <3>1, <3>3 DEF Counted, Late, Other
    <3>5. pc \in Locked /\ pc' \in Locked
      BY <2>3, <3>1 DEF Locked
    <3>6. \A l \in Legs : pos'[l] >= pos[l]
      BY <1>2, <2>3
    <3> QED BY <1>3, <2>3, <3>1, <3>2, <3>4, <3>5, <3>6, HedgeGoesOn
  <2> QED BY <2>4, <2>5
<1>9. CASE PlaceAggressive
  <2>1. /\ pc = "aggressive" /\ pc' = "aggressive_wait" /\ agg' = Accepted(Missing)
        /\ UNCHANGED <<leg, lim, stray, pos, known, size, reprices, total, exitQty>>
    BY <1>9 DEF PlaceAggressive, Goto
  <2>2. total <= lim[Other(leg)].filled /\ total < size[leg]
    BY <2>1 DEF Quantity, Counted
  <2>3. Missing \in Nat /\ Missing > 0
    BY <1>1, <1>2, <2>2 DEF Missing
  <2>4. agg' \in Orders /\ agg'.filled = 0
    BY <2>1, <2>3, OrderShapes
  <2>5. QuantityType'
    BY <1>0, <2>1, <2>4 DEF QuantityType
  <2>6. Counted'
    BY <2>1, <2>2 DEF Counted, Late, Other
  <2>7. /\ pc \in Locked /\ pc' \in Locked /\ \A l \in Legs : pos'[l] >= pos[l]
    BY <1>2, <2>1 DEF Locked
  <2>8. pos'[Other(leg)] >= lim[Other(leg)].filled + agg'.filled
    BY <1>0, <1>2, <1>3, <2>1, <2>4
  <2> QED BY <2>1, <2>5, <2>6, <2>7, <2>8, HedgeGoesOn
<1>10. CASE AggressiveFails
  <2>1. /\ pc = "aggressive" /\ pc' = "market"
        /\ UNCHANGED <<leg, lim, agg, pos, known, size, reprices, total, exitQty>>
    BY <1>10 DEF AggressiveFails, Goto
  <2>2. total <= lim[Other(leg)].filled /\ total < size[leg]
    BY <2>1 DEF Quantity, Counted
  <2>3. Missing \in Nat
    BY <1>1, <1>2, <2>2 DEF Missing
  <2>4. stray' \in [Legs -> Nat]
    BY <1>0, <1>10, <2>3, StrayType DEF AggressiveFails
  <2>5. QuantityType'
    BY <1>0, <2>1, <2>4 DEF QuantityType
  <2>6. Counted'
    <3>1. total <= lim[Other(leg)].filled + agg.filled
      BY <1>0, <1>2, <2>2
    <3> QED BY <2>1, <2>2, <3>1 DEF Counted, Late, Other
  <2>7. /\ pc \in Locked /\ pc' \in Locked /\ \A l \in Legs : pos'[l] >= pos[l]
    BY <1>2, <2>1 DEF Locked
  <2> QED BY <1>3, <2>1, <2>5, <2>6, <2>7, HedgeGoesOn
<1>11. CASE CheckAggressive
  <2>1. PICK read \in {agg.filled} \cup (IF CALLS_FAIL THEN {0} ELSE {}) :
          /\ total' = total + read
          /\ IF read >= Missing
             THEN Hedged(total + read)
             ELSE Goto("aggressive_cancel") /\ UNCHANGED <<known, size>>
    BY <1>11 DEF CheckAggressive
  <2>2. read \in Nat /\ read <= agg.filled
    BY <1>2, <2>1
  <2>3. UNCHANGED <<lim, agg, stray, pos, reprices, exitQty>> /\ pc = "aggressive_wait"
    BY <1>11 DEF CheckAggressive
  <2>4. total <= lim[Other(leg)].filled /\ total < size[leg]
    BY <2>3 DEF Quantity, Counted
  <2>5. total + read \in Nat /\ total + read <= lim[Other(leg)].filled + agg.filled
    BY <1>0, <1>2, <2>2, <2>4
  <2>6. CASE read >= Missing
    <3>1. Hedged(total + read)
      BY <2>1, <2>6
    <3>2. QuantityType'
      BY <1>0, <2>1, <2>3, <2>5, <3>1 DEF QuantityType, Hedged
    <3>3. total + read >= size[leg]
      BY <1>1, <1>2, <2>2, <2>6 DEF Missing
    <3>4. pos'[leg] = pos[leg] /\ pos'[Other(leg)] >= LeastQty
          /\ pos'[Other(leg)] >= total + read
      BY <1>0, <1>1, <1>2, <1>3, <2>3, <2>5, <3>3
    <3> QED BY <1>0, <2>3, <2>5, <3>1, <3>2, <3>4, OtherHedged
  <2>7. CASE ~(read >= Missing)
    <3>1. pc' = "aggressive_cancel" /\ UNCHANGED <<leg, known, size>>
      BY <2>1, <2>7 DEF Goto
    <3>2. QuantityType'
      BY <1>0, <2>1, <2>3, <2>5, <3>1 DEF QuantityType
    <3>3. total + read < size[leg]
      BY <1>1, <1>2, <2>2, <2>7 DEF Missing
    <3>4. Counted'
      BY <2>1, <2>3, <2>5, <3>1, <3>3 DEF Counted, Late, Other
    <3>5. /\ pc \in Locked /\ pc' \in Locked /\ \A l \in Legs : pos'[l] >= pos[l]
      BY <1>2, <2>3, <3>1 DEF Locked
    <3> QED BY <1>3, <2>3, <3>1, <3>2, <3>4, <3>5, HedgeGoesOn
  <2> QED BY <2>6, <2>7
<1>12. CASE CancelAggressive
  <2>1. /\ pc = "aggressive_cancel" /\ pc' = "market"
        /\ UNCHANGED <<leg, lim, stray, pos, known, size, reprices, total, exitQty>>
    BY <1>12 DEF CancelAggressive, Goto
  <2>2. agg' \in Orders /\ agg'.filled = agg.filled
    BY <1>2, <1>12, CancelKeeps DEF CancelAggressive
  <2>3. QuantityType'
    BY <1>0, <2>1, <2>2 DEF QuantityType
  <2>4. Counted'
    BY <2>1, <2>2 DEF Quantity, Counted, Late, Other
  <2>5. /\ pc \in Locked /\ pc' \in Locked /\ \A l \in Legs : pos'[l] >= pos[l]
    BY <1>2, <2>1 DEF Locked
  <2> QED BY <1>3, <2>1, <2>2, <2>3, <2>4, <2>5, HedgeGoesOn
<1>13. CASE MarketHedged
  <2>1. PICK extra \in 0 .. EXTRA : pos' = [pos EXCEPT ![Other(leg)] = @ + Missing + extra]
    BY <1>13 DEF MarketHedged
  <2>2. Hedged(Missing) /\ pc = "market" /\ UNCHANGED <<lim, agg, stray, reprices, total, exitQty>>
    BY <1>13 DEF MarketHedged
  <2>3. total <= lim[Other(leg)].filled + agg.filled /\ total < size[leg]
    BY <2>2 DEF Quantity, Counted
  <2>4. Missing \in Nat /\ Missing = size[leg] - total /\ extra \in Nat
    BY <1>1, <1>2, <2>3 DEF Missing
  <2>5. pos' \in [Legs -> Int] /\ pos'[leg] = pos[leg]
        /\ pos'[Other(leg)] = pos[Other(leg)] + Missing + extra
    BY <1>0, <1>2, <2>1, <2>4 DEF QuantityType
  <2>6. pos'[Other(leg)] >= LeastQty /\ pos'[Other(leg)] >= Missing
    BY <1>0, <1>1, <1>2, <1>3, <2>3, <2>4, <2>5
  <2>7. QuantityType'
    BY <1>0, <2>2, <2>4, <2>5 DEF QuantityType, Hedged
  <2> QED BY <1>0, <2>2, <2>4, <2>5, <2>6, <2>7, OtherHedged
<1>14. CASE MarketFails
  <2>1. /\ pc = "market" /\ pc' = "close"
        /\ UNCHANGED <<leg, lim, agg, stray, known, size, reprices, total, exitQty>>
    BY <1>14 DEF MarketFails, Goto
  <2>2. total < size[leg]
    BY <2>1 DEF Quantity, Counted
  <2>3. Missing \in Nat
    BY <1>1, <1>2, <2>2 DEF Missing
  <2>4. PICK n \in Nat : pos' = [pos EXCEPT ![Other(leg)] = @ + n]
    <3>1. PICK n \in 0 .. Missing + EXTRA : pos' = [pos EXCEPT ![Other(leg)] = @ + n]
      BY <1>14 DEF MarketFails
    <3>2. n \in Nat
      BY <2>3
    <3> QED BY <3>1, <3>2
  <2>5. /\ pos' \in [Legs -> Int] /\ pos'[Other(leg)] = pos[Other(leg)] + n
        /\ \A l \in Legs : pos'[l] >= pos[l]
    BY <1>0, <1>2, <2>4 DEF QuantityType
  <2>6. QuantityType' /\ Counted'
    BY <1>0, <2>1, <2>5 DEF QuantityType, Counted, Late
  <2>7. pc \in Locked /\ pc' \in Locked
    BY <2>1 DEF Locked
  <2>8. pos'[Other(leg)] >= lim[Other(leg)].filled + agg.filled
    BY <1>0, <1>2, <1>3, <2>5
  <2> QED BY <2>1, <2>5, <2>6, <2>7, <2>8, HedgeGoesOn
<1>15. CASE EmergencyCloseOk \/ EmergencyCloseFails
  <2>1. PICK n \in Nat : pos' = [pos EXCEPT ![leg] = @ - n]
    <3>1. PICK n \in 0 .. size[leg] + EXTRA : pos' = [pos EXCEPT ![leg] = @ - n]
      BY <1>15 DEF EmergencyCloseOk, EmergencyCloseFails
    <3>2. n \in Nat
      BY <1>1
    <3> QED BY <3>1, <3>2
  <2>2. pos' \in [Legs -> Int]
    BY <1>0, <1>2, <2>1 DEF QuantityType
  <2>3. QuantityType' /\ pc' = "done" /\ result' # "ok"
    BY <1>0, <1>15, <2>2 DEF EmergencyCloseOk, EmergencyCloseFails, Return, QuantityType
  <2> QED BY <2>3, ErrReturned
<1> QED BY <1>4, <1>5, <1>6, <1>7, <1>8, <1>9, <1>10, <1>11, <1>12, <1>13, <1>14, <1>15
        DEF Hedging

-----------------------------------------------------------------------------
(* A fill, of whichever order, adds to an order and to its leg; it can     *)
(* come at any moment, before or after a return.                           *)
LEMMA Filled ==
    ASSUME Control, Quantity, UNCHANGED <<control, books>>, NEW m \in Legs,
           QuantityType',
           pos'[m] = pos[m] + 1,
           \A l \in Legs : l # m => pos'[l] = pos[l],
           \A l \in Legs : lim'[l].qty = lim[l].qty /\ lim'[l].filled >= lim[l].filled,
           agg'.filled >= agg.filled,
           agg = NoOrder => agg' = NoOrder,
           \A l \in Legs : LET w == IF l = Other(leg) THEN 1 ELSE 0 IN
              pos[l] >= lim[l].filled + w * agg.filled
                 => pos'[l] >= lim'[l].filled + w * agg'.filled
    PROVE  Quantity'
<1> USE DEF control, books
<1>1. \A l \in Legs : /\ pos[l] \in Int /\ pos'[l] \in Int /\ size[l] \in Nat
                     /\ lim[l].filled \in Nat /\ lim'[l].filled \in Nat
  BY OrderShapes DEF Quantity, QuantityType
<1>2. agg.filled \in Nat /\ agg'.filled \in Nat /\ total \in Nat /\ LeastQty \in Nat
  BY OrderShapes, LeastQuantity DEF Quantity, QuantityType
<1>3. \A l \in Legs : pos'[l] >= pos[l]
  BY <1>1
<1>4. AllKnown <=> AllKnown'
  BY DEF AllKnown
<1>5. Unsold'
  <2> SUFFICES ASSUME pc # "done", ~AllKnown, NEW l \in Legs
               PROVE  pos'[l] >= lim'[l].filled + (IF l = Other(leg) THEN agg'.filled ELSE 0)
    BY <1>4 DEF Unsold, Other
  <2>1. pos[l] >= lim[l].filled + (IF l = Other(leg) THEN agg.filled ELSE 0)
    BY DEF Quantity, Unsold
  <2>2. CASE l = Other(leg)
    BY <1>1, <1>2, <2>1, <2>2
  <2>3. CASE l # Other(leg)
    BY <1>1, <1>2, <2>1, <2>3
  <2> QED BY <2>2, <2>3
<1>6. Held'
  BY <1>1, <1>2, <1>3 DEF Quantity, Held, Open
<1>7. Covered'
  <2> SUFFICES ASSUME Open, NEW l \in Legs, known[l],
                      ~AllKnown \/ lim["long"].qty = lim["short"].qty
               PROVE  size[l] <= pos'[l]
    BY <1>4 DEF Covered, Open, Legs
  <2>1. size[l] <= pos[l]
    BY DEF Quantity, Covered
  <2> QED BY <1>1, <1>3, <2>1
<1>8. HedgeSize' /\ Exits'
  BY DEF Quantity, HedgeSize, Exits, Other
<1>9. Counted'
  <2>1. Other(leg) \in Legs /\ size[leg] \in Nat
    BY DEF Control, ControlType, Legs, Other, Quantity, QuantityType
  <2>2. pc \in {"aggressive", "aggressive_wait"} =>
          total <= lim'[Other(leg)].filled /\ total < size[leg]
    BY <1>1, <1>2, <2>1 DEF Quantity, Counted
  <2>3. pc \in {"aggressive_cancel", "market"} =>
          total <= lim'[Other(leg)].filled + agg'.filled /\ total < size[leg]
    BY <1>1, <1>2, <2>1 DEF Quantity, Counted
  <2> QED BY <1>4, <2>2, <2>3 DEF Quantity, Counted, Other
<1> QED BY <1>5, <1>6, <1>7, <1>8, <1>9 DEF Quantity

LEMMA QuantityExchanges ==
    ASSUME Control, Quantity, Exchanges
    PROVE  Quantity'
<1> USE DEF books, control
<1>0. /\ QuantityType /\ leg \in Legs /\ Other(leg) \in Legs
      /\ \A l \in Legs : pos[l] \in Int /\ lim[l] \in Orders /\ lim[l].filled \in Nat
      /\ agg \in Orders /\ agg.filled \in Nat
  BY OrderShapes DEF Quantity, QuantityType, Control, ControlType, Legs, Other
<1>1. ASSUME NEW m \in Legs, FillLimit(m) PROVE Quantity'
  <2>1. /\ lim[m].live /\ lim' = [lim EXCEPT ![m] = Fill(lim[m])]
        /\ pos' = [pos EXCEPT ![m] = @ + 1]
        /\ UNCHANGED <<agg, stray, control, books>>
    BY <1>1 DEF FillLimit
  <2>2. Fill(lim[m]) \in Orders /\ Fill(lim[m]).qty = lim[m].qty
        /\ Fill(lim[m]).filled = lim[m].filled + 1 /\ lim[m] # NoOrder
    BY <1>0, <2>1, FillAdds
  <2>3. /\ lim' \in [Legs -> Orders] /\ lim'[m] = Fill(lim[m])
        /\ \A l \in Legs : l # m => lim'[l] = lim[l]
    BY <1>0, <2>1, <2>2 DEF QuantityType
  <2>4. /\ pos' \in [Legs -> Int] /\ pos'[m] = pos[m] + 1
        /\ \A l \in Legs : l # m => pos'[l] = pos[l]
    BY <1>0, <2>1 DEF QuantityType
  <2>5. QuantityType'
    <3>1. \A l \in Legs : lim'[l] = NoOrder \/ lim'[l].qty \in Quantities
      BY <1>0, <2>2, <2>3 DEF QuantityType
    <3> QED BY <1>0, <2>1, <2>3, <2>4, <3>1 DEF QuantityType
  <2>6. \A l \in Legs : lim'[l].qty = lim[l].qty /\ lim'[l].filled >= lim[l].filled
    BY <1>0, <2>2, <2>3
  <2>7. ASSUME NEW l \in Legs, NEW w \in {0, 1}, pos[l] >= lim[l].filled + w * agg.filled
        PROVE  pos'[l] >= lim'[l].filled + w * agg'.filled
    <3>1. CASE w = 0
      BY <1>0, <2>1, <2>2, <2>3, <2>4, <2>7, <3>1
    <3>2. CASE w = 1
      BY <1>0, <2>1, <2>2, <2>3, <2>4, <2>7, <3>2
    <3> QED BY <3>1, <3>2
  <2>8. agg' = agg /\ agg'.filled >= agg.filled
    BY <1>0, <2>1
  <2> QED BY <2>1, <2>4, <2>5, <2>6, <2>7, <2>8, Filled
<1>2. ASSUME NEW m \in Legs, FillStray(m) PROVE Quantity'
  <2>1. /\ stray[m] > 0 /\ stray' = [stray EXCEPT ![m] = @ - 1]
        /\ pos' = [pos EXCEPT ![m] = @ + 1]
        /\ UNCHANGED <<lim, agg, control, books>>
    BY <1>2 DEF FillStray
  <2>2. stray' \in [Legs -> Nat]
    BY <1>0, <2>1 DEF QuantityType
  <2>3. /\ pos' \in [Legs -> Int] /\ pos'[m] = pos[m] + 1
        /\ \A l \in Legs : l # m => pos'[l] = pos[l]
    BY <1>0, <2>1 DEF QuantityType
  <2>4. QuantityType'
    BY <1>0, <2>1, <2>2, <2>3 DEF QuantityType
  <2>5. ASSUME NEW l \in Legs, NEW w \in {0, 1}, pos[l] >= lim[l].filled + w * agg.filled
        PROVE  pos'[l] >= lim'[l].filled + w * agg'.filled
    <3>1. CASE w = 0
      BY <1>0, <2>1, <2>3, <2>5, <3>1
    <3>2. CASE w = 1
      BY <1>0, <2>1, <2>3, <2>5, <3>2
    <3> QED BY <3>1, <3>2
  <2>6. agg' = agg /\ agg'.filled >= agg.filled
    BY <1>0, <2>1
  <2>7. \A l \in Legs : lim'[l].qty = lim[l].qty /\ lim'[l].filled >= lim[l].filled
    BY <1>0, <2>1
  <2> QED BY <2>1, <2>3, <2>4, <2>5, <2>6, <2>7, Filled
<1>3. CASE FillAggressive
  <2>1. /\ agg.live /\ agg' = Fill(agg)
        /\ pos' = [pos EXCEPT ![Other(leg)] = @ + 1]
        /\ UNCHANGED <<lim, stray, control, books>>
    BY <1>3 DEF FillAggressive
  <2>2. agg' \in Orders /\ agg'.filled = agg.filled + 1 /\ agg # NoOrder
    BY <1>0, <2>1, FillAdds
  <2>3. /\ pos' \in [Legs -> Int] /\ pos'[Other(leg)] = pos[Other(leg)] + 1
        /\ \A l \in Legs : l # Other(leg) => pos'[l] = pos[l]
    BY <1>0, <2>1 DEF QuantityType
  <2>4. QuantityType'
    BY <1>0, <2>1, <2>2, <2>3 DEF QuantityType
  <2>5. ASSUME NEW l \in Legs
        PROVE  LET w == IF l = Other(leg) THEN 1 ELSE 0 IN
                  pos[l] >= lim[l].filled + w * agg.filled
                     => pos'[l] >= lim'[l].filled + w * agg'.filled
    <3>1. CASE l = Other(leg)
      BY <1>0, <2>1, <2>2, <2>3, <3>1
    <3>2. CASE l # Other(leg)
      BY <1>0, <2>1, <2>2, <2>3, <3>2
    <3> QED BY <3>1, <3>2
  <2>6. agg'.filled >= agg.filled
    BY <1>0, <2>2
  <2>7. \A l \in Legs : lim'[l].qty = lim[l].qty /\ lim'[l].filled >= lim[l].filled
    BY <1>0, <2>1
  <2> QED BY <1>0, <2>1, <2>2, <2>3, <2>4, <2>5, <2>6, <2>7, Filled
<1> QED BY <1>1, <1>2, <1>3 DEF Exchanges

LEMMA NextQuantity == Control /\ Control' /\ Quantity /\ [Next]_vars => Quantity'
<1> SUFFICES ASSUME Control, Control', Quantity, [Next]_vars PROVE Quantity'
  OBVIOUS
<1>1. CASE Routine
  BY <1>1, QuantityPlacement, QuantityPolling, QuantityAfterLoop, QuantityHedging DEF Routine
<1>2. CASE Exchanges
  BY <1>2, QuantityExchanges
<1>3. CASE Timeout \/ OtherHolder \/ UNCHANGED vars
  <2>1. UNCHANGED <<pc, leg, result, lim, agg, stray, pos, known, size, reprices, total, exitQty>>
    BY <1>3 DEF Timeout, OtherHolder, exchange, books, vars
  <2>2. QuantityType' /\ Unsold' /\ Held'
    BY <2>1 DEF Quantity, QuantityType, Unsold, Held, Open, AllKnown, Other
  <2>3. Covered' /\ HedgeSize' /\ Counted' /\ Exits'
    BY <2>1 DEF Quantity, Covered, HedgeSize, Counted, Exits, Open, AllKnown, Other
  <2> QED BY <2>2, <2>3 DEF Quantity
<1> QED BY <1>1, <1>2, <1>3 DEF Next

(* Control and quantities of an entry are consistent at every step of the  *)
(* routine and of the exchanges.                                           *)
THEOREM InductiveInvariant == Spec => []IInv
<1>1. Init => IInv
  BY InitControl, InitQuantity DEF IInv
<1>2. IInv /\ [Next]_vars => IInv'
  BY NextControl, NextQuantity DEF IInv
<1> QED BY <1>1, <1>2, PTL DEF Spec

(* Whatever fills, cancels, lost answers and hedges raced, an entry that   *)
(* returns Ok holds at least the ordered quantity on both legs.            *)
THEOREM OkEntriesHoldBothLegs == Spec => []OkHoldsBothLegs
<1>1. IInv => OkHoldsBothLegs
  BY DEF IInv, Control, Outcome, AllKnown, Quantity, Held, Open, OkHoldsBothLegs
<1> QED BY <1>1, InductiveInvariant, PTL

(* The exit orders placed with the trade sell no more than is held, when   *)
(* both exchanges took the same quantity.                                  *)
THEOREM ExitOrdersAreCovered == Spec => []ExitsAreCovered
<1>1. IInv => ExitsAreCovered
  <2> SUFFICES ASSUME IInv, result = "ok", lim["long"].qty = lim["short"].qty, NEW l \in Legs
               PROVE  exitQty[l] <= pos[l]
    BY DEF ExitsAreCovered
  <2>1. known[l] /\ Open /\ exitQty[l] \in {0, size[l]}
    BY DEF IInv, Control, Outcome, AllKnown, Open, Quantity, Exits
  <2>2. size[l] <= pos[l] /\ pos[l] >= LeastQty
    BY <2>1 DEF IInv, Quantity, Covered, Held
  <2>3. pos[l] \in Int /\ size[l] \in Nat /\ LeastQty \in Nat
    BY LeastQuantity DEF IInv, Quantity, QuantityType
  <2> QED BY <2>1, <2>2, <2>3
<1> QED BY <1>1, InductiveInvariant, PTL
=============================================================================
