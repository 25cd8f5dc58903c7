----------------------------- MODULE ExitMonitor -----------------------------
(***************************************************************************)
(* How the legs of one real trade are closed: the part of                  *)
(* monitor_active_positions (strategy/runner.rs) that polls the two exit   *)
(* orders and hedges, forces or stops the trade, and check_exits, which    *)
(* runs beside it, with the quantities on the exchanges.                   *)
(*                                                                         *)
(* StrategyRunner has the control of both for all trades; this module has  *)
(* one trade and counts contracts.  Every call to an exchange may fail,    *)
(* with or without an effect, and orders fill between any two calls.       *)
(***************************************************************************)
EXTENDS Integers, Sequences, Functions

CONSTANTS
    SIZE,        \* contracts of each leg
    DUST,        \* a rest of so many contracts is taken for none, 0.001 in the code
    LEVELS,      \* contracts a level of an order book may hold
    MAX_FAULTS   \* bound: calls that fail and market orders that do not fill

ASSUME ExitAssumption ==
    SIZE \in Nat \ {0} /\ DUST \in Nat /\ LEVELS \subseteq Nat /\ MAX_FAULTS \in Nat

Legs == {"long", "short"}

VARIABLES
    \* the exchanges
    pos,         \* contracts of the leg that are open; negative if it was closed twice
    exit,        \* the exit order of the leg: live or not, and what is left of it
    limit,       \* its aggressive limit order, likewise
    stray,       \* what is left of its live orders that nobody knows of any more
    \* the trade
    status,
    stop_loss_triggered,
    \* monitor_active_positions
    path,        \* what it does about the trade in this round
    at,          \* the step of that path; 0 when it has returned
    saw,         \* the legs whose exit order was seen Filled
    counted,     \* per leg, the contracts it has seen closed (total_filled)
    \* check_exits
    chk,         \* where it is in this round
    booked,      \* close_trade has changed the portfolio
    blocked,     \* the thread waits for the lock of the map, for ever
    \* history
    faults,      \* calls that failed, and market orders that did not fill
    raced,       \* something filled that the code did not look at again
    again        \* a trade that was Exiting already was forced again

exchanges == <<pos, exit, limit, stray>>
trade == <<status, stop_loss_triggered>>
monitor == <<path, at, saw, counted>>
check == <<chk, booked, blocked>>
history == <<faults, raced, again>>
vars == <<exchanges, trade, monitor, check, history>>

NoOrder == [live |-> FALSE, left |-> 0]

Init ==
    /\ pos = [l \in Legs |-> SIZE]
    /\ exit = [l \in Legs |-> [live |-> TRUE, left |-> SIZE]]
    /\ limit = [l \in Legs |-> NoOrder] /\ stray = [l \in Legs |-> 0]
    /\ status = "Active" /\ stop_loss_triggered = FALSE
    /\ path = "none" /\ at = 0 /\ saw = {} /\ counted = [l \in Legs |-> 0]
    /\ chk = "done" /\ booked = FALSE /\ blocked = FALSE
    /\ faults = 0 /\ raced = FALSE /\ again = FALSE

-----------------------------------------------------------------------------
(* The paths: the calls the monitor makes, one after the other.            *)

CloseBoth == << <<"cancel", "long">>, <<"read", "long">>, <<"cancel", "short">>, <<"read", "short">> >>
Aggressive(leg) == << <<"limit", leg>>, <<"look", leg>>, <<"drop", leg>> >>
AggressiveBoth == Aggressive("long") \o Aggressive("short")
MarketBoth == << <<"market", "long">>, <<"market", "short">> >>
Mark == << <<"mark", "trade">> >>

Steps(p) ==
    CASE p = "poll" -> << <<"poll", "long">>, <<"poll", "short">> >>
      [] p = "both" -> Mark
      [] p = "force" -> CloseBoth \o AggressiveBoth \o MarketBoth \o Mark
      [] p = "stop" -> CloseBoth \o Mark \o AggressiveBoth \o MarketBoth
      [] p = "hedge_short" -> Mark \o << <<"cancel", "short">>, <<"read", "short">> >>
                                   \o Aggressive("short") \o << <<"market", "short">> >>
      [] p = "hedge_long" -> Mark \o << <<"cancel", "long">> >>
                                  \o Aggressive("long") \o << <<"market", "long">> >>

Doing(what, leg) == ~blocked /\ at # 0 /\ Steps(path)[at] = <<what, leg>>

(* On to the step after the next n - 1 ones, or out of the loop body.      *)
Step(n) == at' = IF at + n > Len(Steps(path)) THEN 0 ELSE at + n

Remaining(leg) == SIZE - counted[leg]

(* What is left of the leg is worth an order of this kind.  The timeout    *)
(* tests `> 0.001` for both kinds, the stop loss only for its market       *)
(* orders; the hedges close every rest.                                    *)
Tolerated(what) == IF path = "force" \/ (path = "stop" /\ what = "market") THEN DUST ELSE 0
Rest(what, leg) == Remaining(leg) > Tolerated(what)

Fail == faults < MAX_FAULTS /\ faults' = faults + 1
NoFail == UNCHANGED faults

-----------------------------------------------------------------------------
(* A round of the loop: check_exits looks at the trade when the monitor    *)
(* waits for its first answer.                                             *)
CheckStarts == chk' = IF status = "Exiting" THEN "cancel_long" ELSE "done"

StartRound ==
    /\ ~blocked /\ at = 0 /\ chk = "done"
    /\ path' = "poll" /\ at' = 1 /\ saw' = {} /\ counted' = [l \in Legs |-> 0]
    /\ CheckStarts
    /\ UNCHANGED <<exchanges, trade, booked, blocked, history>>

(* A round without prices in the store: the monitor skips the trade.       *)
SkipRound ==
    /\ ~blocked /\ at = 0 /\ chk = "done"
    /\ CheckStarts
    /\ UNCHANGED <<exchanges, trade, monitor, booked, blocked, history>>

Take(p) ==
    /\ path' = p /\ at' = 1
    /\ again' = (again \/ (p = "force" /\ status = "Exiting"))

(* What the polls lead to.  The exit orders may be past the timeout or     *)
(* not, the stop loss hit or not.                                          *)
Decide(filled) ==
    \/ filled = Legs /\ Take("both")
    \/ filled = {"long"} /\ Take("hedge_short")
    \/ filled = {"short"} /\ Take("hedge_long")
    \/ filled = {} /\ Take("force")
    \/ filled = {} /\ ~stop_loss_triggered /\ Take("stop")
    \/ filled = {} /\ path' = "none" /\ at' = 0 /\ UNCHANGED again

(* Mutant: an exit order that has filled in part is taken for Filled.      *)
SeenFilledPartly(leg) == exit[leg].left < SIZE

SeenFilled(leg) == exit[leg].left = 0

(* get_order_status of an exit order.                                      *)
Poll(leg) ==
    /\ Doing("poll", leg)
    /\ \E seen \in BOOLEAN :
          /\ seen => SeenFilled(leg)
          /\ saw' = IF seen THEN saw \cup {leg} ELSE saw
          /\ IF ~seen /\ SeenFilled(leg) THEN Fail ELSE NoFail
    /\ IF leg = "long" THEN Step(1) /\ UNCHANGED <<path, again>> ELSE Decide(saw')
    /\ UNCHANGED <<exchanges, trade, counted, check, raced>>

(* Mutant: the trade whose exit orders both filled stays Active.           *)
SetStatusUnlessBoth ==
    /\ status' = IF path = "both" THEN status ELSE "Exiting"
    /\ stop_loss_triggered' = (stop_loss_triggered \/ path = "stop")

SetStatus == status' = "Exiting" /\ stop_loss_triggered' = (stop_loss_triggered \/ path = "stop")

(* get_mut and Exiting.  It waits for ever if check_exits has the trade.   *)
(* The hedges write the status again at their end, which changes nothing.  *)
MarkExiting ==
    /\ Doing("mark", "trade")
    /\ IF chk = "done"
       THEN SetStatus /\ Step(1) /\ UNCHANGED blocked
       ELSE blocked' = TRUE /\ UNCHANGED <<trade, at>>
    /\ UNCHANGED <<exchanges, path, saw, counted, chk, booked, history>>

(* cancel_order of the exit order; an error is ignored.  In hedge_long     *)
(* nobody reads what it filled.                                            *)
Cancel(leg) ==
    /\ Doing("cancel", leg)
    /\ \/ exit' = [exit EXCEPT ![leg].live = FALSE] /\ NoFail
       \/ exit[leg].live /\ Fail /\ UNCHANGED exit
    /\ raced' = (raced \/ (path = "hedge_long" /\ exit[leg].left < SIZE))
    /\ Step(1)
    /\ UNCHANGED <<pos, limit, stray, trade, path, saw, counted, check, again>>

(* get_order_status_detailed of it; after an error nothing was filled.     *)
Read(leg) ==
    /\ Doing("read", leg)
    /\ \/ counted' = [counted EXCEPT ![leg] = SIZE - exit[leg].left] /\ NoFail
       \/ Fail /\ UNCHANGED counted
    /\ Step(1)
    /\ UNCHANGED <<exchanges, trade, path, saw, check, raced, again>>

(* The order books: the levels of one side, best first.  An empty one also *)
(* stands for a book or a best price that cannot be read.                  *)
Books == UNION {[1 .. n -> LEVELS] : n \in 0 .. 3}

(* The chance, in units of 0.0001, that an order of SIZE fills at a level: *)
(* by how many times the levels down to it hold the order, and less        *)
(* further down.                                                           *)
calculate_fill_probability(book, level) ==
    LET depth == SumFunctionOnSet(book, 1 .. level)
        base == CASE depth >= 10 * SIZE -> 95
                  [] depth >= 5 * SIZE -> 85
                  [] depth >= 3 * SIZE -> 75
                  [] depth >= 2 * SIZE -> 60
                  [] depth >= SIZE -> 40
                  [] OTHER -> 20
    IN  IF level > Len(book) THEN 0 ELSE base * <<100, 95, 85>>[level]

(* should_try_limit: one of the three best levels gives 70%.               *)
should_try_limit(book) ==
    \E level \in 1 .. 3 : calculate_fill_probability(book, level) >= 7000

(* hedge_long asks the estimator; the others want a price.                 *)
TriesLimit(book) == IF path = "hedge_long" THEN should_try_limit(book) ELSE book # <<>>

(* The aggressive limit order for the rest.  It is left out if there is no *)
(* rest, no price, or little chance that it fills.                         *)
NoLimit(leg) ==
    /\ Doing("limit", leg)
    /\ ~Rest("limit", leg) \/ \E book \in Books : ~TriesLimit(book)
    /\ Step(3)
    /\ UNCHANGED <<exchanges, trade, path, saw, counted, check, history>>

PlaceLimit(leg) ==
    /\ Doing("limit", leg) /\ Rest("limit", leg)
    /\ \E book \in Books : TriesLimit(book)
    /\ limit' = [limit EXCEPT ![leg] = [live |-> TRUE, left |-> Remaining(leg)]]
    /\ Step(1)
    /\ UNCHANGED <<pos, exit, stray, trade, path, saw, counted, check, history>>

(* It is refused, or its answer is lost.                                   *)
LimitFails(leg) ==
    /\ Doing("limit", leg) /\ Rest("limit", leg)
    /\ \E book \in Books : TriesLimit(book)
    /\ Fail
    /\ \E n \in {0, Remaining(leg)} : stray' = [stray EXCEPT ![leg] = @ + n]
    /\ Step(3)
    /\ UNCHANGED <<pos, exit, limit, trade, path, saw, counted, check, raced, again>>

(* After the wait its fill is read.  A hedge whose limit order is filled   *)
(* is complete.                                                            *)
Look(leg) ==
    /\ Doing("look", leg)
    /\ \/ /\ counted' = [counted EXCEPT ![leg] = SIZE - limit[leg].left]
          /\ IF limit[leg].left = 0 /\ path \in {"hedge_long", "hedge_short"} THEN at' = 0 ELSE Step(1)
          /\ NoFail
       \/ Fail /\ Step(1) /\ UNCHANGED counted
    /\ UNCHANGED <<exchanges, trade, path, saw, check, raced, again>>

(* It is cancelled, and not read again.                                    *)
Drop(leg) ==
    /\ Doing("drop", leg)
    /\ limit' = [limit EXCEPT ![leg] = NoOrder]
    /\ \/ UNCHANGED stray /\ NoFail
       \/ limit[leg].live /\ Fail /\ stray' = [stray EXCEPT ![leg] = @ + limit[leg].left]
    /\ Step(1)
    /\ UNCHANGED <<pos, exit, trade, path, saw, counted, check, raced, again>>

(* Mutant: the market order has the size of the leg.                       *)
MarketSizeFull(leg) == SIZE

MarketSize(leg) == Remaining(leg)

(* The market order for the rest.  The exchange fills it as far as it can. *)
(* Its answer only decides what is logged.                                 *)
Market(leg) ==
    /\ Doing("market", leg)
    /\ IF Rest("market", leg)
       THEN \E n \in 0 .. MarketSize(leg) :
              /\ pos' = [pos EXCEPT ![leg] = @ - n]
              /\ IF n < MarketSize(leg) THEN Fail ELSE NoFail
       ELSE UNCHANGED pos /\ NoFail
    /\ Step(1)
    /\ UNCHANGED <<exit, limit, stray, trade, path, saw, counted, check, raced, again>>

Monitor ==
    \/ StartRound \/ SkipRound \/ MarkExiting
    \/ \E leg \in Legs :
          \/ Poll(leg) \/ Cancel(leg) \/ Read(leg)
          \/ NoLimit(leg) \/ PlaceLimit(leg) \/ LimitFails(leg) \/ Look(leg) \/ Drop(leg)
          \/ Market(leg)

-----------------------------------------------------------------------------
(* check_exits, which holds its reference to the trade.                    *)

ChkCancel(leg) ==
    /\ ~blocked /\ chk = (IF leg = "long" THEN "cancel_long" ELSE "cancel_short")
    /\ \/ exit' = [exit EXCEPT ![leg].live = FALSE] /\ NoFail
       \/ exit[leg].live /\ Fail /\ UNCHANGED exit
    /\ chk' = IF leg = "long" THEN "cancel_short" ELSE "close"
    /\ UNCHANGED <<pos, limit, stray, trade, monitor, booked, blocked, raced, again>>

(* close_trade, then remove, which waits for the reference.                *)
ChkClose ==
    /\ ~blocked /\ chk = "close"
    /\ booked' = TRUE /\ blocked' = TRUE
    /\ UNCHANGED <<exchanges, trade, monitor, chk, history>>

(* close_trade could not write to Redis; it has changed the portfolio, and *)
(* the next time it does not find the trade and returns Ok.                *)
ChkCloseErr ==
    /\ ~blocked /\ chk = "close" /\ ~booked
    /\ booked' = TRUE /\ chk' = "done"
    /\ Fail
    /\ UNCHANGED <<exchanges, trade, monitor, blocked, raced, again>>

Check == ChkClose \/ ChkCloseErr \/ \E leg \in Legs : ChkCancel(leg)

-----------------------------------------------------------------------------
(* The exchanges fill what is live.                                        *)

FillExit(leg) ==
    /\ exit[leg].live /\ exit[leg].left > 0
    /\ exit' = [exit EXCEPT ![leg].left = @ - 1]
    /\ pos' = [pos EXCEPT ![leg] = @ - 1]
    /\ UNCHANGED <<limit, stray, trade, monitor, check, history>>

(* A fill of the limit order after the monitor has looked at it.           *)
FillLimit(leg) ==
    /\ limit[leg].live /\ limit[leg].left > 0
    /\ limit' = [limit EXCEPT ![leg].left = @ - 1]
    /\ pos' = [pos EXCEPT ![leg] = @ - 1]
    /\ raced' = (raced \/ ~Doing("look", leg))
    /\ UNCHANGED <<exit, stray, trade, monitor, check, faults, again>>

FillStray(leg) ==
    /\ stray[leg] > 0
    /\ stray' = [stray EXCEPT ![leg] = @ - 1]
    /\ pos' = [pos EXCEPT ![leg] = @ - 1]
    /\ UNCHANGED <<exit, limit, trade, monitor, check, history>>

Exchange == \E leg \in Legs : FillExit(leg) \/ FillLimit(leg) \/ FillStray(leg)

Next == Monitor \/ Check \/ Exchange

(* The task is polled; the loop starts its rounds, the store has prices in *)
(* some of them, and in the end an exit order is past its timeout.  That   *)
(* the exchanges and Redis answer is an assumption: the demo client's      *)
(* requests have no timeout.                                               *)
Fairness ==
    /\ WF_vars(Monitor) /\ WF_vars(Check)
    /\ SF_vars(StartRound)
    /\ SF_vars(Poll("short") /\ path' # "none")

Spec == Init /\ [][Next]_vars /\ Fairness

-----------------------------------------------------------------------------
(* Properties.                                                             *)

(* The monitor has nothing more to do for an Exiting trade in this round.  *)
ExitOver == status = "Exiting" /\ at = 0

(* The most a clean exit leaves open: nothing if both exit orders filled   *)
(* or one was hedged, the tolerated rest if the trade was forced or        *)
(* stopped.                                                                *)
LeftOpen == IF path \in {"both", "hedge_short", "hedge_long"} THEN 0 ELSE DUST

(* Exit orders, limit orders and market orders together close each leg, no *)
(* contract twice and all but the tolerated rest, whichever of the four    *)
(* ways the exit takes and whenever the exit orders fill, so long as no    *)
(* call fails, no order fills after the last look at it, and the trade is  *)
(* not forced a second time.  Each of the three conditions is one the code *)
(* does not see to (the cancelled limit order is not read again,           *)
(* hedge_long does not read the exit order, monitor_active_positions does  *)
(* not look at the status).                                                *)
CleanExitIsExact ==
    faults = 0 /\ ~raced /\ ~again =>
        \A leg \in Legs : pos[leg] >= 0 /\ (ExitOver => pos[leg] <= LeftOpen)

(* A leg that is open by more than the tolerated rest when check_exits has *)
(* booked the trade, or when the monitor has left it, was left open by a   *)
(* call that failed: races and repetitions close too much, never too       *)
(* little.                                                                 *)
OpenLegMeansFailure ==
    (ExitOver \/ booked) /\ (\E leg \in Legs : pos[leg] > DUST) => faults > 0

(* The exit gets to the portfolio's books, or to the lock check_exits      *)
(* holds over its calls: no way of closing the trade leaves it in the map  *)
(* to be closed for ever.  Rests on the calls returning.                   *)
ExitIsBooked == <>(booked \/ blocked)
=============================================================================
