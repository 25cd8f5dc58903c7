---------------------------- MODULE StrategyRunner ----------------------------
(***************************************************************************)
(* StrategyRunner (strategy/runner.rs): the one task that turns            *)
(* opportunities into trades and watches them until they are closed.       *)
(*                                                                         *)
(* run_scanning_loop is a loop of three parts: it takes an opportunity and *)
(* runs execute_opportunity to its end, then it runs                       *)
(* monitor_active_positions and check_exits side by side in tokio::join!,  *)
(* and starts again when both have returned.  The two joined futures share *)
(* one thread: each action below is a stretch of code between two await    *)
(* points, and the other future runs only where this one awaits.           *)
(*                                                                         *)
(* active_trades is a DashMap: its keys are spread over shards, each with  *)
(* a read-write lock.  `get` holds the shard's read lock as long as the    *)
(* returned Ref lives; get_mut, insert and remove need the write lock and  *)
(* wait for it by blocking the thread.  check_exits keeps its Ref across   *)
(* its awaits; nothing else does.                                          *)
(*                                                                         *)
(* What a trade does on the exchanges (entry.rs, and the hedges of the     *)
(* monitor) is only its outcome here.  negative_funding_trackers is filled *)
(* by execute_atomic_trade alone, which is dead code, so should_exit is    *)
(* false.  The market consumer is never set by main.rs.                    *)
(***************************************************************************)
EXTENDS Naturals, Functions, FiniteSets

CONSTANTS
    Symbols,       \* symbols for which opportunities arrive
    Shards,        \* shards of the DashMap
    MAX_TRADES     \* bound: trades opened in a behaviour

ASSUME RunnerAssumption == MAX_TRADES \in Nat /\ Shards # {}

PLACEHOLDER == 0                  \* the key of execute_opportunity's reservation
TradeIds == 1 .. MAX_TRADES
Ids == TradeIds \cup {PLACEHOLDER}
NONE == MAX_TRADES + 1            \* no trade

VARIABLES
    is_real_trading,   \* backend_name is "Demo" or "Live"
    shard,             \* key -> shard, by the map's hash
    active_trades,     \* the DashMap
    pc,                \* where the loop is
    opportunity,       \* the symbol of the opportunity in execution
    next_id,           \* the id the next trade will get
    open_positions,    \* ids in the portfolio's active_trades
    mon,               \* monitor_active_positions: pc, ids left, id
    chk,               \* check_exits: pc, ids left, id
    ref,               \* the id whose Ref check_exits holds, or NONE
    blocked            \* the thread waits for a shard lock

scan == <<pc, opportunity, next_id>>
vars == <<is_real_trading, shard, active_trades, pc, opportunity, next_id,
          open_positions, mon, chk, ref, blocked>>

Idle == [pc |-> "start", ids |-> {}, id |-> NONE]

Trade(symbol, exits) ==
    [symbol |-> symbol, status |-> "Active", captured |-> FALSE,
     stop_loss_triggered |-> FALSE, exit_orders |-> exits]

Init ==
    /\ is_real_trading \in BOOLEAN
    /\ shard \in [Ids -> Shards]
    /\ active_trades = <<>>
    /\ pc = "pop"
    /\ opportunity \in Symbols
    /\ next_id = 1
    /\ open_positions = {}
    /\ mon = Idle
    /\ chk = Idle
    /\ ref = NONE
    /\ blocked = FALSE

Keys == DOMAIN active_trades
Without(id) == Restrict(active_trades, Keys \ {id})
With(id, t) == [k \in Keys \cup {id} |-> IF k = id THEN t ELSE active_trades[k]]

(* A write of key id has to wait for the Ref that check_exits holds.       *)
WriteLocked(id) == ref # NONE /\ shard[ref] = shard[id]

-----------------------------------------------------------------------------
(* execute_opportunity: the symbol is taken by a trade of the map.         *)
(* Mutant: a trade on its way out no longer reserves its symbol.           *)
TakenOnlyWhileActive(symbol) ==
    \E id \in Keys : /\ active_trades[id].symbol = symbol
                     /\ active_trades[id].status = "Active"

Taken(symbol) ==
    \E id \in Keys : /\ active_trades[id].symbol = symbol
                     /\ active_trades[id].status \in {"Active", "Exiting"}

(* The loop takes an opportunity; the duplicate check skips it, or the     *)
(* placeholder reserves its symbol.                                        *)
PopOpportunity ==
    /\ pc = "pop"
    /\ next_id <= MAX_TRADES
    /\ opportunity' \in Symbols
    /\ IF Taken(opportunity')
       THEN pc' = "join" /\ UNCHANGED active_trades
       ELSE pc' = "execute" /\ active_trades' = With(PLACEHOLDER, Trade(opportunity', {}))
    /\ UNCHANGED <<is_real_trading, shard, next_id, open_positions, mon, chk, ref, blocked>>

(* No opportunity is queued.                                               *)
QueueEmpty ==
    /\ pc = "pop"
    /\ pc' = "join"
    /\ UNCHANGED <<is_real_trading, shard, active_trades, opportunity, next_id,
                   open_positions, mon, chk, ref, blocked>>

(* A validation fails (prices, spread, fees, capital, size), or the entry  *)
(* returns Err: the placeholder is removed.                                *)
SkipAndCleanup ==
    /\ pc = "execute"
    /\ active_trades' = Without(PLACEHOLDER)
    /\ pc' = "join"
    /\ UNCHANGED <<is_real_trading, shard, opportunity, next_id, open_positions,
                   mon, chk, ref, blocked>>

(* The entry returns Ok: the placeholder gives way to the trade.  A paper  *)
(* trade has no exit orders; a real one has those that could be placed.    *)
EntryOk ==
    /\ pc = "execute"
    /\ \E exits \in IF is_real_trading THEN SUBSET {"long", "short"} ELSE {{}} :
          active_trades' = [k \in (Keys \ {PLACEHOLDER}) \cup {next_id} |->
                               IF k = next_id THEN Trade(opportunity, exits)
                               ELSE active_trades[k]]
    /\ pc' = "open"
    /\ UNCHANGED <<is_real_trading, shard, opportunity, next_id, open_positions,
                   mon, chk, ref, blocked>>

(* portfolio_manager.open_trade.  Its error is only logged; the capital    *)
(* check cannot fail (only this task spends capital, and it has just       *)
(* checked), and a Redis error comes after the state has changed.          *)
BookTrade ==
    /\ pc = "open"
    /\ open_positions' = open_positions \cup {next_id}
    /\ next_id' = next_id + 1
    /\ pc' = "join"
    /\ UNCHANGED <<is_real_trading, shard, active_trades, opportunity, mon, chk, ref, blocked>>

-----------------------------------------------------------------------------
(* monitor_active_positions                                                *)

(* Neither future gives way between two trades of its list, nor does       *)
(* check_exits between the return of close_trade and the removal.          *)
MonMayRun == pc = "join" /\ ~blocked /\ chk.pc \notin {"next", "remove"}
ChkMayRun == pc = "join" /\ ~blocked /\ mon.pc \notin {"start", "next"}

ToNext(future) == [future EXCEPT !.pc = "next", !.id = NONE]

MonStart ==
    /\ MonMayRun
    /\ mon.pc = "start"
    /\ mon' = [pc |-> "next", ids |-> Keys, id |-> NONE]
    /\ UNCHANGED <<is_real_trading, shard, active_trades, scan, open_positions, chk, ref, blocked>>

(* The next trade of the list.  One that is gone, or that has no prices,   *)
(* is skipped; a real one with both exit orders is polled.                 *)
Monitored(id) ==
    /\ MonMayRun
    /\ mon.pc = "next" /\ id \in mon.ids

MonSkip(id) ==
    /\ Monitored(id)
    /\ mon' = [mon EXCEPT !.ids = @ \ {id}]
    /\ UNCHANGED <<is_real_trading, shard, active_trades, scan, open_positions, chk, ref, blocked>>

HasExitOrders(id) == is_real_trading /\ active_trades[id].exit_orders = {"long", "short"}

MonPoll(id) ==
    /\ Monitored(id)
    /\ id \in Keys /\ HasExitOrders(id)
    /\ mon' = [pc |-> "poll", ids |-> mon.ids \ {id}, id |-> id]
    /\ UNCHANGED <<is_real_trading, shard, active_trades, scan, open_positions, chk, ref, blocked>>

(* get_mut and what is written through it: to Exiting, with the exit       *)
(* spread (Capture) or without it.                                         *)
Mutate(id, t) ==
    /\ ~WriteLocked(id)
    /\ active_trades' = IF id \in Keys THEN With(id, t) ELSE active_trades

(* Mutant: the exit spread captured before is forgotten.                   *)
ExitingForgetsSpread(id) == [active_trades[id] EXCEPT !.status = "Exiting", !.captured = FALSE]

Exiting(id) == [active_trades[id] EXCEPT !.status = "Exiting"]
Captured(id) == [Exiting(id) EXCEPT !.captured = TRUE]
StopLossTriggered(id) == [Captured(id) EXCEPT !.stop_loss_triggered = TRUE]

(* The paper rules, used for every trade without two exit orders, find a   *)
(* reason to leave.                                                        *)
MonPaperExit(id) ==
    /\ Monitored(id)
    /\ id \in Keys /\ ~HasExitOrders(id)
    /\ Mutate(id, Captured(id))
    /\ mon' = [mon EXCEPT !.ids = @ \ {id}]
    /\ UNCHANGED <<is_real_trading, shard, scan, open_positions, chk, ref, blocked>>

MonAt(where) == MonMayRun /\ mon.pc = where

(* Both exit orders are filled.                                            *)
MonBothFilled ==
    /\ MonAt("poll")
    /\ Mutate(mon.id, Captured(mon.id))
    /\ mon' = ToNext(mon)
    /\ UNCHANGED <<is_real_trading, shard, scan, open_positions, chk, ref, blocked>>

(* One exit order is filled: Exiting at once, then the other leg is        *)
(* hedged.                                                                 *)
MonOneFilled ==
    /\ MonAt("poll")
    /\ Mutate(mon.id, Exiting(mon.id))
    /\ mon' = [mon EXCEPT !.pc = "hedge"]
    /\ UNCHANGED <<is_real_trading, shard, scan, open_positions, chk, ref, blocked>>

(* Neither is filled and both are older than EXIT_TIMEOUT_SECONDS, or the  *)
(* stop loss is hit for the first time: the exit orders are cancelled.     *)
MonForce ==
    /\ MonAt("poll")
    /\ mon' = [mon EXCEPT !.pc = "force"]
    /\ UNCHANGED <<is_real_trading, shard, active_trades, scan, open_positions, chk, ref, blocked>>

MonStopLoss ==
    /\ MonAt("poll")
    /\ mon.id \in Keys /\ ~active_trades[mon.id].stop_loss_triggered
    /\ mon' = [mon EXCEPT !.pc = "stop"]
    /\ UNCHANGED <<is_real_trading, shard, active_trades, scan, open_positions, chk, ref, blocked>>

MonNothing ==
    /\ MonAt("poll")
    /\ mon' = ToNext(mon)
    /\ UNCHANGED <<is_real_trading, shard, active_trades, scan, open_positions, chk, ref, blocked>>

(* The forced close is over; its market orders may have failed.            *)
MonForced ==
    /\ MonAt("force")
    /\ Mutate(mon.id, Captured(mon.id))
    /\ mon' = ToNext(mon)
    /\ UNCHANGED <<is_real_trading, shard, scan, open_positions, chk, ref, blocked>>

(* The hedge of the other leg is over.                                     *)
MonHedged ==
    /\ MonAt("hedge")
    /\ Mutate(mon.id, Captured(mon.id))
    /\ mon' = ToNext(mon)
    /\ UNCHANGED <<is_real_trading, shard, scan, open_positions, chk, ref, blocked>>

(* The market order of the hedge failed: the trade stays as it is.         *)
MonHedgeFailed ==
    /\ MonAt("hedge")
    /\ mon' = ToNext(mon)
    /\ UNCHANGED <<is_real_trading, shard, active_trades, scan, open_positions, chk, ref, blocked>>

(* The stop loss is recorded after the cancels and before the closes.      *)
MonStopRecorded ==
    /\ MonAt("stop")
    /\ Mutate(mon.id, StopLossTriggered(mon.id))
    /\ mon' = [mon EXCEPT !.pc = "stop_close"]
    /\ UNCHANGED <<is_real_trading, shard, scan, open_positions, chk, ref, blocked>>

MonStopClosed ==
    /\ MonAt("stop_close")
    /\ mon' = ToNext(mon)
    /\ UNCHANGED <<is_real_trading, shard, active_trades, scan, open_positions, chk, ref, blocked>>

(* One of the get_mut calls above meets the Ref of check_exits.  The paper *)
(* rules call it whether or not there is a reason to leave.                *)
MonBlocks ==
    /\ \/ /\ MonAt("poll") \/ MonAt("hedge") \/ MonAt("force") \/ MonAt("stop")
          /\ WriteLocked(mon.id)
       \/ \E id \in Keys : Monitored(id) /\ ~HasExitOrders(id) /\ WriteLocked(id)
    /\ blocked' = TRUE
    /\ UNCHANGED <<is_real_trading, shard, active_trades, scan, open_positions, mon, chk, ref>>

MonDone ==
    /\ MonAt("next")
    /\ mon.ids = {}
    /\ mon' = [Idle EXCEPT !.pc = "done"]
    /\ UNCHANGED <<is_real_trading, shard, active_trades, scan, open_positions, chk, ref, blocked>>

Monitor ==
    \/ MonStart \/ MonDone \/ MonBlocks
    \/ \E id \in Ids : MonSkip(id) \/ MonPoll(id) \/ MonPaperExit(id)
    \/ MonBothFilled \/ MonOneFilled \/ MonForce \/ MonStopLoss \/ MonNothing
    \/ MonForced \/ MonHedged \/ MonHedgeFailed \/ MonStopRecorded \/ MonStopClosed

-----------------------------------------------------------------------------
(* check_exits                                                             *)

ChkAt(where) == ChkMayRun /\ chk.pc = where

(* join! polls the monitor first.                                          *)
ChkStart ==
    /\ ChkAt("start")
    /\ chk' = [pc |-> "next", ids |-> Keys, id |-> NONE]
    /\ UNCHANGED <<is_real_trading, shard, active_trades, scan, open_positions, mon, ref, blocked>>

ChkSkip(id) ==
    /\ ChkAt("next") /\ id \in chk.ids
    /\ id \in Keys => active_trades[id].status # "Exiting"
    /\ chk' = [chk EXCEPT !.ids = @ \ {id}]
    /\ UNCHANGED <<is_real_trading, shard, active_trades, scan, open_positions, mon, ref, blocked>>

(* Mutant: every trade of the list is closed.                              *)
ChkTakeAny(id) ==
    /\ ChkAt("next") /\ id \in chk.ids
    /\ id \in Keys
    /\ ref' = id
    /\ chk' = [pc |-> IF active_trades[id].exit_orders = {} THEN "close" ELSE "cancel",
               ids |-> chk.ids \ {id}, id |-> id]
    /\ UNCHANGED <<is_real_trading, shard, active_trades, scan, open_positions, mon, blocked>>

(* A trade that is Exiting: the Ref is taken, and what was read from it    *)
(* (the profit, the reason) is used after the awaits.                      *)
ChkTake(id) ==
    /\ ChkAt("next") /\ id \in chk.ids
    /\ id \in Keys /\ active_trades[id].status = "Exiting"
    /\ ref' = id
    /\ chk' = [pc |-> IF active_trades[id].exit_orders = {} THEN "close" ELSE "cancel",
               ids |-> chk.ids \ {id}, id |-> id]
    /\ UNCHANGED <<is_real_trading, shard, active_trades, scan, open_positions, mon, blocked>>

(* The cancels of the exit orders have returned; errors are ignored.       *)
ChkCancelled ==
    /\ ChkAt("cancel")
    /\ chk' = [chk EXCEPT !.pc = "close"]
    /\ UNCHANGED <<is_real_trading, shard, active_trades, scan, open_positions, mon, ref, blocked>>

(* close_trade returns Ok; on a trade the portfolio does not have it does  *)
(* nothing.                                                                *)
ChkCloseOk ==
    /\ ChkAt("close")
    /\ open_positions' = open_positions \ {chk.id}
    /\ chk' = [chk EXCEPT !.pc = "remove"]
    /\ UNCHANGED <<is_real_trading, shard, active_trades, scan, mon, ref, blocked>>

(* Mutant: the close is tried again at once.                               *)
ChkCloseErrRetries ==
    /\ ChkAt("close")
    /\ chk.id \in open_positions
    /\ chk' = [chk EXCEPT !.pc = "cancel"]
    /\ UNCHANGED <<is_real_trading, shard, active_trades, scan, open_positions, mon, ref, blocked>>

(* Its Redis write fails after the portfolio has changed: `?` leaves       *)
(* check_exits, the Ref is dropped and the trade stays in the map.         *)
ChkCloseErr ==
    /\ ChkAt("close")
    /\ chk.id \in open_positions
    /\ open_positions' = open_positions \ {chk.id}
    /\ chk' = [Idle EXCEPT !.pc = "done"]
    /\ ref' = NONE
    /\ UNCHANGED <<is_real_trading, shard, active_trades, scan, mon, blocked>>

(* active_trades.remove, while the Ref is alive.                           *)
ChkRemove ==
    /\ ChkAt("remove")
    /\ IF WriteLocked(chk.id)
       THEN blocked' = TRUE /\ UNCHANGED <<active_trades, chk, ref>>
       ELSE /\ active_trades' = Without(chk.id)
            /\ ref' = NONE
            /\ chk' = ToNext(chk)
            /\ UNCHANGED blocked
    /\ UNCHANGED <<is_real_trading, shard, scan, open_positions, mon>>

ChkDone ==
    /\ ChkAt("next")
    /\ chk.ids = {}
    /\ chk' = [Idle EXCEPT !.pc = "done"]
    /\ UNCHANGED <<is_real_trading, shard, active_trades, scan, open_positions, mon, ref, blocked>>

Check ==
    \/ ChkStart \/ ChkDone
    \/ \E id \in Ids : ChkSkip(id) \/ ChkTake(id)
    \/ ChkCancelled \/ ChkCloseOk \/ ChkCloseErr \/ ChkRemove

-----------------------------------------------------------------------------
(* join! returns; the loop starts again.                                   *)
JoinDone ==
    /\ pc = "join" /\ ~blocked
    /\ mon.pc = "done" /\ chk.pc = "done"
    /\ pc' = "pop"
    /\ mon' = Idle /\ chk' = Idle
    /\ UNCHANGED <<is_real_trading, shard, active_trades, opportunity, next_id,
                   open_positions, ref, blocked>>

Scan ==
    \/ PopOpportunity \/ QueueEmpty \/ SkipAndCleanup \/ EntryOk \/ BookTrade \/ JoinDone

Next == Scan \/ Monitor \/ Check

Spec == Init /\ [][Next]_vars

(* The runtime polls the task.  That calls to exchanges and Redis return   *)
(* is an assumption: none of them has a timeout in the demo client.        *)
Fairness == WF_vars(Scan) /\ WF_vars(Monitor) /\ WF_vars(Check)
FairSpec == Spec /\ Fairness

-----------------------------------------------------------------------------
(* "Mark trade as Exiting IMMEDIATELY to prevent duplicate symbol entries" *)
(* (monitor_active_positions): at no moment are there two entries of one   *)
(* symbol, a reservation counting as one.                                  *)
OneTradePerSymbol ==
    \A i, j \in Keys : active_trades[i].symbol = active_trades[j].symbol => i = j

(* The portfolio and the map agree: whatever is open on the books is still *)
(* watched, and a trade leaves the books only once it is Exiting.          *)
BooksMatchTable ==
    /\ open_positions \subseteq Keys
    /\ \A id \in Keys \ {PLACEHOLDER} :
          active_trades[id].status = "Active" => id \in open_positions \/ pc = "open"

(* An exit is never taken back: a trade of the map that is Exiting stays   *)
(* so, keeps its exit spread and its stop-loss mark, until it is removed.  *)
ExitIsFinal ==
    [][\A id \in Keys :
          id \in DOMAIN active_trades' =>
             LET old == active_trades[id]
                 new == active_trades'[id]
             IN /\ new.symbol = old.symbol
                /\ old.status = "Exiting" => new.status = "Exiting"
                /\ old.captured => new.captured
                /\ old.stop_loss_triggered => new.stop_loss_triggered]_vars

(* Every reservation is resolved, and every round of the loop comes to its *)
(* end unless the thread blocks itself on a shard lock: nothing else can   *)
(* stall the strategy, as long as the calls it awaits return.              *)
LoopGoesOn ==
    /\ PLACEHOLDER \in Keys ~> PLACEHOLDER \notin Keys
    /\ pc = "join" ~> (pc = "pop" \/ blocked)

(* "Run monitoring tasks in parallel (non-blocking)" (run_scanning_loop):  *)
(* the thread never waits for a lock that it holds itself.                 *)
NeverBlocked == ~blocked
=============================================================================
