------------------------------ MODULE Portfolio ------------------------------
(***************************************************************************)
(* PortfolioManager (strategy/portfolio.rs) with its PortfolioState        *)
(* (strategy/types.rs): the capital of the strategy, the trades that use   *)
(* it, and the two Redis keys other programs read.                         *)
(*                                                                         *)
(* A call changes the state in memory first, under the write lock, and     *)
(* only then talks to Redis: an entry in the trade log, the state key, the *)
(* metrics key.  Each of the three may fail and ends the call with an Err  *)
(* that undoes nothing.  Calls never overlap, since the strategy runner is *)
(* the only caller and holds the manager's own write lock for the whole    *)
(* call; a reader of Redis and a crash can come between any two steps.     *)
(*                                                                         *)
(* Amounts are whole numbers of the smallest unit: the rounding of f64     *)
(* sums is not modelled.                                                   *)
(***************************************************************************)
EXTENDS Integers, FiniteSetsExt

CONSTANTS
    Trades,           \* trade identifiers, each used once (UUIDs)
    Size,             \* position_size_usd of each trade
    STARTING,         \* starting_capital
    PROFITS,          \* the profits a close may report
    NULL              \* a Redis key that does not exist

ASSUME CapitalAssumption ==
    /\ Size \in [Trades -> Nat \ {0}]
    /\ STARTING \in Nat \ {0}
    /\ PROFITS \subseteq Int

(* A close never reports a loss larger than the position: actual_profit is *)
(* the position times a change of spread below 100 %.                      *)
ASSUME LossAssumption == \A t \in Trades, p \in PROFITS : Size[t] + p >= 0

VARIABLES
    mem,              \* PortfolioState
    used,             \* trades ever opened
    call,             \* "idle"; the next Redis command of the call; "crashed"
    result,           \* of the last call: "ok", "err" or, for the Ok of a
                      \* call that had nothing to do, "noop"
    rState,           \* the state key in Redis, or NULL
    rMetrics          \* the metrics key in Redis, or NULL

portfolioVars == <<mem, used, call, result, rState, rMetrics>>

(* PortfolioState::new.                                                    *)
Fresh == [available |-> STARTING, open |-> 0, pnl |-> 0, active |-> {},
          wins |-> 0, losses |-> 0, legOuts |-> 0, legOutLoss |-> 0]

(* get_portfolio_metrics: total_trades, the P&L, the capital, utilization  *)
(* and leg-outs; the ratios of these are left out.                         *)
MetricsOf(m) == [total |-> m.wins + m.losses, pnl |-> m.pnl,
                 available |-> m.available, open |-> m.open, legOuts |-> m.legOuts]

(* PortfolioManager::new has returned: both keys hold the fresh state.     *)
PortfolioInit ==
    /\ mem = Fresh
    /\ used = {}
    /\ call = "idle"
    /\ result = "ok"
    /\ rState = Fresh
    /\ rMetrics = MetricsOf(Fresh)

-----------------------------------------------------------------------------
(* Mutant: the capital check of open_trade is missing.                     *)
OpenTradeUnchecked(t) ==
    /\ call = "idle"
    /\ t \notin used
    /\ mem' = [mem EXCEPT !.available = @ - Size[t], !.open = @ + Size[t],
                          !.active = @ \cup {t}]
    /\ used' = used \cup {t}
    /\ call' = "log"
    /\ UNCHANGED <<result, rState, rMetrics>>

(* open_trade: the position must fit in the available capital (checked     *)
(* under the read lock and again under the write lock); the state in       *)
(* memory is changed before Redis is asked.                                *)
OpenTrade(t) ==
    /\ call = "idle"
    /\ t \notin used
    /\ Size[t] <= mem.available
    /\ mem' = [mem EXCEPT !.available = @ - Size[t], !.open = @ + Size[t],
                          !.active = @ \cup {t}]
    /\ used' = used \cup {t}
    /\ call' = "log"
    /\ UNCHANGED <<result, rState, rMetrics>>

OpenRefused(t) ==
    /\ call = "idle"
    /\ t \notin used
    /\ Size[t] > mem.available
    /\ result' = "err"
    /\ UNCHANGED <<mem, used, call, rState, rMetrics>>

(* Mutant: the profit is not returned to the available capital.            *)
CloseTradeForgetsProfit(t) ==
    /\ call = "idle"
    /\ t \in mem.active
    /\ \E profit \in PROFITS :
          mem' = [mem EXCEPT !.available = @ + Size[t], !.open = @ - Size[t],
                             !.pnl = @ + profit, !.active = @ \ {t},
                             !.wins = @ + 1]
    /\ call' = "log"
    /\ UNCHANGED <<used, result, rState, rMetrics>>

(* close_trade of a trade it knows.  A profit of zero is a loss; only the  *)
(* losing leg-outs are counted.                                            *)
CloseTrade(t) ==
    /\ call = "idle"
    /\ t \in mem.active
    /\ \E profit \in PROFITS, legOut \in BOOLEAN :
          LET lost == IF legOut /\ profit < 0 THEN 1 ELSE 0 IN
          mem' = [mem EXCEPT !.available = @ + Size[t] + profit, !.open = @ - Size[t],
                             !.pnl = @ + profit, !.active = @ \ {t},
                             !.wins = IF profit > 0 THEN @ + 1 ELSE @,
                             !.losses = IF profit > 0 THEN @ ELSE @ + 1,
                             !.legOuts = @ + lost,
                             !.legOutLoss = @ - lost * profit]
    /\ call' = "log"
    /\ UNCHANGED <<used, result, rState, rMetrics>>

(* close_trade of a trade it does not know, e.g. one closed by an earlier  *)
(* call that ended in Err: nothing happens.                                *)
CloseUnknown(t) ==
    /\ call = "idle"
    /\ t \in used \ mem.active
    /\ result' = "noop"
    /\ UNCHANGED <<mem, used, call, rState, rMetrics>>

-----------------------------------------------------------------------------
(* The Redis part of a call.  A failed command ends the call with Err; in  *)
(* PortfolioManager::new it ends the process.                              *)

RedisFails ==
    /\ call \in {"log", "state", "metrics", "new_state", "new_metrics"}
    /\ call' = IF call \in {"new_state", "new_metrics"} THEN "crashed" ELSE "idle"
    /\ result' = "err"
    /\ UNCHANGED <<mem, used, rState, rMetrics>>

(* log_trade_entry / log_trade_exit.                                       *)
LogTrade ==
    /\ call = "log"
    /\ call' = "state"
    /\ UNCHANGED <<mem, used, result, rState, rMetrics>>

(* Mutant: the state key is skipped.                                       *)
PersistNothing ==
    /\ call \in {"state", "new_state"}
    /\ call' = IF call = "state" THEN "metrics" ELSE "new_metrics"
    /\ UNCHANGED <<mem, used, result, rState, rMetrics>>

(* persist_state, the state key.                                           *)
PersistState ==
    /\ call \in {"state", "new_state"}
    /\ rState' = mem
    /\ call' = IF call = "state" THEN "metrics" ELSE "new_metrics"
    /\ UNCHANGED <<mem, used, result, rMetrics>>

(* persist_state, the metrics key.                                         *)
PersistMetrics ==
    /\ call \in {"metrics", "new_metrics"}
    /\ rMetrics' = MetricsOf(mem)
    /\ call' = "idle"
    /\ result' = "ok"
    /\ UNCHANGED <<mem, used, rState>>

-----------------------------------------------------------------------------
(* The process dies, in the middle of a call or between two.               *)
Crash ==
    /\ call # "crashed"
    /\ call' = "crashed"
    /\ UNCHANGED <<mem, used, result, rState, rMetrics>>

(* Mutant: a restart keeps the keys of the previous run.                   *)
RestartKeepsKeys ==
    /\ call = "crashed"
    /\ mem' = Fresh
    /\ call' = "new_state"
    /\ UNCHANGED <<used, result, rState, rMetrics>>

(* PortfolioManager::new of the next run: a fresh state, whatever was      *)
(* open; the old keys are deleted before the new ones are written.         *)
Restart ==
    /\ call = "crashed"
    /\ mem' = Fresh
    /\ rState' = NULL
    /\ rMetrics' = NULL
    /\ call' = "new_state"
    /\ UNCHANGED <<used, result>>

PortfolioNext ==
    \/ \E t \in Trades : \/ OpenTrade(t) \/ OpenRefused(t)
                         \/ CloseTrade(t) \/ CloseUnknown(t)
    \/ LogTrade \/ PersistState \/ PersistMetrics \/ RedisFails
    \/ Crash \/ Restart

PortfolioSpec == PortfolioInit /\ [][PortfolioNext]_portfolioVars

-----------------------------------------------------------------------------
States == [available : Int, open : Int, pnl : Int, active : SUBSET Trades,
           wins : Nat, losses : Nat, legOuts : Nat, legOutLoss : Int]

Metrics == [total : Nat, pnl : Int, available : Int, open : Int, legOuts : Nat]

ASSUME NullAssumption == NULL \notin States \cup Metrics

PortfolioTypeOK ==
    /\ mem \in States
    /\ used \subseteq Trades
    /\ mem.active \subseteq used
    /\ call \in {"idle", "log", "state", "metrics", "new_state", "new_metrics", "crashed"}
    /\ result \in {"ok", "err", "noop"}
    /\ rState \in States \cup {NULL}
    /\ rMetrics \in Metrics \cup {NULL}

Balanced(m) == m.available + m.open = STARTING + m.pnl

(* Whatever fails, no money appears or disappears: what is available plus  *)
(* what is in open positions is the starting capital plus the P&L, in      *)
(* memory and in the state another program reads from Redis.               *)
CapitalConserved ==
    /\ Balanced(mem)
    /\ rState # NULL => Balanced(rState)

(* The available capital is never negative, so a position is only opened   *)
(* with money that is there.                                               *)
NeverOverdrawn == mem.available >= 0

(* A reader of Redis never finds metrics that count a trade the state key  *)
(* does not know to be closed: persist_state writes the state first.       *)
MetricsNotAhead ==
    rMetrics # NULL =>
        rState # NULL /\ rMetrics.total <= rState.wins + rState.losses

(* A call that returns Ok after changing the portfolio has brought both    *)
(* keys up to date; only the Ok of a close that found nothing to close may *)
(* leave them as an earlier failure left them.                             *)
OkIsPersisted ==
    (call = "idle" /\ result = "ok") => rState = mem /\ rMetrics = MetricsOf(mem)
=============================================================================
