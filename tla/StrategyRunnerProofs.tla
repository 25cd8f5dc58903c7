------------------------- MODULE StrategyRunnerProofs -------------------------
(***************************************************************************)
(* Proofs about the runner's trade table, for any symbols, shards and      *)
(* number of trades: one trade per symbol, books and table agree, and an   *)
(* exit is never taken back, however the monitor and check_exits           *)
(* interleave.  Then about the Portfolio that keeps the books of it.       *)
(***************************************************************************)
EXTENDS StrategyRunner, Portfolio, TLAPS

TradeStates ==
    [symbol : Symbols, status : {"Active", "Exiting"}, captured : BOOLEAN,
     stop_loss_triggered : BOOLEAN, exit_orders : SUBSET {"long", "short"}]

MonStates ==
    [pc : {"start", "next", "poll", "hedge", "force", "stop", "stop_close", "done"},
     ids : SUBSET Ids, id : Ids \cup {NONE}]

ChkStates ==
    [pc : {"start", "next", "cancel", "close", "remove", "done"},
     ids : SUBSET Ids, id : Ids \cup {NONE}]

TypeOK ==
    /\ is_real_trading \in BOOLEAN
    /\ shard \in [Ids -> Shards]
    /\ active_trades \in [Keys -> TradeStates] /\ Keys \subseteq Ids
    /\ pc \in {"pop", "execute", "open", "join"}
    /\ opportunity \in Symbols
    /\ next_id \in 1 .. MAX_TRADES + 1
    /\ open_positions \subseteq TradeIds
    /\ mon \in MonStates
    /\ chk \in ChkStates
    /\ ref \in Ids \cup {NONE}
    /\ blocked \in BOOLEAN

(* The reservation is there exactly while an opportunity is executed and   *)
(* is for its symbol; the trades of the map have the ids given so far.     *)
Reserved ==
    /\ PLACEHOLDER \in Keys <=> pc = "execute"
    /\ pc = "execute" => active_trades[PLACEHOLDER].symbol = opportunity
    /\ pc \in {"execute", "open"} => next_id <= MAX_TRADES
    /\ \A id \in Keys : id < next_id \/ (pc = "open" /\ id = next_id)
    /\ pc = "open" => next_id \in Keys

(* The futures run only in the join.  From ChkTake to the removal          *)
(* check_exits holds the Ref of a trade that is in the map and Exiting,    *)
(* and no other Ref ever lives across an await.                            *)
Futures ==
    /\ pc # "join" => mon = Idle /\ chk = Idle
    /\ chk.pc \in {"cancel", "close", "remove"} =>
          ref = chk.id /\ chk.id \in Keys /\ active_trades[chk.id].status = "Exiting"
    /\ chk.pc \notin {"cancel", "close", "remove"} => ref = NONE

(* What is open on the books is in the map; a trade of the map that is     *)
(* Active is on the books, except the one whose open_trade comes next.     *)
Books ==
    /\ open_positions \subseteq Keys
    /\ \A id \in Keys \ {PLACEHOLDER} :
          active_trades[id].status = "Active" =>
             id \in open_positions \/ (pc = "open" /\ id = next_id)

IInv == TypeOK /\ Reserved /\ Futures /\ OneTradePerSymbol /\ Books

USE RunnerAssumption

-----------------------------------------------------------------------------
(* What the futures' records may become.                                   *)
LEMMA IdleType == Idle \in MonStates /\ Idle \in ChkStates /\ Idle.pc = "start"
                  /\ [Idle EXCEPT !.pc = "done"] \in MonStates
                  /\ [Idle EXCEPT !.pc = "done"] \in ChkStates
                  /\ [Idle EXCEPT !.pc = "done"].pc = "done"
  BY DEF Idle, MonStates, ChkStates

LEMMA InitIInv == Init => IInv
<1> SUFFICES ASSUME Init PROVE IInv
  OBVIOUS
<1>1. Keys = {}
  BY DEF Init, Keys
<1>2. active_trades \in [Keys -> TradeStates]
  BY <1>1 DEF Init, Keys
<1>3. next_id \in 1 .. MAX_TRADES + 1
  BY DEF Init
<1>4. TypeOK
  BY <1>1, <1>2, <1>3, IdleType DEF Init, TypeOK
<1>5. Reserved /\ OneTradePerSymbol /\ Books
  BY <1>1 DEF Init, Reserved, OneTradePerSymbol, Books
<1>6. Futures
  BY IdleType DEF Init, Futures
<1> QED BY <1>4, <1>5, <1>6 DEF IInv

-----------------------------------------------------------------------------
(* A step of the monitor that leaves the table alone.                      *)
LEMMA MonitorOnly ==
    ASSUME IInv, pc = "join", mon' \in MonStates, blocked' \in BOOLEAN,
           UNCHANGED <<is_real_trading, shard, active_trades, scan, open_positions, chk, ref>>
    PROVE  IInv'
<1> USE DEF scan
<1>1. TypeOK'
  BY DEF IInv, TypeOK, Keys
<1>2. Reserved' /\ OneTradePerSymbol' /\ Books'
  BY DEF IInv, Reserved, OneTradePerSymbol, Books, Keys
<1>3. Futures'
  BY DEF IInv, Futures, Keys
<1> QED BY <1>1, <1>2, <1>3 DEF IInv

(* A step of check_exits that leaves the table and the books alone.        *)
LEMMA CheckOnly ==
    ASSUME IInv, pc = "join", chk' \in ChkStates, ref' \in Ids \cup {NONE},
           chk'.pc \in {"cancel", "close", "remove"} =>
              ref' = chk'.id /\ chk'.id \in Keys /\ active_trades[chk'.id].status = "Exiting",
           chk'.pc \notin {"cancel", "close", "remove"} => ref' = NONE,
           UNCHANGED <<is_real_trading, shard, active_trades, scan, open_positions, mon, blocked>>
    PROVE  IInv'
<1> USE DEF scan
<1>1. TypeOK'
  BY DEF IInv, TypeOK, Keys
<1>2. Reserved' /\ OneTradePerSymbol' /\ Books'
  BY DEF IInv, Reserved, OneTradePerSymbol, Books, Keys
<1>3. Futures'
  BY DEF IInv, Futures, Keys
<1> QED BY <1>1, <1>2, <1>3 DEF IInv

(* What the monitor writes through get_mut: the trade is Exiting and       *)
(* otherwise keeps what it had, or has more of it.                         *)
LEMMA Written ==
    ASSUME TypeOK, NEW id \in Keys,
           NEW t \in {Exiting(id), Captured(id), StopLossTriggered(id)}
    PROVE  /\ t \in TradeStates
           /\ t.symbol = active_trades[id].symbol
           /\ t.status = "Exiting"
           /\ active_trades[id].captured => t.captured
           /\ active_trades[id].stop_loss_triggered => t.stop_loss_triggered
<1>1. active_trades[id] \in TradeStates
  BY DEF TypeOK
<1>2. /\ Exiting(id) \in TradeStates
      /\ Exiting(id).symbol = active_trades[id].symbol
      /\ Exiting(id).status = "Exiting"
      /\ Exiting(id).captured = active_trades[id].captured
      /\ Exiting(id).stop_loss_triggered = active_trades[id].stop_loss_triggered
  BY <1>1 DEF Exiting, TradeStates
<1>3. /\ Captured(id) \in TradeStates
      /\ Captured(id).symbol = active_trades[id].symbol
      /\ Captured(id).status = "Exiting"
      /\ Captured(id).captured
      /\ Captured(id).stop_loss_triggered = active_trades[id].stop_loss_triggered
  BY <1>2 DEF Captured, TradeStates
<1>4. /\ StopLossTriggered(id) \in TradeStates
      /\ StopLossTriggered(id).symbol = active_trades[id].symbol
      /\ StopLossTriggered(id).status = "Exiting"
      /\ StopLossTriggered(id).captured
      /\ StopLossTriggered(id).stop_loss_triggered
  BY <1>3 DEF StopLossTriggered, TradeStates
<1> QED BY <1>2, <1>3, <1>4

(* A step of the monitor that writes through get_mut, whether or not the   *)
(* trade is still there.                                                   *)
LEMMA MonitorWrites ==
    ASSUME IInv, pc = "join", mon' \in MonStates,
           NEW id \in Ids \cup {NONE},
           NEW t \in {Exiting(id), Captured(id), StopLossTriggered(id)},
           Mutate(id, t),
           UNCHANGED <<is_real_trading, shard, scan, open_positions, chk, ref, blocked>>
    PROVE  IInv'
<1> USE DEF scan
<1>1. CASE id \notin Keys
  <2>1. active_trades' = active_trades
    BY <1>1 DEF Mutate
  <2> QED BY <2>1, MonitorOnly DEF IInv, TypeOK
<1>2. CASE id \in Keys
  <2>0. active_trades \in [Keys -> TradeStates] /\ Keys \subseteq Ids
    BY DEF IInv, TypeOK
  <2>1. t \in TradeStates /\ t.symbol = active_trades[id].symbol /\ t.status = "Exiting"
    BY <1>2, Written DEF IInv
  <2>2. active_trades' = [k \in Keys |-> IF k = id THEN t ELSE active_trades[k]]
    BY <1>2 DEF Mutate, With
  <2>3. Keys' = Keys
    BY <2>2 DEF Keys
  <2>4. active_trades' \in [Keys' -> TradeStates]
    BY <2>0, <2>1, <2>2, <2>3
  <2>5. \A k \in Keys : active_trades'[k].symbol = active_trades[k].symbol
    BY <2>1, <2>2
  <2>6. \A k \in Keys : \/ active_trades'[k].status = "Exiting"
                        \/ active_trades'[k].status = active_trades[k].status
    BY <2>1, <2>2
  <2>7. TypeOK'
    BY <2>3, <2>4 DEF IInv, TypeOK
  <2>8. Reserved'
    BY <2>3, <2>5 DEF IInv, Reserved
  <2>9. Futures'
    BY <2>3, <2>6 DEF IInv, Futures
  <2>10. OneTradePerSymbol'
    <3> SUFFICES ASSUME NEW i \in Keys, NEW j \in Keys,
                        active_trades'[i].symbol = active_trades'[j].symbol
                 PROVE  i = j
      BY <2>3 DEF OneTradePerSymbol
    <3> QED BY <2>5 DEF IInv, OneTradePerSymbol
  <2>11. Books'
    BY <2>3, <2>6 DEF IInv, Books
  <2> QED BY <2>7, <2>8, <2>9, <2>10, <2>11 DEF IInv
<1> QED BY <1>1, <1>2

LEMMA MonitorStep == ASSUME IInv, Monitor PROVE IInv'
<1> USE DEF MonAt, MonMayRun
<1>0. /\ mon \in MonStates /\ blocked \in BOOLEAN /\ Keys \subseteq Ids
      /\ \A w \in {"next", "poll", "hedge", "force", "stop", "stop_close", "done"} :
            [mon EXCEPT !.pc = w] \in MonStates
      /\ \A S \in SUBSET Ids : [mon EXCEPT !.ids = S] \in MonStates
      /\ ToNext(mon) \in MonStates
      /\ mon.ids \subseteq Ids /\ mon.id \in Ids \cup {NONE}
  BY DEF IInv, TypeOK, MonStates, ToNext
<1>1. CASE MonStart
  BY <1>0, <1>1, MonitorOnly DEF MonStart, MonStates
<1>2. CASE MonDone
  BY <1>0, <1>2, IdleType, MonitorOnly DEF MonDone
<1>3. CASE MonBlocks
  <2>1. pc = "join" /\ mon' = mon /\ blocked' = TRUE
        /\ UNCHANGED <<is_real_trading, shard, active_trades, scan, open_positions, chk, ref>>
    BY <1>3 DEF MonBlocks, Monitored
  <2> QED BY <1>0, <2>1, MonitorOnly
<1>4. CASE \E id \in Ids : MonSkip(id) \/ MonPoll(id) \/ MonPaperExit(id)
  <2>1. PICK id \in Ids : MonSkip(id) \/ MonPoll(id) \/ MonPaperExit(id)
    BY <1>4
  <2>2. CASE MonSkip(id)
    BY <1>0, <2>2, MonitorOnly DEF MonSkip, Monitored
  <2>3. CASE MonPoll(id)
    <3>1. [pc |-> "poll", ids |-> mon.ids \ {id}, id |-> id] \in MonStates
      BY <1>0 DEF MonStates
    <3> QED BY <1>0, <2>3, <3>1, MonitorOnly DEF MonPoll, Monitored
  <2>4. CASE MonPaperExit(id)
    <3>1. pc = "join" /\ mon' \in MonStates /\ Mutate(id, Captured(id))
          /\ UNCHANGED <<is_real_trading, shard, scan, open_positions, chk, ref, blocked>>
      BY <1>0, <2>4 DEF MonPaperExit, Monitored
    <3> QED BY <3>1, MonitorWrites
  <2> QED BY <2>1, <2>2, <2>3, <2>4
<1>5. CASE MonBothFilled
  <2>1. pc = "join" /\ mon' \in MonStates /\ Mutate(mon.id, Captured(mon.id))
        /\ UNCHANGED <<is_real_trading, shard, scan, open_positions, chk, ref, blocked>>
    BY <1>0, <1>5 DEF MonBothFilled
  <2> QED BY <1>0, <2>1, MonitorWrites
<1>6. CASE MonOneFilled
  <2>1. pc = "join" /\ mon' \in MonStates /\ Mutate(mon.id, Exiting(mon.id))
        /\ UNCHANGED <<is_real_trading, shard, scan, open_positions, chk, ref, blocked>>
    BY <1>0, <1>6 DEF MonOneFilled
  <2> QED BY <1>0, <2>1, MonitorWrites
<1>7. CASE MonForce \/ MonStopLoss \/ MonNothing \/ MonHedgeFailed \/ MonStopClosed
  BY <1>0, <1>7, MonitorOnly
     DEF MonForce, MonStopLoss, MonNothing, MonHedgeFailed, MonStopClosed
<1>8. CASE MonForced \/ MonHedged
  <2>1. pc = "join" /\ mon' \in MonStates /\ Mutate(mon.id, Captured(mon.id))
        /\ UNCHANGED <<is_real_trading, shard, scan, open_positions, chk, ref, blocked>>
    BY <1>0, <1>8 DEF MonForced, MonHedged
  <2> QED BY <1>0, <2>1, MonitorWrites
<1>9. CASE MonStopRecorded
  <2>1. pc = "join" /\ mon' \in MonStates /\ Mutate(mon.id, StopLossTriggered(mon.id))
        /\ UNCHANGED <<is_real_trading, shard, scan, open_positions, chk, ref, blocked>>
    BY <1>0, <1>9 DEF MonStopRecorded
  <2> QED BY <1>0, <2>1, MonitorWrites
<1> QED BY <1>1, <1>2, <1>3, <1>4, <1>5, <1>6, <1>7, <1>8, <1>9 DEF Monitor

-----------------------------------------------------------------------------
(* The steps of check_exits.                                               *)
LEMMA CheckStep == ASSUME IInv, Check PROVE IInv'
<1> USE DEF ChkAt, ChkMayRun
<1>0. /\ chk \in ChkStates /\ ref \in Ids \cup {NONE} /\ Keys \subseteq Ids
      /\ chk.ids \subseteq Ids
      /\ \A S \in SUBSET Ids : [chk EXCEPT !.ids = S] \in ChkStates
                             /\ [chk EXCEPT !.ids = S].pc = chk.pc
      /\ \A w \in {"close", "remove"} : /\ [chk EXCEPT !.pc = w] \in ChkStates
                                       /\ [chk EXCEPT !.pc = w].pc = w
                                       /\ [chk EXCEPT !.pc = w].id = chk.id
  BY DEF IInv, TypeOK, ChkStates
<1>1. /\ chk.pc \in {"cancel", "close", "remove"} =>
            ref = chk.id /\ chk.id \in Keys /\ active_trades[chk.id].status = "Exiting"
      /\ chk.pc \notin {"cancel", "close", "remove"} => ref = NONE
  BY DEF IInv, Futures
<1>2. CASE ChkStart
  <2>1. [pc |-> "next", ids |-> Keys, id |-> NONE] \in ChkStates
    BY <1>0 DEF ChkStates
  <2> QED BY <1>0, <1>1, <1>2, <2>1, CheckOnly DEF ChkStart
<1>3. CASE ChkDone
  BY <1>0, <1>1, <1>3, IdleType, CheckOnly DEF ChkDone
<1>4. CASE \E id \in Ids : ChkSkip(id) \/ ChkTake(id)
  <2>1. PICK id \in Ids : ChkSkip(id) \/ ChkTake(id)
    BY <1>4
  <2>2. CASE ChkSkip(id)
    BY <1>0, <1>1, <2>2, CheckOnly DEF ChkSkip
  <2>3. CASE ChkTake(id)
    <3>1. chk' \in ChkStates /\ chk'.pc \in {"cancel", "close"} /\ chk'.id = id
      BY <1>0, <2>3 DEF ChkTake, ChkStates
    <3>2. id \in Keys /\ active_trades[id].status = "Exiting" /\ ref' = id /\ pc = "join"
          /\ UNCHANGED <<is_real_trading, shard, active_trades, scan, open_positions, mon, blocked>>
      BY <2>3 DEF ChkTake
    <3> QED BY <3>1, <3>2, CheckOnly
  <2> QED BY <2>1, <2>2, <2>3
<1>5. CASE ChkCancelled
  <2>1. chk' \in ChkStates /\ chk'.pc = "close" /\ chk'.id = chk.id /\ pc = "join"
        /\ ref' = ref /\ chk.pc = "cancel"
        /\ UNCHANGED <<is_real_trading, shard, active_trades, scan, open_positions, mon, blocked>>
    BY <1>0, <1>5 DEF ChkCancelled
  <2> QED BY <1>0, <1>1, <2>1, CheckOnly
<1>6. CASE ChkCloseOk \/ ChkCloseErr
  <2> USE DEF scan
  <2>1. /\ pc = "join" /\ chk.pc = "close"
        /\ open_positions' = open_positions \ {chk.id}
        /\ UNCHANGED <<is_real_trading, shard, active_trades, scan, mon, blocked>>
    BY <1>6 DEF ChkCloseOk, ChkCloseErr
  <2>2. chk' \in ChkStates /\ ref' \in Ids \cup {NONE}
    BY <1>0, <1>6, IdleType DEF ChkCloseOk, ChkCloseErr
  <2>3. TypeOK'
    BY <2>1, <2>2 DEF IInv, TypeOK, Keys
  <2>4. Reserved' /\ OneTradePerSymbol'
    BY <2>1 DEF IInv, Reserved, OneTradePerSymbol, Keys
  <2>5. Futures'
    BY <1>0, <1>1, <1>6, <2>1, IdleType DEF ChkCloseOk, ChkCloseErr, Futures, Keys
  <2>6. Books'
    BY <1>1, <2>1 DEF IInv, Books, Keys
  <2> QED BY <2>3, <2>4, <2>5, <2>6 DEF IInv
<1>7. CASE ChkRemove
  (* The removal always meets the Ref: its shard is the trade's own.       *)
  <2>1. ref = chk.id /\ chk.id \in Keys /\ chk.id # NONE
    BY <1>0, <1>1, <1>7 DEF ChkRemove, Ids, TradeIds, PLACEHOLDER, NONE
  <2>2. WriteLocked(chk.id)
    BY <2>1 DEF WriteLocked
  <2>3. /\ blocked' = TRUE /\ pc = "join" /\ mon' = mon
        /\ UNCHANGED <<is_real_trading, shard, active_trades, scan, open_positions, chk, ref>>
    BY <1>7, <2>2 DEF ChkRemove
  <2> QED BY <2>3, MonitorOnly DEF IInv, TypeOK
<1> QED BY <1>2, <1>3, <1>4, <1>5, <1>6, <1>7 DEF Check

-----------------------------------------------------------------------------
(* The steps of the loop outside the join.                                 *)
LEMMA ScanStep == ASSUME IInv, Scan PROVE IInv'
<1>0. /\ active_trades \in [Keys -> TradeStates] /\ Keys \subseteq Ids
      /\ next_id \in 1 .. MAX_TRADES + 1 /\ PLACEHOLDER = 0 /\ PLACEHOLDER \in Ids
      /\ \A id \in Keys : active_trades[id] \in TradeStates
      /\ \A id \in Keys : id \in Nat
  BY DEF IInv, TypeOK, PLACEHOLDER, Ids, TradeIds
<1>00. \A s \in Symbols, exits \in SUBSET {"long", "short"} :
          /\ Trade(s, exits) \in TradeStates
          /\ Trade(s, exits).symbol = s
          /\ Trade(s, exits).status = "Active"
  BY DEF Trade, TradeStates
<1>1. CASE PopOpportunity
  <2>1. CASE Taken(opportunity')
    <3>1. /\ pc = "pop" /\ pc' = "join" /\ opportunity' \in Symbols
          /\ UNCHANGED <<is_real_trading, shard, active_trades, next_id, open_positions,
                         mon, chk, ref, blocked>>
      BY <1>1, <2>1 DEF PopOpportunity
    <3>2. TypeOK'
      BY <3>1 DEF IInv, TypeOK, Keys
    <3>3. Reserved' /\ Futures' /\ OneTradePerSymbol' /\ Books'
      BY <3>1, IdleType DEF IInv, Reserved, Futures, OneTradePerSymbol, Books, Keys
    <3> QED BY <3>2, <3>3 DEF IInv
  <2>2. CASE ~Taken(opportunity')
    <3>0. PICK t : t = Trade(opportunity', {})
      OBVIOUS
    <3>1. /\ pc = "pop" /\ pc' = "execute" /\ opportunity' \in Symbols
          /\ next_id <= MAX_TRADES
          /\ active_trades' = [k \in Keys \cup {PLACEHOLDER} |->
                                  IF k = PLACEHOLDER THEN t ELSE active_trades[k]]
          /\ UNCHANGED <<is_real_trading, shard, next_id, open_positions,
                         mon, chk, ref, blocked>>
      BY <1>1, <2>2, <3>0 DEF PopOpportunity, With
    <3>2. t \in TradeStates /\ t.symbol = opportunity' /\ t.status = "Active"
      BY <1>00, <3>0, <3>1
    <3>3. PLACEHOLDER \notin Keys
      BY <3>1 DEF IInv, Reserved
    <3>4. Keys' = Keys \cup {PLACEHOLDER}
      BY <3>1 DEF Keys
    <3>5. /\ active_trades'[PLACEHOLDER] = t
          /\ \A k \in Keys : active_trades'[k] = active_trades[k]
      BY <3>1, <3>3
    <3>6. \A k \in Keys : active_trades[k].symbol # opportunity'
      BY <1>0, <2>2 DEF Taken, TradeStates
    <3>7. TypeOK'
      <4>1. active_trades' \in [Keys' -> TradeStates]
        BY <1>0, <3>1, <3>2, <3>4
      <4> QED BY <1>0, <3>1, <3>4, <4>1 DEF IInv, TypeOK
    <3>8. Reserved'
      BY <1>0, <3>1, <3>2, <3>4, <3>5 DEF IInv, Reserved
    <3>9. Futures'
      BY <3>1, IdleType DEF IInv, Futures
    <3>10. OneTradePerSymbol'
      <4> SUFFICES ASSUME NEW i \in Keys', NEW j \in Keys',
                          active_trades'[i].symbol = active_trades'[j].symbol
                   PROVE  i = j
        BY DEF OneTradePerSymbol
      <4>1. CASE i \in Keys /\ j \in Keys
        BY <3>5, <4>1 DEF IInv, OneTradePerSymbol
      <4>2. CASE i = PLACEHOLDER \/ j = PLACEHOLDER
        BY <3>2, <3>4, <3>5, <3>6, <4>2
      <4> QED BY <3>4, <4>1, <4>2
    <3>11. Books'
      BY <3>1, <3>4, <3>5 DEF IInv, Books
    <3> QED BY <3>7, <3>8, <3>9, <3>10, <3>11 DEF IInv
  <2> QED BY <2>1, <2>2
<1>2. CASE QueueEmpty
  <2>1. TypeOK'
    BY <1>2 DEF IInv, TypeOK, Keys, QueueEmpty
  <2>2. Reserved' /\ Futures' /\ OneTradePerSymbol' /\ Books'
    BY <1>2, IdleType
       DEF IInv, Reserved, Futures, OneTradePerSymbol, Books, Keys, QueueEmpty
  <2> QED BY <2>1, <2>2 DEF IInv
<1>3. CASE SkipAndCleanup
  <2>1. /\ pc = "execute" /\ pc' = "join"
        /\ active_trades' = [k \in Keys \ {PLACEHOLDER} |-> active_trades[k]]
        /\ UNCHANGED <<is_real_trading, shard, opportunity, next_id, open_positions,
                       mon, chk, ref, blocked>>
    BY <1>3 DEF SkipAndCleanup, Without, Restrict
  <2>2. Keys' = Keys \ {PLACEHOLDER}
    BY <2>1 DEF Keys
  <2>3. \A k \in Keys' : active_trades'[k] = active_trades[k]
    BY <2>1, <2>2
  <2>4. TypeOK'
    <3>1. active_trades' \in [Keys' -> TradeStates]
      BY <1>0, <2>1, <2>2
    <3> QED BY <1>0, <2>1, <2>2, <3>1 DEF IInv, TypeOK
  <2>5. Reserved'
    BY <1>0, <2>1, <2>2 DEF IInv, Reserved
  <2>6. Futures'
    BY <2>1, IdleType DEF IInv, Futures
  <2>7. OneTradePerSymbol'
    <3> SUFFICES ASSUME NEW i \in Keys', NEW j \in Keys',
                        active_trades'[i].symbol = active_trades'[j].symbol
                 PROVE  i = j
      BY DEF OneTradePerSymbol
    <3> QED BY <2>2, <2>3 DEF IInv, OneTradePerSymbol
  <2>8. Books'
    <3>1. PLACEHOLDER \notin open_positions
      BY <1>0 DEF IInv, TypeOK, TradeIds
    <3> QED BY <2>1, <2>2, <2>3, <3>1 DEF IInv, Books
  <2> QED BY <2>4, <2>5, <2>6, <2>7, <2>8 DEF IInv
<1>4. CASE EntryOk
  <2>1. PICK exits \in SUBSET {"long", "short"} :
           active_trades' = [k \in (Keys \ {PLACEHOLDER}) \cup {next_id} |->
                               IF k = next_id THEN Trade(opportunity, exits)
                               ELSE active_trades[k]]
    BY <1>4 DEF EntryOk
  <2>2. PICK t : t = Trade(opportunity, exits)
    OBVIOUS
  <2>3. /\ pc = "execute" /\ pc' = "open"
        /\ UNCHANGED <<is_real_trading, shard, opportunity, next_id, open_positions,
                       mon, chk, ref, blocked>>
    BY <1>4 DEF EntryOk
  <2>4. t \in TradeStates /\ t.symbol = opportunity /\ t.status = "Active"
    BY <1>00, <2>2 DEF IInv, TypeOK
  <2>5. /\ next_id \notin Keys /\ next_id \in Ids /\ next_id # PLACEHOLDER
        /\ PLACEHOLDER \in Keys /\ active_trades[PLACEHOLDER].symbol = opportunity
    BY <1>0, <2>3 DEF IInv, Reserved, Ids, TradeIds
  <2>6. Keys' = (Keys \ {PLACEHOLDER}) \cup {next_id}
    BY <2>1 DEF Keys
  <2>7. /\ active_trades'[next_id] = t
        /\ \A k \in Keys \ {PLACEHOLDER} : active_trades'[k] = active_trades[k]
    BY <2>1, <2>2, <2>5
  <2>8. TypeOK'
    <3>1. active_trades' \in [Keys' -> TradeStates]
      BY <1>0, <2>1, <2>2, <2>4, <2>6
    <3> QED BY <1>0, <2>3, <2>5, <2>6, <3>1 DEF IInv, TypeOK
  <2>9. Reserved'
    BY <1>0, <2>3, <2>5, <2>6 DEF IInv, Reserved
  <2>10. Futures'
    BY <2>3, IdleType DEF IInv, Futures
  <2>11. OneTradePerSymbol'
    <3> SUFFICES ASSUME NEW i \in Keys', NEW j \in Keys',
                        active_trades'[i].symbol = active_trades'[j].symbol
                 PROVE  i = j
      BY DEF OneTradePerSymbol
    <3>1. CASE i # next_id /\ j # next_id
      BY <2>6, <2>7, <3>1 DEF IInv, OneTradePerSymbol
    <3>2. \A k \in Keys \ {PLACEHOLDER} : active_trades'[k].symbol # opportunity
      BY <2>5, <2>7 DEF IInv, OneTradePerSymbol
    <3>3. CASE i = next_id \/ j = next_id
      BY <2>4, <2>6, <2>7, <3>2, <3>3
    <3> QED BY <3>1, <3>3
  <2>12. Books'
    <3>1. PLACEHOLDER \notin open_positions
      BY <1>0 DEF IInv, TypeOK, TradeIds
    <3> QED BY <2>3, <2>6, <2>7, <3>1 DEF IInv, Books
  <2> QED BY <2>8, <2>9, <2>10, <2>11, <2>12 DEF IInv
<1>5. CASE BookTrade
  <2>1. /\ pc = "open" /\ pc' = "join" /\ next_id' = next_id + 1
        /\ open_positions' = open_positions \cup {next_id}
        /\ UNCHANGED <<is_real_trading, shard, active_trades, opportunity, mon, chk, ref, blocked>>
    BY <1>5 DEF BookTrade
  <2>2. Keys' = Keys
    BY <2>1 DEF Keys
  <2>3. next_id \in Keys /\ next_id <= MAX_TRADES /\ next_id \in TradeIds
    BY <1>0, <2>1 DEF IInv, Reserved, TradeIds
  <2>4. next_id' \in 1 .. MAX_TRADES + 1
    BY <1>0, <2>1, <2>3
  <2>5. TypeOK'
    BY <2>1, <2>2, <2>3, <2>4 DEF IInv, TypeOK
  <2>6. Reserved'
    BY <1>0, <2>1, <2>2 DEF IInv, Reserved
  <2>7. Futures' /\ OneTradePerSymbol'
    BY <2>1, <2>2, IdleType DEF IInv, Futures, OneTradePerSymbol
  <2>8. Books'
    BY <2>1, <2>2, <2>3 DEF IInv, Books
  <2> QED BY <2>5, <2>6, <2>7, <2>8 DEF IInv
<1>6. CASE JoinDone
  <2>1. TypeOK'
    BY <1>6, IdleType DEF IInv, TypeOK, Keys, JoinDone
  <2>2. Reserved' /\ OneTradePerSymbol' /\ Books'
    BY <1>6 DEF IInv, Reserved, OneTradePerSymbol, Books, Keys, JoinDone
  <2>3. Futures'
    BY <1>6, IdleType DEF IInv, Futures, JoinDone
  <2> QED BY <2>1, <2>2, <2>3 DEF IInv
<1> QED BY <1>1, <1>2, <1>3, <1>4, <1>5, <1>6 DEF Scan

LEMMA NextIInv == IInv /\ [Next]_vars => IInv'
<1> SUFFICES ASSUME IInv, [Next]_vars PROVE IInv'
  OBVIOUS
<1>1. CASE Next
  BY <1>1, ScanStep, MonitorStep, CheckStep DEF Next
<1>2. CASE UNCHANGED vars
  <2>1. TypeOK' /\ Futures'
    BY <1>2 DEF vars, IInv, TypeOK, Futures, Keys
  <2>2. Reserved' /\ OneTradePerSymbol' /\ Books'
    BY <1>2 DEF vars, IInv, Reserved, OneTradePerSymbol, Books, Keys
  <2> QED BY <2>1, <2>2 DEF IInv
<1> QED BY <1>1, <1>2

(* The runner's table is consistent at every await point, for any symbols, *)
(* any spread of the ids over the shards and any number of trades.         *)
THEOREM InductiveInvariant == Spec => []IInv
<1> QED BY InitIInv, NextIInv, PTL DEF Spec

(* execute_opportunity's duplicate check and the reservation it makes are  *)
(* enough: there are never two entries of one symbol.                      *)
THEOREM SymbolTradedOnce == Spec => []OneTradePerSymbol
<1>1. IInv => OneTradePerSymbol
  BY DEF IInv
<1> QED BY <1>1, InductiveInvariant, PTL

(* Whatever open_trade and close_trade answer, the portfolio has no trade  *)
(* that the runner has lost, and a trade off the books is Exiting.         *)
THEOREM BooksAgree == Spec => []BooksMatchTable
<1>1. IInv => BooksMatchTable
  BY DEF IInv, Books, BooksMatchTable
<1> QED BY <1>1, InductiveInvariant, PTL

(* The remove of check_exits is always called under the Ref of the same    *)
(* key: whenever it is reached, the thread waits for a lock of its own.    *)
THEOREM RemovalMeetsOwnRef == Spec => [](chk.pc = "remove" => WriteLocked(chk.id))
<1>1. IInv => (chk.pc = "remove" => WriteLocked(chk.id))
  <2> SUFFICES ASSUME IInv, chk.pc = "remove" PROVE WriteLocked(chk.id)
    OBVIOUS
  <2>1. ref = chk.id /\ chk.id \in Keys /\ Keys \subseteq Ids
    BY DEF IInv, Futures, TypeOK
  <2>2. ref # NONE
    BY <2>1 DEF Ids, TradeIds, PLACEHOLDER, NONE
  <2> QED BY <2>1, <2>2 DEF WriteLocked
<1> QED BY <1>1, InductiveInvariant, PTL

-----------------------------------------------------------------------------
(* What one step may do to a trade that stays in the table.                *)
Kept(id) ==
    /\ active_trades'[id].symbol = active_trades[id].symbol
    /\ active_trades[id].status = "Exiting" => active_trades'[id].status = "Exiting"
    /\ active_trades[id].captured => active_trades'[id].captured
    /\ active_trades[id].stop_loss_triggered => active_trades'[id].stop_loss_triggered

LEMMA WritesKeep ==
    ASSUME IInv, NEW i \in Ids \cup {NONE},
           NEW t \in {Exiting(i), Captured(i), StopLossTriggered(i)},
           Mutate(i, t), NEW id \in Keys
    PROVE  Kept(id)
<1>1. CASE i \notin Keys
  BY <1>1 DEF Mutate, Kept
<1>2. CASE i \in Keys
  <2>1. active_trades' = [k \in Keys |-> IF k = i THEN t ELSE active_trades[k]]
    BY <1>2 DEF Mutate, With
  <2>2. CASE id # i
    BY <2>1, <2>2 DEF Kept
  <2>3. CASE id = i
    <3>1. active_trades'[id] = t
      BY <2>1, <2>3
    <3> QED BY <1>2, <2>3, <3>1, Written DEF IInv, Kept
  <2> QED BY <2>2, <2>3
<1> QED BY <1>1, <1>2

LEMMA StepKeeps ==
    ASSUME IInv, Next, NEW id \in Keys, id \in DOMAIN active_trades'
    PROVE  Kept(id)
<1>0. mon.id \in Ids \cup {NONE}
  BY DEF IInv, TypeOK, MonStates
<1>1. CASE UNCHANGED active_trades
  BY <1>1 DEF Kept
<1>2. CASE Scan
  <2>1. CASE PopOpportunity
    <3>1. PLACEHOLDER \notin Keys
      BY <2>1 DEF PopOpportunity, IInv, Reserved
    <3>2. active_trades'[id] = active_trades[id]
      BY <2>1, <3>1 DEF PopOpportunity, With
    <3> QED BY <3>2 DEF Kept
  <2>2. CASE SkipAndCleanup
    <3>1. active_trades' = [k \in Keys \ {PLACEHOLDER} |-> active_trades[k]]
      BY <2>2 DEF SkipAndCleanup, Without, Restrict
    <3>2. active_trades'[id] = active_trades[id]
      BY <3>1
    <3> QED BY <3>2 DEF Kept
  <2>3. CASE EntryOk
    <3>1. next_id \notin Keys
      BY <2>3 DEF EntryOk, IInv, Reserved, TypeOK, Ids, TradeIds, PLACEHOLDER
    <3>2. active_trades'[id] = active_trades[id]
      BY <2>3, <3>1 DEF EntryOk
    <3> QED BY <3>2 DEF Kept
  <2> QED BY <1>1, <1>2, <2>1, <2>2, <2>3 DEF Scan, QueueEmpty, BookTrade, JoinDone
<1>3. CASE Monitor
  <2>1. CASE \E i \in Ids : MonPaperExit(i)
    BY <2>1, WritesKeep DEF MonPaperExit
  <2>2. CASE MonBothFilled \/ MonForced \/ MonHedged
    BY <1>0, <2>2, WritesKeep DEF MonBothFilled, MonForced, MonHedged
  <2>3. CASE MonOneFilled
    BY <1>0, <2>3, WritesKeep DEF MonOneFilled
  <2>4. CASE MonStopRecorded
    BY <1>0, <2>4, WritesKeep DEF MonStopRecorded
  <2> QED BY <1>1, <1>3, <2>1, <2>2, <2>3, <2>4
          DEF Monitor, MonStart, MonDone, MonBlocks, MonSkip, MonPoll, MonForce,
              MonStopLoss, MonNothing, MonHedgeFailed, MonStopClosed
<1>4. CASE Check
  <2>1. CASE ChkRemove
    <3>1. UNCHANGED active_trades \/ active_trades' = [k \in Keys \ {chk.id} |-> active_trades[k]]
      BY <2>1 DEF ChkRemove, Without, Restrict
    <3>2. active_trades'[id] = active_trades[id]
      BY <3>1
    <3> QED BY <3>2 DEF Kept
  <2> QED BY <1>1, <1>4, <2>1
          DEF Check, ChkStart, ChkDone, ChkSkip, ChkTake, ChkCancelled, ChkCloseOk, ChkCloseErr
<1> QED BY <1>2, <1>3, <1>4 DEF Next

(* No step of the monitor or of check_exits, in any order, takes an exit   *)
(* back or forgets the spread and the stop loss recorded with it.          *)
THEOREM ExitsAreFinal == Spec => ExitIsFinal
<1>1. IInv /\ [Next]_vars =>
        [\A id \in Keys :
            id \in DOMAIN active_trades' =>
               LET old == active_trades[id]
                   new == active_trades'[id]
               IN /\ new.symbol = old.symbol
                  /\ old.status = "Exiting" => new.status = "Exiting"
                  /\ old.captured => new.captured
                  /\ old.stop_loss_triggered => new.stop_loss_triggered]_vars
  BY StepKeeps DEF Kept
<1> QED BY <1>1, InductiveInvariant, PTL DEF Spec, ExitIsFinal
-----------------------------------------------------------------------------
(* The portfolio, whose open_trade and close_trade the runner calls: for   *)
(* every set of positions, every size, starting capital and profit,        *)
(* capital is conserved and never overdrawn, and the keys in Redis are as  *)
(* current as the calls' results claim, whichever Redis commands fail and  *)
(* wherever the process dies.                                              *)
USE CapitalAssumption, LossAssumption, NullAssumption

(* How far Redis can be behind the memory at each point of a call.         *)
Behind ==
    /\ call \in {"metrics", "new_metrics"} => rState = mem
    /\ rMetrics # NULL => rMetrics.total <= mem.wins + mem.losses

CapitalIInv ==
    /\ PortfolioTypeOK
    /\ CapitalConserved
    /\ NeverOverdrawn
    /\ Behind
    /\ MetricsNotAhead
    /\ OkIsPersisted

(* What open_trade does to the state in memory.                            *)
LEMMA OpenEffect ==
    ASSUME PortfolioTypeOK, NEW t \in Trades, OpenTrade(t)
    PROVE  /\ mem' \in States
           /\ mem'.available = mem.available - Size[t]
           /\ mem'.open = mem.open + Size[t]
           /\ mem'.pnl = mem.pnl
           /\ mem'.active = mem.active \cup {t}
           /\ mem'.wins = mem.wins /\ mem'.losses = mem.losses
<1>1. /\ mem'.available = mem.available - Size[t]
      /\ mem'.open = mem.open + Size[t]
      /\ mem'.pnl = mem.pnl
      /\ mem'.active = mem.active \cup {t}
      /\ mem'.wins = mem.wins /\ mem'.losses = mem.losses
      /\ mem'.legOuts = mem.legOuts /\ mem'.legOutLoss = mem.legOutLoss
  BY DEF PortfolioTypeOK, OpenTrade, States
<1>2. mem' = [available |-> mem'.available, open |-> mem'.open, pnl |-> mem'.pnl,
              active |-> mem'.active, wins |-> mem'.wins, losses |-> mem'.losses,
              legOuts |-> mem'.legOuts, legOutLoss |-> mem'.legOutLoss]
  BY DEF PortfolioTypeOK, OpenTrade, States
<1>3. /\ mem.available \in Int /\ mem.open \in Int /\ mem.pnl \in Int
      /\ mem.active \in SUBSET Trades /\ mem.wins \in Nat /\ mem.losses \in Nat
      /\ mem.legOuts \in Nat /\ mem.legOutLoss \in Int /\ Size[t] \in Int
  BY DEF PortfolioTypeOK, States
<1>4. mem' \in States
  BY <1>1, <1>2, <1>3 DEF States
<1> QED BY <1>1, <1>4

(* What close_trade does to it.                                            *)
LEMMA CloseEffect ==
    ASSUME PortfolioTypeOK, NEW t \in Trades, CloseTrade(t)
    PROVE  /\ mem' \in States
           /\ mem'.active = mem.active \ {t}
           /\ mem'.wins + mem'.losses = mem.wins + mem.losses + 1
           /\ \E p \in PROFITS : /\ mem'.available = mem.available + Size[t] + p
                                 /\ mem'.open = mem.open - Size[t]
                                 /\ mem'.pnl = mem.pnl + p
<1>1. PICK p \in PROFITS, legOut \in BOOLEAN :
          LET lost == IF legOut /\ p < 0 THEN 1 ELSE 0 IN
          mem' = [mem EXCEPT !.available = @ + Size[t] + p, !.open = @ - Size[t],
                             !.pnl = @ + p, !.active = @ \ {t},
                             !.wins = IF p > 0 THEN @ + 1 ELSE @,
                             !.losses = IF p > 0 THEN @ ELSE @ + 1,
                             !.legOuts = @ + lost,
                             !.legOutLoss = @ - lost * p]
  BY DEF CloseTrade
<1> DEFINE lost == IF legOut /\ p < 0 THEN 1 ELSE 0
<1>2. lost \in {0, 1} /\ p \in Int /\ lost * p \in Int
  OBVIOUS
<1>3. mem'.legOuts = mem.legOuts + lost /\ mem'.legOutLoss = mem.legOutLoss - lost * p
  BY <1>1 DEF PortfolioTypeOK, States
<1>4. /\ mem'.available = mem.available + Size[t] + p
      /\ mem'.open = mem.open - Size[t]
      /\ mem'.pnl = mem.pnl + p
      /\ mem'.active = mem.active \ {t}
      /\ mem'.wins = IF p > 0 THEN mem.wins + 1 ELSE mem.wins
      /\ mem'.losses = IF p > 0 THEN mem.losses ELSE mem.losses + 1
  BY <1>1 DEF PortfolioTypeOK, States
<1> HIDE DEF lost
<1>5. mem' = [available |-> mem'.available, open |-> mem'.open, pnl |-> mem'.pnl,
              active |-> mem'.active, wins |-> mem'.wins, losses |-> mem'.losses,
              legOuts |-> mem'.legOuts, legOutLoss |-> mem'.legOutLoss]
  BY <1>1 DEF PortfolioTypeOK, States
<1>6. /\ mem.available \in Int /\ mem.open \in Int /\ mem.pnl \in Int
      /\ mem.active \in SUBSET Trades /\ mem.wins \in Nat /\ mem.losses \in Nat
      /\ mem.legOuts \in Nat /\ mem.legOutLoss \in Int /\ Size[t] \in Int
  BY DEF PortfolioTypeOK, States
<1>7. /\ mem'.available \in Int /\ mem'.open \in Int /\ mem'.pnl \in Int
      /\ mem'.active \in SUBSET Trades /\ mem'.wins \in Nat /\ mem'.losses \in Nat
      /\ mem'.legOuts \in Nat /\ mem'.legOutLoss \in Int
  BY <1>2, <1>3, <1>4, <1>6
<1>8. mem' \in States
  BY <1>5, <1>7 DEF States
<1>9. mem'.wins + mem'.losses = mem.wins + mem.losses + 1
  BY <1>4, <1>6
<1> QED BY <1>4, <1>8, <1>9

(* Both keys may hold what is written to them.                             *)
LEMMA MetricsType ==
    ASSUME NEW m \in States
    PROVE  MetricsOf(m) \in Metrics /\ MetricsOf(m).total = m.wins + m.losses
  BY DEF States, Metrics, MetricsOf

(* The initial state, left by PortfolioManager::new.                       *)
LEMMA FreshType ==
    /\ Fresh \in States /\ Balanced(Fresh) /\ Fresh.available >= 0
    /\ Fresh.wins = 0 /\ Fresh.losses = 0 /\ Fresh.active = {}
BY DEF Fresh, States, Balanced

LEMMA CapitalInit == PortfolioInit => CapitalIInv
BY FreshType, MetricsType
     DEF PortfolioInit, CapitalIInv, PortfolioTypeOK, CapitalConserved, NeverOverdrawn, Behind,
         MetricsNotAhead, OkIsPersisted

(* Every step of a call, of Redis and of a crash preserves the invariant.  *)
LEMMA CapitalNext == CapitalIInv /\ [PortfolioNext]_portfolioVars => CapitalIInv'
<1> SUFFICES ASSUME CapitalIInv, [PortfolioNext]_portfolioVars PROVE CapitalIInv'
  OBVIOUS
<1> USE DEF CapitalIInv
<1>1. ASSUME NEW t \in Trades, OpenTrade(t) PROVE CapitalIInv'
  <2>1. PortfolioTypeOK'
    <3>1. mem' \in States /\ mem'.active = mem.active \cup {t}
      BY <1>1, OpenEffect
    <3>2. used' = used \cup {t} /\ call' = "log" /\ UNCHANGED <<result, rState, rMetrics>>
      BY <1>1 DEF OpenTrade
    <3>3. mem'.active \subseteq used'
      BY <3>1, <3>2 DEF PortfolioTypeOK
    <3> QED BY <3>1, <3>2, <3>3 DEF PortfolioTypeOK
  <2>2. CapitalConserved' /\ NeverOverdrawn'
    <3>1. /\ mem'.available = mem.available - Size[t]
          /\ mem'.open = mem.open + Size[t]
          /\ mem'.pnl = mem.pnl
      BY <1>1, OpenEffect
    <3>2. /\ mem.available \in Int /\ mem.open \in Int /\ mem.pnl \in Int
          /\ Size[t] \in Int /\ Size[t] <= mem.available /\ rState' = rState
      BY <1>1 DEF OpenTrade, PortfolioTypeOK, States
    <3> QED BY <3>1, <3>2 DEF CapitalConserved, Balanced, NeverOverdrawn
  <2>3. Behind' /\ MetricsNotAhead' /\ OkIsPersisted'
    BY <1>1, OpenEffect DEF OpenTrade, Behind, MetricsNotAhead, OkIsPersisted
  <2> QED BY <2>1, <2>2, <2>3
<1>2. ASSUME NEW t \in Trades, CloseTrade(t) PROVE CapitalIInv'
  <2>1. PortfolioTypeOK'
    <3>1. mem' \in States /\ mem'.active = mem.active \ {t}
      BY <1>2, CloseEffect
    <3>2. call' = "log" /\ UNCHANGED <<used, result, rState, rMetrics>>
      BY <1>2 DEF CloseTrade
    <3>3. mem'.active \subseteq used'
      BY <3>1, <3>2 DEF PortfolioTypeOK
    <3> QED BY <3>1, <3>2, <3>3 DEF PortfolioTypeOK
  <2>2. CapitalConserved' /\ NeverOverdrawn'
    <3>1. PICK p \in PROFITS : /\ mem'.available = mem.available + Size[t] + p
                               /\ mem'.open = mem.open - Size[t]
                               /\ mem'.pnl = mem.pnl + p
      BY <1>2, CloseEffect
    <3>2. Size[t] + p >= 0 /\ Size[t] \in Int /\ p \in Int
      OBVIOUS
    <3> QED BY <3>1, <3>2, <1>2
            DEF CloseTrade, PortfolioTypeOK, States, CapitalConserved, Balanced,
                NeverOverdrawn
  <2>3. Behind' /\ MetricsNotAhead' /\ OkIsPersisted'
    <3>1. /\ mem'.wins + mem'.losses = mem.wins + mem.losses + 1
          /\ mem.wins \in Nat /\ mem.losses \in Nat
          /\ UNCHANGED <<rState, rMetrics>> /\ call' = "log"
      BY <1>2, CloseEffect DEF CloseTrade, PortfolioTypeOK, States
    <3>2. rMetrics # NULL => rMetrics.total \in Nat
      BY DEF PortfolioTypeOK, Metrics
    <3> QED BY <3>1, <3>2 DEF Behind, MetricsNotAhead, OkIsPersisted
  <2> QED BY <2>1, <2>2, <2>3
<1>3. ASSUME NEW t \in Trades, OpenRefused(t) \/ CloseUnknown(t) PROVE CapitalIInv'
  BY <1>3 DEF OpenRefused, CloseUnknown, PortfolioTypeOK, CapitalConserved, NeverOverdrawn, Behind,
              MetricsNotAhead, OkIsPersisted
<1>4. CASE LogTrade \/ RedisFails \/ Crash
  BY <1>4 DEF LogTrade, RedisFails, Crash, PortfolioTypeOK, CapitalConserved, NeverOverdrawn, Behind,
              MetricsNotAhead, OkIsPersisted
<1>5. CASE PersistState
  <2>1. mem # NULL /\ rState' = mem /\ UNCHANGED <<mem, used, result, rMetrics>>
        /\ call' \in {"metrics", "new_metrics"}
    BY <1>5 DEF PersistState, PortfolioTypeOK
  <2> QED BY <2>1 DEF PortfolioTypeOK, CapitalConserved, NeverOverdrawn, Behind, MetricsNotAhead,
                      OkIsPersisted
<1>6. CASE PersistMetrics
  <2>1. rState = mem /\ mem # NULL /\ rMetrics' = MetricsOf(mem)
        /\ UNCHANGED <<mem, used, rState>> /\ call' = "idle" /\ result' = "ok"
    BY <1>6 DEF PersistMetrics, Behind, PortfolioTypeOK
  <2>2. MetricsOf(mem) \in Metrics /\ MetricsOf(mem).total = mem.wins + mem.losses
        /\ mem.wins + mem.losses \in Nat
    BY MetricsType DEF PortfolioTypeOK, States
  <2> QED BY <2>1, <2>2 DEF PortfolioTypeOK, CapitalConserved, NeverOverdrawn, Behind,
                            MetricsNotAhead, OkIsPersisted
<1>7. CASE Restart
  BY <1>7, FreshType DEF Restart, PortfolioTypeOK, CapitalConserved, NeverOverdrawn, Behind,
                         MetricsNotAhead, OkIsPersisted
<1>8. CASE UNCHANGED portfolioVars
  BY <1>8 DEF portfolioVars, PortfolioTypeOK, CapitalConserved, NeverOverdrawn, Behind, MetricsNotAhead,
              OkIsPersisted
<1> QED BY <1>1, <1>2, <1>3, <1>4, <1>5, <1>6, <1>7, <1>8 DEF PortfolioNext

(* The inductive invariant holds throughout every run of the manager.      *)
THEOREM CapitalInvariant == PortfolioSpec => []CapitalIInv
  BY CapitalInit, CapitalNext, PTL DEF PortfolioSpec

(* PortfolioManager's state keeps its type.                                *)
THEOREM CapitalTypeCorrect == PortfolioSpec => []PortfolioTypeOK
<1>1. CapitalIInv => PortfolioTypeOK
  BY DEF CapitalIInv
<1> QED BY <1>1, CapitalInvariant, PTL

(* open_trade and close_trade conserve capital, in memory and in Redis.    *)
THEOREM Conservation == PortfolioSpec => []CapitalConserved
<1>1. CapitalIInv => CapitalConserved
  BY DEF CapitalIInv
<1> QED BY <1>1, CapitalInvariant, PTL

(* open_trade never spends capital that is not there.                      *)
THEOREM Solvency == PortfolioSpec => []NeverOverdrawn
<1>1. CapitalIInv => NeverOverdrawn
  BY DEF CapitalIInv
<1> QED BY <1>1, CapitalInvariant, PTL

(* persist_state never shows a reader metrics newer than the state.        *)
THEOREM MetricsFollowState == PortfolioSpec => []MetricsNotAhead
<1>1. CapitalIInv => MetricsNotAhead
  BY DEF CapitalIInv
<1> QED BY <1>1, CapitalInvariant, PTL

(* A call that changed the portfolio and returned Ok is in Redis.          *)
THEOREM OkMeansPersisted == PortfolioSpec => []OkIsPersisted
<1>1. CapitalIInv => OkIsPersisted
  BY DEF CapitalIInv
<1> QED BY <1>1, CapitalInvariant, PTL
=============================================================================
