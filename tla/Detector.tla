------------------------------- MODULE Detector -------------------------------
(***************************************************************************)
(* The streaming path from a connector's message to an opportunity:        *)
(* redis_bridge and parse_to_market_update (main.rs), the MarketPipeline,  *)
(* the MarketDataStore (strategy/market_data.rs) and the detection loop    *)
(* (strategy/opportunity_detector.rs), over the shared SymbolMap.          *)
(*                                                                         *)
(* The bridge and the detector are tasks of a multi-threaded runtime and   *)
(* both call SymbolMap::get_or_insert, the detector once for every         *)
(* exchange it knows.  A second consumer of the same pipeline, the         *)
(* strategy runner of bin/bybit-synthetic-test.rs, takes updates away from *)
(* the detector (main.rs gives its runner none).                           *)
(*                                                                         *)
(* Prices are integers; spreads and fees are compared in tenths of a basis *)
(* point, cross-multiplied, so that no rounding is involved.               *)
(***************************************************************************)
EXTENDS SymbolMap, Integers, Sequences, FiniteSets

CONSTANTS
    KnownExchanges,   \* get_exchanges_for_symbol's list, in its order
    Feed,             \* what the connectors send: <<exchange, raw symbol>>
    Normalized,       \* raw symbol -> symbol
    Quotes,           \* bid and ask of a message, readable or not
    NoQuote,          \* a message without a readable bid or ask; a store slot never written
    MAX_SYMBOLS,      \* slots of the MarketDataStore
    PIPELINE_CAPACITY,
    MAX_MESSAGES      \* bound: messages of the connectors

ASSUME DetectorAssumption ==
    /\ Threads = {"bridge", "detector"}
    /\ MAX_SYMBOLS \in Nat
    /\ \A q \in Quotes \ {NoQuote} : q.bid \in Int /\ q.ask \in Int
    /\ KnownExchanges \in Seq({KnownExchanges[i] : i \in DOMAIN KnownExchanges})
    /\ \A f \in Feed : \E i \in DOMAIN KnownExchanges : KnownExchanges[i] = f[1]
    /\ Keys = {KnownExchanges[i] : i \in DOMAIN KnownExchanges}
                  \X {Normalized[f[2]] : f \in Feed}

VARIABLES
    received,    \* messages the bridge has taken from the channel
    quote,       \* the quote of the message in the bridge's hands
    full,        \* the bridge's push found the pipeline full
    pipeline,    \* the MarketPipeline: updates [id, quote]
    store,       \* per consumer: its MarketDataStore
    step,        \* where the detector's loop is
    symbol,      \* the symbol under detection
    next,        \* the index into KnownExchanges of the next exchange to look at
    valid,       \* the exchanges found to have a price for it
    found,       \* the opportunities the last detection pushed
    seen         \* per consumer, history: the last quote it popped of each key

bridgeVars == <<received, quote, full>>
detectorVars == <<step, symbol, next, valid, found>>
vars == <<mapVars, bridgeVars, pipeline, store, detectorVars, seen>>

Consumers == {"detector", "runner"}
Exchanges == {KnownExchanges[i] : i \in DOMAIN KnownExchanges}
Slots == 0 .. MAX_SYMBOLS - 1

Init ==
    /\ MapInit
    /\ received = 0 /\ quote = NoQuote /\ full = FALSE
    /\ pipeline = <<>>
    /\ store = [c \in Consumers |-> [i \in Slots |-> NoQuote]]
    /\ step = "pop" /\ symbol = NoKey /\ next = 1 /\ valid = {} /\ found = {}
    /\ seen = [c \in Consumers |-> [k \in Keys |-> NoQuote]]

-----------------------------------------------------------------------------
(* redis_bridge, streaming half.                                           *)

normalize_symbol(raw) == Normalized[raw]

(* The exchange's parser finds both prices in the JSON, as numbers.  (Each *)
(* exchange has its own field names; a message of another topic, without   *)
(* them, is not readable.)                                                 *)
Readable(q) == q # NoQuote

(* Mutant: a crossed quote is let through.                                 *)
ParsesCrossed(q) == Readable(q) /\ q.bid > 0 /\ q.ask > 0

(* The prices are found, positive and not crossed.                         *)
Parses(q) == Readable(q) /\ q.bid > 0 /\ q.ask > 0 /\ q.bid < q.ask

(* A message that does not parse ends here, before it is given an id.      *)
ReceiveUnreadable(q) ==
    /\ at["bridge"] = "idle" /\ received < MAX_MESSAGES
    /\ ~Parses(q)
    /\ received' = received + 1
    /\ UNCHANGED <<mapVars, quote, full, pipeline, store, detectorVars, seen>>

(* A readable one starts get_or_insert.                                    *)
Receive(f, q) ==
    /\ received < MAX_MESSAGES
    /\ Parses(q)
    /\ LET k == <<f[1], normalize_symbol(f[2])>>
       IN  Hit("bridge", k) \/ Miss("bridge", k)
    /\ received' = received + 1
    /\ quote' = q
    /\ UNCHANGED <<full, pipeline, store, detectorVars, seen>>

Update == [id |-> mine["bridge"], quote |-> quote]

(* MarketProducer::push of the update, when there is room.                 *)
Push ==
    /\ ~full /\ Len(pipeline) < PIPELINE_CAPACITY
    /\ Return("bridge")
    /\ pipeline' = Append(pipeline, Update)
    /\ UNCHANGED <<bridgeVars, store, detectorVars, seen>>

(* There is none ...                                                       *)
PushFull ==
    /\ at["bridge"] = "done" /\ ~full
    /\ Len(pipeline) >= PIPELINE_CAPACITY
    /\ full' = TRUE
    /\ UNCHANGED <<mapVars, received, quote, pipeline, store, detectorVars, seen>>

(* ... so the oldest update goes, even if a consumer has just made room.   *)
(* Nothing but this bridge pushes, so the second push fits.                *)
DropAndPush ==
    /\ full
    /\ Return("bridge")
    /\ pipeline' = Append(IF pipeline = <<>> THEN pipeline ELSE Tail(pipeline), Update)
    /\ full' = FALSE
    /\ UNCHANGED <<received, quote, store, detectorVars, seen>>

-----------------------------------------------------------------------------
(* MarketDataStore.                                                        *)

(* Mutant: an id beyond the table wraps instead of being ignored.          *)
StoredWrapping(st, u) == [st EXCEPT ![u.id % MAX_SYMBOLS] = u.quote]

(* update_from_market_update: an id that is too large is ignored.          *)
Stored(st, u) == IF u.id < MAX_SYMBOLS THEN [st EXCEPT ![u.id] = u.quote] ELSE st

(* get_bid, get_ask.  (They test the id against the highest slot written   *)
(* so far; a slot not written holds 0.0, which every caller rejects.)      *)
Price(st, id) == IF id < MAX_SYMBOLS THEN st[id] ELSE NoQuote

(* A consumer's pop, with the store updated from it.                       *)
TakeUpdate(c) ==
    /\ pipeline # <<>>
    /\ pipeline' = Tail(pipeline)
    /\ LET u == Head(pipeline)
           k == CHOOSE j \in Keys : toId[j] = u.id
       IN  /\ store' = [store EXCEPT ![c] = Stored(@, u)]
           /\ seen' = [seen EXCEPT ![c][k] = u.quote]

(* run_scanning_loop's pop, where the runner has been given a consumer.    *)
RunnerPop ==
    /\ TakeUpdate("runner")
    /\ UNCHANGED <<mapVars, bridgeVars, detectorVars>>

(* The runner's get_prices_from_store for an opportunity it is given, from *)
(* its own store.  The detector has given both pairs their ids, so that    *)
(* its calls of get_or_insert are fast paths.                              *)
get_prices_from_store(o) ==
    LET long == Price(store["runner"], toId[<<o.long, o.symbol>>])
        short == Price(store["runner"], toId[<<o.short, o.symbol>>])
    IN  IF NoQuote \in {long, short} THEN <<>> ELSE <<long.ask, short.bid>>

-----------------------------------------------------------------------------
(* OpportunityDetector::run.                                               *)

(* The pop and the reverse lookup of the id.  An id that from_id does not  *)
(* know ends the iteration.                                                *)
Pop ==
    /\ step = "pop"
    /\ TakeUpdate("detector")
    /\ found' = {}
    /\ LET id == Head(pipeline).id
       IN  IF id \in DOMAIN fromId
           THEN /\ step' = "exchanges"
                /\ symbol' = fromId[id][2]
                /\ next' = 1 /\ valid' = {}
           ELSE UNCHANGED <<step, symbol, next, valid>>
    /\ UNCHANGED <<mapVars, bridgeVars>>

(* Nothing to pop: sleep and look again.                                   *)
PopNothing ==
    /\ step = "pop" /\ pipeline = <<>>
    /\ UNCHANGED vars

(* get_exchanges_for_symbol: get_or_insert for the next exchange, which    *)
(* gives the pair an id even if no connector ever feeds it ...             *)
AskId ==
    /\ step = "exchanges" /\ next <= Len(KnownExchanges)
    /\ LET k == <<KnownExchanges[next], symbol>>
       IN  Hit("detector", k) \/ Miss("detector", k)
    /\ UNCHANGED <<bridgeVars, pipeline, store, detectorVars, seen>>

(* ... and the test of its price in the store.                             *)
FilterExchange ==
    /\ step = "exchanges" /\ Return("detector")
    /\ next' = next + 1
    /\ valid' = IF Price(store["detector"], mine["detector"]) # NoQuote
                THEN valid \cup {KnownExchanges[next]} ELSE valid
    /\ UNCHANGED <<bridgeVars, pipeline, store, step, symbol, found, seen>>

(* get_exchange_fee_by_name, in tenths of a basis point.                   *)
Fee(e) ==
    CASE e = "binance" -> 40
      [] e \in {"okx", "paradex"} -> 50
      [] e = "bybit" -> 55
      [] e = "hyperliquid" -> 45
      [] OTHER -> 60

Slippage == 30
FundingCost == 100

(* The spread from ask to bid exceeds n tenths of a basis point, reaches n.*)
SpreadAbove(ask, bid, n) == (bid - ask) * 100000 > n * ask
SpreadReaches(ask, bid, n) == (bid - ask) * 100000 >= n * ask

(* check_opportunity's filters, in its order: the minimum spread; the      *)
(* funding delta, a constant 0.0002, which always passes; the confidence   *)
(* floor(min(s, 50) + 0.6 + 20) >= 70 for a spread of s basis points, that *)
(* is s >= 49.4; the profit after fees, slippage and funding cost.         *)
Passes(long, short, ask, bid) ==
    /\ SpreadAbove(ask, bid, 100)
    /\ SpreadReaches(ask, bid, 494)
    /\ SpreadAbove(ask, bid, Fee(long) + Fee(short) + Slippage + FundingCost)

(* The ordered pairs of exchanges that check_opportunity is called for.    *)
Directions(S) == {p \in S \X S : p[1] # p[2]}

(* What detect_opportunities_for_symbol pushes: the pairs of valid         *)
(* exchanges whose prices, looked up once more by id, pass the filters.    *)
(* All ids are in the map by now, so these lookups are fast paths.         *)
Detected ==
    LET price(e) == Price(store["detector"], toId[<<e, symbol>>])
    IN  {[symbol |-> symbol, long |-> p[1], short |-> p[2],
          ask |-> price(p[1]).ask, bid |-> price(p[2]).bid] :
            p \in {d \in Directions(valid) :
                     Passes(d[1], d[2], price(d[1]).ask, price(d[2]).bid)}}

CheckPairs ==
    /\ step = "exchanges" /\ next > Len(KnownExchanges)
    /\ found' = Detected
    /\ step' = "pop"
    /\ UNCHANGED <<mapVars, bridgeVars, pipeline, store, symbol, next, valid, seen>>

-----------------------------------------------------------------------------
InMap(t) == InCall(t) /\ UNCHANGED <<bridgeVars, pipeline, store, detectorVars, seen>>

Bridge ==
    \/ \E q \in Quotes : ReceiveUnreadable(q)
    \/ \E f \in Feed, q \in Quotes : Receive(f, q)
    \/ Push \/ PushFull \/ DropAndPush

Detection == Pop \/ PopNothing \/ AskId \/ FilterExchange \/ CheckPairs

Next == Bridge \/ Detection \/ RunnerPop \/ \E t \in Threads : InMap(t)

Spec == Init /\ [][Next]_vars

-----------------------------------------------------------------------------
(* Properties.                                                             *)

(* What the detector should find for a symbol, from the last quotes it has *)
(* popped and nothing else: no ids, no store, no order of the exchanges.   *)
Tradeable(s) ==
    LET q(e) == seen["detector"][<<e, s>>]
        usable == {e \in Exchanges :
                     q(e) # NoQuote /\ toId[<<e, s>>] < MAX_SYMBOLS}
    IN  {[symbol |-> s, long |-> p[1], short |-> p[2],
          ask |-> q(p[1]).ask, bid |-> q(p[2]).bid] :
            p \in {d \in usable \X usable :
                     d[1] # d[2] /\ Passes(d[1], d[2], q(d[1]).ask, q(d[2]).bid)}}

(* An iteration of the detector's loop finds exactly the opportunities     *)
(* there are between the last quotes it was given, whatever the races on   *)
(* the SymbolMap: none is missed because an id was not in from_id yet or   *)
(* differs between bridge and detector, and none is made of another        *)
(* symbol's or an old price.  Only symbols whose id is beyond the store    *)
(* are exempt.  The runner, which looks the prices up again in a store of  *)
(* its own before it trades, gets the last ones that it popped itself, or  *)
(* none.                                                                   *)
FoundIsExact ==
    /\ step = "pop" /\ symbol # NoKey => found = Tradeable(symbol)
    /\ \A o \in found :
          LET long == seen["runner"][<<o.long, o.symbol>>]
              short == seen["runner"][<<o.short, o.symbol>>]
          IN  get_prices_from_store(o) =
                  IF NoQuote \in {long, short} THEN <<>> ELSE <<long.ask, short.bid>>

(* The runner executes whatever it is given, so one detection must not     *)
(* propose to be long and short on both exchanges at once; that rests on   *)
(* the bridge refusing crossed quotes, in another task.                    *)
NeverBothDirections ==
    \A o, p \in found : ~(o.long = p.short /\ o.short = p.long)

=============================================================================
