----------------------------- MODULE DemoBackend -----------------------------
(***************************************************************************)
(* The execution backend of the demo runs: TestnetBackend                  *)
(* (testnet_backend.rs) over BybitDemoClient (bybit_testnet.rs), called by *)
(* several tasks at once.                                                  *)
(*                                                                         *)
(* A caller is in at most one call; a call has at most one HTTP request    *)
(* under way.  The exchange serves a request at some moment between its    *)
(* sending and its answer, which takes LATENCY ticks at most or never      *)
(* comes: the client is a plain Client::new() without a timeout.  The      *)
(* steps between two awaits take no time.  Bybit's clock is skew ahead of  *)
(* ours, and drifts.  There is one symbol.  Signing and JSON are left out. *)
(***************************************************************************)
EXTENDS Integers, FiniteSetsExt

CONSTANTS
    Callers,
    Nobody,          \* no holder of a lock
    Skews,           \* the skews to consider at the start
    Drifts,          \* what the skew may change by in a tick
    SECOND,          \* what timeSecond is a multiple of: 1000 ms
    LATENCY,         \* longest time of an HTTP request
    RESYNC_AFTER,    \* 5 s in get_timestamp
    CACHE_TTL,       \* ORDER_BOOK_CACHE_TTL
    SIZE,            \* of an order
    MAX_ORDERS,      \* bound: orders the exchange accepts in any workload
    Workloads        \* bound: which calls are made, how many, with how many orders
                     \* accepted, in what time and over how much drift

ASSUME BackendAssumption ==
    /\ Nobody \notin Callers
    /\ Skews \subseteq Int /\ Drifts \subseteq Int
    /\ {LATENCY, RESYNC_AFTER} \subseteq Nat
    /\ {SECOND, CACHE_TTL, SIZE, MAX_ORDERS} \subseteq Nat \ {0}

VARIABLES
    workload,        \* the one of Workloads this behaviour has
    now, skew,
    drifted,         \* history: by how much the skew has changed, in all
    orders,          \* the exchange's orders: status and filled quantity
    calls,           \* calls begun
    \* the caller
    op,              \* its operation
    on,              \* the order it is about
    pc,              \* where it is
    sent,            \* when its request was sent
    reply,           \* what the exchange made of it, NoReply before
    stamp,           \* its timestamp
    basis,           \* history: the reading of the exchange's clock behind it
    answer,          \* what the last call to return returned
    \* TestnetBackend and BybitDemoClient
    metadata,        \* order_metadata: the orders in it
    metadata_lock, last_sync_lock, \* who holds the mutex over an await
    time_offset, last_sync,
    reading,         \* history: the reading of the exchange's clock behind time_offset
    qty_step_cache,  \* whether it holds the symbol
    order_book_cache \* when it was filled and the moment its book is of

clockVars == <<now, skew, drifted>>
callVars == <<op, on, pc, sent, reply, stamp, basis, answer>>
timeVars == <<time_offset, last_sync, reading>>
lockVars == <<metadata_lock, last_sync_lock>>
cacheVars == <<qty_step_cache, order_book_cache>>
vars == <<workload, clockVars, orders, calls, callVars, metadata, lockVars, timeVars, cacheVars>>

Ids == 1 .. MAX_ORDERS
Sim == 0                     \* the id "sim_..." of a simulated order
NoReply == [result |-> "none"]
Failed == [result |-> "failed"]
Refused == [result |-> "refused"]
NoBook == [at |-> -1, of |-> -1]
Never == [at |-> -1, drift |-> 0]  \* the reading before the first
NoBasis == [at |-> -1, drift |-> 0, how |-> "none"]
NoOrder == [status |-> "None", filled |-> 0]
Err == [kind |-> "err"]
NoAnswer == [kind |-> "none"]

Init ==
    /\ workload \in Workloads
    /\ now = 0 /\ skew \in Skews /\ drifted = 0 /\ calls = 0
    /\ orders = [i \in Ids |-> NoOrder]
    /\ op = [c \in Callers |-> "none"] /\ on = [c \in Callers |-> Sim]
    /\ pc = [c \in Callers |-> "idle"] /\ sent = [c \in Callers |-> 0]
    /\ reply = [c \in Callers |-> NoReply]
    /\ stamp = [c \in Callers |-> 0] /\ basis = [c \in Callers |-> NoBasis]
    /\ answer = NoAnswer
    /\ metadata = {} /\ metadata_lock = Nobody /\ last_sync_lock = Nobody
    /\ time_offset = 0 /\ last_sync = 0 /\ reading = Never
    /\ qty_step_cache = FALSE /\ order_book_cache = NoBook

-----------------------------------------------------------------------------
(* Sending, waiting and returning.                                         *)

Waiting(c) == pc[c] \in {"time", "qty", "http"}

(* The caller sends a request and waits for its answer at a point.         *)
Send(c, point) ==
    /\ pc' = [pc EXCEPT ![c] = point]
    /\ sent' = [sent EXCEPT ![c] = now]
    /\ reply' = [reply EXCEPT ![c] = NoReply]

(* The call returns; its guard of order_metadata, if any, is dropped.      *)
Return(c, value) ==
    /\ pc' = [pc EXCEPT ![c] = "idle"]
    /\ answer' = value
    /\ op' = [op EXCEPT ![c] = "none"]
    /\ on' = [on EXCEPT ![c] = Sim]
    /\ sent' = [sent EXCEPT ![c] = 0]
    /\ stamp' = [stamp EXCEPT ![c] = 0] /\ basis' = [basis EXCEPT ![c] = NoBasis]
    /\ reply' = [reply EXCEPT ![c] = NoReply]
    /\ metadata_lock' = IF metadata_lock = c THEN Nobody ELSE metadata_lock
    /\ UNCHANGED last_sync_lock

Idle(c) == pc[c] = "idle" /\ calls < workload.calls /\ calls' = calls + 1

(* The call goes on with an operation on an order.                         *)
Start(c, what, order) ==
    /\ op' = [op EXCEPT ![c] = what] /\ on' = [on EXCEPT ![c] = order]
    /\ UNCHANGED answer

(* The timestamp is taken, then an order needs the quantity step.  The     *)
(* offset is fresh unless a synchronization was due and failed.            *)
Stamped(c, what, offset, read, how) ==
    /\ stamp' = [stamp EXCEPT ![c] = now + offset]
    /\ basis' = [basis EXCEPT ![c] = [at |-> read.at, drift |-> read.drift, how |-> how]]
    /\ Send(c, IF what \in {"limit", "market"} /\ ~qty_step_cache THEN "qty" ELSE "http")

(* Mutant: get_timestamp keeps its guard of last_sync while it resyncs.    *)
GetTimestampLocked(c, what) ==
    /\ last_sync_lock = Nobody
    /\ IF now - last_sync > RESYNC_AFTER
       THEN /\ Send(c, "time") /\ UNCHANGED <<stamp, basis>>
            /\ last_sync_lock' = c
       ELSE Stamped(c, what, time_offset, reading, "fresh") /\ UNCHANGED last_sync_lock

(* get_timestamp: synchronize again, and wait for it, if the last time is  *)
(* long ago.  The guard of last_sync is dropped before.                    *)
GetTimestamp(c, what) ==
    /\ last_sync_lock = Nobody
    /\ IF now - last_sync > RESYNC_AFTER
       THEN Send(c, "time") /\ UNCHANGED <<stamp, basis>>
       ELSE Stamped(c, what, time_offset, reading, "fresh")
    /\ UNCHANGED last_sync_lock

-----------------------------------------------------------------------------
(* The calls.                                                              *)

(* place_order and place_market_order on the primary exchange, and the     *)
(* signed requests that change nothing here: set_leverage and get_balance. *)
CallSigned(c) ==
    /\ Idle(c)
    /\ \E what \in {"limit", "market", "query"} \cap workload.ops :
          Start(c, what, Sim) /\ GetTimestamp(c, what)
    /\ UNCHANGED <<workload, clockVars, orders, metadata, metadata_lock, timeVars, cacheVars>>

(* On another exchange an order is simulated and only recorded.            *)
CallSimulated(c) ==
    /\ Idle(c) /\ "simulated" \in workload.ops
    /\ Start(c, "simulated", Sim)
    /\ pc' = [pc EXCEPT ![c] = "record"]
    /\ UNCHANGED <<workload, clockVars, orders, sent, reply, stamp, basis, metadata, lockVars, timeVars,
                   cacheVars>>

(* cancel_order, get_order_status and get_order_status_detailed of an      *)
(* order that was recorded.  A simulated one is Filled and its             *)
(* cancellation Ok without a lock; but its detailed status asks for an     *)
(* exchange that is not supported.                                         *)
CallOnOrder(c) ==
    /\ Idle(c)
    /\ \E what \in {"cancel", "status", "detailed"} \cap workload.ops, i \in metadata :
          IF i = Sim /\ what # "detailed"
          THEN Return(c, [kind |-> what, id |-> Sim, status |-> "Filled", filled |-> SIZE])
          ELSE /\ Start(c, what, i)
               /\ pc' = [pc EXCEPT ![c] = "lock"]
               /\ UNCHANGED <<sent, reply, stamp, basis, lockVars>>
    /\ UNCHANGED <<workload, clockVars, orders, metadata, timeVars, cacheVars>>

(* The guard of order_metadata is held until the call returns.             *)
LockMetadata(c) ==
    /\ pc[c] = "lock" /\ metadata_lock = Nobody
    /\ IF on[c] = Sim
       THEN Return(c, Err)
       ELSE /\ metadata_lock' = c
            /\ GetTimestamp(c, op[c])
            /\ UNCHANGED <<op, on, answer>>
    /\ UNCHANGED <<workload, clockVars, orders, calls, metadata, timeVars, cacheVars>>

(* sync_server_time, called by the program at its start.                   *)
CallSync(c) ==
    /\ Idle(c) /\ "sync" \in workload.ops
    /\ Start(c, "sync", Sim)
    /\ Send(c, "time")
    /\ UNCHANGED <<workload, clockVars, orders, stamp, basis, metadata, lockVars, timeVars, cacheVars>>

(* Mutant: the local time is that before the request.                      *)
OffsetBefore(before, after, server) == server - before

(* The average of the local times before and after, rounded down.          *)
Offset(before, after, server) == server - (before + after) \div 2

(* The rest of sync_server_time.  In get_timestamp its error is ignored.   *)
TimeAnswered(c) ==
    /\ pc[c] = "time" /\ reply[c] # NoReply /\ last_sync_lock = Nobody
    /\ IF reply[c].result = "ok"
       THEN /\ time_offset' = Offset(sent[c], now, reply[c].time)
            /\ last_sync' = now
            /\ reading' = [at |-> reply[c].at, drift |-> reply[c].drift]
       ELSE UNCHANGED timeVars
    /\ IF op[c] = "sync"
       THEN Return(c, [kind |-> "synced"])
       ELSE /\ Stamped(c, op[c], time_offset', reading',
                       IF reply[c].result = "ok" THEN "fresh" ELSE "old")
            /\ UNCHANGED <<op, on, answer, lockVars>>
    /\ UNCHANGED <<workload, clockVars, orders, calls, metadata, qty_step_cache, order_book_cache>>

(* get_qty_step fills its cache; an error ends the call.                   *)
QtyAnswered(c) ==
    /\ pc[c] = "qty" /\ reply[c] # NoReply
    /\ IF reply[c].result = "ok"
       THEN /\ qty_step_cache' = TRUE
            /\ Send(c, "http")
            /\ UNCHANGED <<op, on, stamp, basis, answer, lockVars>>
       ELSE Return(c, Err) /\ UNCHANGED qty_step_cache
    /\ UNCHANGED <<workload, clockVars, orders, calls, metadata, timeVars, order_book_cache>>

(* An order that was accepted has to be recorded before it is returned;    *)
(* one whose answer is lost is never known.                                *)
OrderAnswered(c) ==
    /\ pc[c] = "http" /\ op[c] \in {"limit", "market"} /\ reply[c] # NoReply
    /\ IF reply[c].result = "ok"
       THEN /\ pc' = [pc EXCEPT ![c] = "record"]
            /\ on' = [on EXCEPT ![c] = reply[c].id]
            /\ UNCHANGED <<op, sent, reply, stamp, basis, answer, lockVars>>
       ELSE Return(c, Err)
    /\ UNCHANGED <<workload, clockVars, orders, calls, metadata, timeVars, cacheVars>>

(* order_metadata takes the new order; a market order is said to be Filled *)
(* without a look at it.                                                   *)
Record(c) ==
    /\ pc[c] = "record" /\ metadata_lock = Nobody
    /\ metadata' = metadata \cup {on[c]}
    /\ Return(c, [kind |-> "placed", id |-> on[c]])
    /\ UNCHANGED <<workload, clockVars, orders, calls, timeVars, cacheVars>>

(* Mutant: an order that has begun to fill is taken for filled.            *)
StatusOfStarted(order) ==
    CASE order.filled > 0 -> "Filled"
      [] order.status = "Cancelled" -> "Cancelled"
      [] OTHER -> "Pending"

(* What is neither Filled nor Cancelled is Pending.                        *)
StatusOf(order) == IF order.status \in {"Filled", "Cancelled"} THEN order.status ELSE "Pending"

(* get_order_status takes an error of the exchange for Pending, the        *)
(* detailed one returns it.                                                *)
StatusAnswered(c) ==
    /\ pc[c] = "http" /\ op[c] \in {"status", "detailed"} /\ reply[c] # NoReply
    /\ Return(c, CASE reply[c].result = "ok" ->
                        [kind |-> op[c], id |-> on[c], status |-> StatusOf(reply[c].order),
                         filled |-> IF op[c] = "detailed" THEN reply[c].order.filled ELSE 0]
                   [] reply[c].result = "refused" /\ op[c] = "status" ->
                        [kind |-> "status", id |-> on[c], status |-> "Pending", filled |-> 0]
                   [] OTHER -> Err)
    /\ UNCHANGED <<workload, clockVars, orders, calls, metadata, timeVars, cacheVars>>

(* cancel_order and the queries return what the exchange said.             *)
OtherAnswered(c) ==
    /\ pc[c] = "http" /\ op[c] \in {"cancel", "query"} /\ reply[c] # NoReply
    /\ Return(c, IF reply[c].result = "ok"
                 THEN [kind |-> op[c], id |-> on[c], status |-> "Cancelled", filled |-> 0]
                 ELSE Err)
    /\ UNCHANGED <<workload, clockVars, orders, calls, metadata, timeVars, cacheVars>>

(* Mutant: every use of the cached book keeps it for another TTL.          *)
CallBookSliding(c) ==
    /\ Idle(c) /\ "book" \in workload.ops
    /\ IF order_book_cache # NoBook /\ now - order_book_cache.at < CACHE_TTL
       THEN /\ Return(c, [kind |-> "book", age |-> now - order_book_cache.of])
            /\ order_book_cache' = [order_book_cache EXCEPT !.at = now]
       ELSE /\ Start(c, "book", Sim) /\ Send(c, "http")
            /\ UNCHANGED <<stamp, basis, lockVars, order_book_cache>>
    /\ UNCHANGED <<workload, clockVars, orders, metadata, timeVars, qty_step_cache>>

(* get_order_book_depth, get_best_bid and get_best_ask: a cached book      *)
(* younger than the TTL is returned.                                       *)
CallBook(c) ==
    /\ Idle(c) /\ "book" \in workload.ops
    /\ IF order_book_cache # NoBook /\ now - order_book_cache.at < CACHE_TTL
       THEN Return(c, [kind |-> "book", age |-> now - order_book_cache.of])
       ELSE Start(c, "book", Sim) /\ Send(c, "http") /\ UNCHANGED <<stamp, basis, lockVars>>
    /\ UNCHANGED <<workload, clockVars, orders, metadata, timeVars, cacheVars>>

(* The book that arrives is cached, over a newer one too.                  *)
BookAnswered(c) ==
    /\ pc[c] = "http" /\ op[c] = "book" /\ reply[c] # NoReply
    /\ IF reply[c].result = "ok"
       THEN /\ order_book_cache' = [at |-> now, of |-> reply[c].time]
            /\ Return(c, [kind |-> "book", age |-> now - reply[c].time])
       ELSE Return(c, Err) /\ UNCHANGED order_book_cache
    /\ UNCHANGED <<workload, clockVars, orders, calls, metadata, timeVars, qty_step_cache>>

Call(c) ==
    CallSigned(c) \/ CallSimulated(c) \/ CallOnOrder(c) \/ CallSync(c) \/ CallBook(c)

Proceed(c) ==
    \/ LockMetadata(c) \/ TimeAnswered(c) \/ QtyAnswered(c) \/ OrderAnswered(c)
    \/ Record(c) \/ StatusAnswered(c) \/ OtherAnswered(c) \/ BookAnswered(c)

-----------------------------------------------------------------------------
(* The exchange.                                                           *)

Unserved(c) == Waiting(c) /\ reply[c] = NoReply

Answered(c, value) ==
    /\ reply' = [reply EXCEPT ![c] = value]
    /\ UNCHANGED <<workload, clockVars, calls, op, on, pc, sent, stamp, basis, answer, metadata, lockVars,
                   timeVars, cacheVars>>

(* It refuses, or the request does not arrive or cannot be read.           *)
ExchangeFails(c) ==
    /\ Unserved(c)
    /\ \/ Answered(c, Failed)
       \/ op[c] = "status" /\ Answered(c, Refused)
    /\ UNCHANGED orders

(* A new order; its answer may be lost.                                    *)
ExchangeAccepts(c) ==
    /\ Unserved(c) /\ pc[c] = "http" /\ op[c] \in {"limit", "market"}
    /\ \E i \in Ids :
          /\ i <= workload.orders /\ orders[i] = NoOrder /\ \A j \in Ids : j < i => orders[j] # NoOrder
          /\ orders' = [orders EXCEPT ![i] = [status |-> "New", filled |-> 0]]
          /\ Answered(c, [result |-> "ok", id |-> i]) \/ Answered(c, Failed)

ExchangeCancels(c) ==
    /\ Unserved(c) /\ pc[c] = "http" /\ op[c] = "cancel"
    /\ orders[on[c]].status = "New"
    /\ orders' = [orders EXCEPT ![on[c]].status = "Cancelled"]
    /\ \E value \in {[result |-> "ok"], Failed} : Answered(c, value)

(* The time is answered as timeNano, or only as timeSecond.                *)
ExchangeReads(c) ==
    /\ Unserved(c)
    /\ \/ /\ pc[c] = "time"
          /\ \E behind \in {0, (now + skew) % SECOND} :
                Answered(c, [result |-> "ok", time |-> now + skew - behind, at |-> now, drift |-> drifted])
       \/ pc[c] = "qty" /\ Answered(c, [result |-> "ok"])
       \/ pc[c] = "http" /\ op[c] = "book" /\ Answered(c, [result |-> "ok", time |-> now])
       \/ pc[c] = "http" /\ op[c] = "query" /\ Answered(c, [result |-> "ok"])
       \/ /\ pc[c] = "http" /\ op[c] \in {"status", "detailed"}
          /\ Answered(c, [result |-> "ok", order |-> orders[on[c]]])
    /\ UNCHANGED orders

ExchangeServes(c) == ExchangeFails(c) \/ ExchangeAccepts(c) \/ ExchangeCancels(c) \/ ExchangeReads(c)

(* The answer never comes, whether the request was served or not.  No      *)
(* timeout ends the wait: the call keeps what it holds.                    *)
Hang(c) ==
    /\ Waiting(c)
    /\ pc' = [pc EXCEPT ![c] = "hung"]
    /\ reply' = [reply EXCEPT ![c] = NoReply]
    /\ UNCHANGED <<workload, clockVars, orders, calls, op, on, sent, stamp, basis, answer, metadata,
                   lockVars, timeVars, cacheVars>>

(* It fills an order, a step at a time, or cancels the rest of it.         *)
ExchangeFills(i) ==
    /\ orders[i].status = "New"
    /\ orders' = [orders EXCEPT ![i] =
                    [status |-> IF @.filled + 1 = SIZE THEN "Filled" ELSE "New",
                     filled |-> @.filled + 1]]
    /\ UNCHANGED <<workload, clockVars, calls, callVars, metadata, lockVars, timeVars, cacheVars>>

ExchangeDrops(i) ==
    /\ orders[i].status = "New"
    /\ orders' = [orders EXCEPT ![i].status = "Cancelled"]
    /\ UNCHANGED <<workload, clockVars, calls, callVars, metadata, lockVars, timeVars, cacheVars>>

Size(d) == IF d < 0 THEN -d ELSE d

(* Time passes while every caller waits for the exchange or for the        *)
(* metadata, and no request that will be answered has taken its longest.   *)
Tick ==
    /\ now < workload.time
    /\ \A c \in Callers :
          \/ pc[c] \in {"idle", "hung"}
          \/ pc[c] \in {"lock", "record"} /\ metadata_lock # Nobody
          \/ Waiting(c) /\ now - sent[c] < LATENCY
    /\ now' = now + 1
    /\ \E d \in Drifts :
          /\ skew' = skew + d
          /\ drifted' = drifted + Size(d)
          /\ drifted' <= workload.drift
    /\ UNCHANGED <<workload, orders, calls, callVars, metadata, lockVars, timeVars, cacheVars>>

Next ==
    \/ \E c \in Callers : Call(c) \/ Proceed(c) \/ ExchangeServes(c) \/ Hang(c)
    \/ \E i \in Ids : ExchangeFills(i) \/ ExchangeDrops(i)
    \/ Tick

(* A request that does not hang is answered, if only with an error, and a  *)
(* woken task runs.  tokio's Mutex serves its waiters in turn; with a      *)
(* bounded number of calls weak fairness is enough for that.               *)
Fairness ==
    \A c \in Callers : WF_vars(Proceed(c)) /\ WF_vars(ExchangeServes(c))

Spec == Init /\ [][Next]_vars /\ Fairness

-----------------------------------------------------------------------------
(* Properties.                                                             *)

(* What a call says of a real order is true when it returns and stays      *)
(* true, whatever else happened while its answer was on the way: Filled    *)
(* and Cancelled orders are, an order cancelled with Ok never fills        *)
(* further, and a filled quantity is never more than what the order has.   *)
(* It says nothing of place_market_order, which calls its order Filled     *)
(* unseen, and of the Pending that get_order_status makes of an error.     *)
AnswersAreTrue ==
    answer.kind \in {"cancel", "status", "detailed"} /\ answer.id # Sim =>
        LET order == orders[answer.id]
        IN  /\ answer.status \in {"Filled", "Cancelled"} => order.status = answer.status
            /\ answer.filled <= order.filled

(* The timestamp of a signed request on its way to the exchange is ahead   *)
(* of the exchange's clock by at most half a latency and what the clocks   *)
(* have drifted apart since the reading of the time behind it, and behind  *)
(* by no more than that, the two requests it may wait for and the second   *)
(* that timeSecond lacks: overlapping resynchronizations that finish out   *)
(* of order do not widen it.  Unless a resynchronization failed, get_      *)
(* timestamp's 5 s keep that reading recent, and so the drift small.       *)
StampIsClose ==
    \A c \in Callers : pc[c] = "http" /\ op[c] # "book" /\ basis[c].at >= 0 =>
        LET ahead == stamp[c] - (now + skew)
            half == (LATENCY + 1) \div 2
            drift == drifted - basis[c].drift
        IN  /\ -(half + 2 * LATENCY + SECOND - 1 + drift) <= ahead
            /\ ahead <= half + drift
            /\ basis[c].how = "fresh" => now - basis[c].at <= RESYNC_AFTER + 3 * LATENCY

(* A book that is returned was the exchange's less than a TTL and a        *)
(* latency ago, although the cache is dated on arrival and the answer of *)
(* an older request may replace that of a newer one.                       *)
BookAgeBounded == answer.kind = "book" => answer.age < CACHE_TTL + LATENCY

(* Every call returns, unless its own request hangs or the guard of        *)
(* order_metadata it waits for is held over a request that hangs: no       *)
(* caller waits for ever for another that is still served, or for the      *)
(* time.                                                                   *)
CallsReturn ==
    \A c \in Callers : (pc[c] # "idle") ~>
        \/ pc[c] \in {"idle", "hung"}
        \/ pc[c] \in {"lock", "record"} /\ \E d \in Callers : metadata_lock = d /\ pc[d] = "hung"
=============================================================================
