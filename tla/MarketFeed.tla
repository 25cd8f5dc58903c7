------------------------------ MODULE MarketFeed ------------------------------
(***************************************************************************)
(* From the exchange's websocket to Redis: a connector's worker            *)
(* (bybit.rs, kucoin.rs, okx.rs, bitget.rs, hyperliquid.rs, paradex.rs,    *)
(* utils.rs), the open-interest poller, the channel, redis_bridge, the     *)
(* Redis queue, the Redis writer thread and the shutdown of the process    *)
(* (main.rs).                                                              *)
(*                                                                         *)
(* One worker follows one symbol.  The exchange's book of it is a pair of  *)
(* counters: how often the bid and the ask have changed.  A quote is such  *)
(* a pair; 0 stands for a field that is missing.  An item is a key and a   *)
(* quote.  The keys are that of the ticker and the "other" ones: order     *)
(* books, funding and open interest, whose values are left out and which   *)
(* compete with the ticker for the room in the queues.                     *)
(***************************************************************************)
EXTENDS Integers, Sequences, FiniteSetsExt

CONSTANTS
    Connectors,          \* the connectors to consider
    OtherTopics,         \* the other topics of which a message may come
    CHANNEL_CAPACITY,    \* of the mpsc channel
    REDIS_QUEUE_CAPACITY,
    REDIS_FLUSH_MAX_ITEMS,
    MAX_CHANGES,         \* bound: changes of Bybit's book
    MAX_POLLS,           \* bound: answers to the open-interest poller
    MAX_FAULTS           \* bound: connection losses, refusals and Redis errors

ASSUME FeedAssumption ==
    /\ Connectors \subseteq {"bybit", "kucoin", "okx", "bitget", "hyperliquid", "paradex"}
    /\ "ticker" \notin OtherTopics
    /\ {CHANNEL_CAPACITY, REDIS_QUEUE_CAPACITY, REDIS_FLUSH_MAX_ITEMS} \subseteq Nat \ {0}

VARIABLES
    \* the exchange
    connector,    \* which one it is
    book,         \* <<bid, ask>>
    books,        \* history: every value the book has had
    socket,       \* messages on their way to the worker
    faults,       \* faults so far
    \* the worker
    worker,       \* where it is
    ticker_state, \* the merged quote of this session, NoData before the first message
    \* the open-interest poller
    poller, polls,
    \* the bridge and its queues
    channel,      \* the mpsc channel and the item in the bridge's hands
    full,         \* the bridge's push found the queue full
    queue,
    dropped,      \* history: the newest ticker the queue dropped
    \* the writer and Redis
    writer, conn, buffer,
    redis,        \* the value of the ticker's key
    taken,        \* history: the last ticker the writer popped
    \* the process
    main,
    owed          \* history: the newest ticker accepted before the shutdown

exchangeVars == <<connector, book, books>>
workerVars == <<worker, ticker_state>>
pollerVars == <<poller, polls>>
bridgeVars == <<full, queue, dropped>>
writerVars == <<writer, conn, buffer, redis, taken>>
mainVars == <<main, owed>>
vars == <<exchangeVars, socket, faults, workerVars, pollerVars, channel, bridgeVars,
          writerVars, mainVars>>

NoData == <<0, 0>>
Version(q) == q[1] + q[2]
Other == <<"other", NoData>>

(* Where the tickers are among some items, and the last one there is.      *)
Tickers(items) == {i \in DOMAIN items : items[i][1] = "ticker"}
LastTicker(items, default) ==
    IF Tickers(items) = {} THEN default ELSE items[Max(Tickers(items))][2]

Alive == main \notin {"exit", "returned"}

Init ==
    /\ connector \in Connectors
    /\ book = <<1, 1>> /\ books = {<<1, 1>>} /\ socket = <<>> /\ faults = 0
    /\ worker = "check" /\ ticker_state = NoData
    /\ poller = "wait" /\ polls = 0
    /\ channel = <<>> /\ full = FALSE /\ queue = <<>>
    /\ dropped = NoData
    /\ writer = "start" /\ conn = "up" /\ buffer = <<>>
    /\ redis = NoData /\ taken = NoData
    /\ main = "running" /\ owed = NoData

-----------------------------------------------------------------------------
(* The exchange.                                                           *)

(* Bybit sends the fields that changed, the others a whole ticker.         *)
MessageAfter(i) ==
    IF connector = "bybit" THEN [NoData EXCEPT ![i] = book[i] + 1]
                           ELSE [book EXCEPT ![i] = @ + 1]

(* Only Bybit's worker combines several messages; for the others one       *)
(* change after the first ticker is enough.                                *)
Changes == IF connector = "bybit" THEN MAX_CHANGES ELSE 1

BookChanges(i) ==
    /\ Alive /\ Version(book) < 2 + Changes
    /\ book' = [book EXCEPT ![i] = @ + 1]
    /\ books' = books \cup {book'}
    /\ socket' = IF worker = "read"
                 THEN Append(socket, [topic |-> "ticker", quote |-> MessageAfter(i)])
                 ELSE socket
    /\ UNCHANGED <<connector, faults, workerVars, pollerVars, channel, bridgeVars,
                   writerVars, mainVars>>

-----------------------------------------------------------------------------
(* The worker.                                                             *)

Fault == faults < MAX_FAULTS /\ faults' = faults + 1

(* connection_check and the list of symbols; only then are workers spawned.*)
CheckOk ==
    /\ Alive /\ worker = "check"
    /\ worker' = "connect"
    /\ UNCHANGED <<exchangeVars, socket, faults, ticker_state,
                   pollerVars, channel, bridgeVars, writerVars, mainVars>>

(* A request that fails makes run return an error, which spawn_connector   *)
(* ignores: this exchange stays absent.                                    *)
CheckErr ==
    /\ Alive /\ worker = "check" /\ Fault
    /\ worker' = "absent"
    /\ UNCHANGED <<exchangeVars, socket, ticker_state,
                   pollerVars, channel, bridgeVars, writerVars, mainVars>>

(* An answer other than 2xx ends the process.                              *)
CheckRefused ==
    /\ Alive /\ worker = "check" /\ Fault
    /\ main' = "exit"
    /\ UNCHANGED <<exchangeVars, socket, workerVars, pollerVars, channel, bridgeVars,
                   writerVars, owed>>

(* The session is over with a clean close (the stream ends, or a ping      *)
(* cannot be sent): reconnect at once.  What the session merged is gone.   *)
Disconnected ==
    /\ Alive /\ worker = "read" /\ Fault
    /\ worker' = "connect"
    /\ ticker_state' = NoData /\ socket' = <<>>
    /\ UNCHANGED <<exchangeVars, pollerVars, channel, bridgeVars, writerVars, mainVars>>

(* Mutant: the worker returns when its session fails.                      *)
WorkerReturns ==
    /\ Alive /\ worker \in {"connect", "read"} /\ Fault
    /\ worker' = "returned"
    /\ ticker_state' = NoData /\ socket' = <<>>
    /\ UNCHANGED <<exchangeVars, pollerVars, channel, bridgeVars, writerVars,
                   mainVars>>

(* The session fails with an error, in the request for a token (KuCoin),   *)
(* the connection, a subscription or a read: back off, then connect.  How  *)
(* long it backs off (250 ms, doubled up to 10 s) is left out.             *)
SessionErr ==
    /\ Alive /\ worker \in {"connect", "read"} /\ Fault
    /\ worker' = "connect"
    /\ ticker_state' = NoData /\ socket' = <<>>
    /\ UNCHANGED <<exchangeVars, pollerVars, channel, bridgeVars, writerVars, mainVars>>

(* What a session subscribes to.                                           *)
BybitTopics == {"ticker", "funding"}
KucoinTopics == {"ticker", "book", "funding", "announcement"}
OkxTopics == {"ticker", "funding", "book"}
BitgetTopics == {"ticker", "book"}
(* bbo is the ticker here, activeAssetCtx the book.                        *)
HyperliquidTopics == {"ticker", "book"}
ParadexTopics == {"ticker", "funding"}

Topics ==
    CASE connector = "bybit" -> BybitTopics
      [] connector = "kucoin" -> KucoinTopics
      [] connector = "okx" -> OkxTopics
      [] connector = "bitget" -> BitgetTopics
      [] connector = "hyperliquid" -> HyperliquidTopics
      [] connector = "paradex" -> ParadexTopics

(* Connected and subscribed: the exchange sends the whole ticker, and then *)
(* something on another topic or, if that is not subscribed to, only the   *)
(* answer to the subscription.                                             *)
Connect ==
    /\ Alive /\ worker = "connect"
    /\ worker' = "read"
    /\ \E other \in OtherTopics :
          socket' = <<[topic |-> "ticker", quote |-> book],
                      [topic |-> IF other \in Topics THEN other ELSE "ack", quote |-> NoData]>>
    /\ UNCHANGED <<exchangeVars, faults, ticker_state, pollerVars, channel,
                   bridgeVars, writerVars, mainVars>>

(* Mutant: the fields of the new message replace the old ones.             *)
ReplaceFields(old, new) == new

(* Bybit: the fields of the message are written over those of the session. *)
MergeFields(old, new) == [i \in 1 .. 2 |-> IF new[i] # 0 THEN new[i] ELSE old[i]]

(* KuCoin: its top-level members are, the whole of data among them.        *)
MergeMembers(old, new) == new

(* What a message makes the connector send.  A message that is not JSON or *)
(* of no topic the connector knows is skipped.                             *)
Passed(topic, quote, topics) ==
    IF topic \notin topics THEN <<>>
    ELSE IF topic = "ticker" THEN <<<<"ticker", quote>>>> ELSE <<Other>>

BybitPublish(topic, quote) ==
    IF topic = "ticker" THEN <<<<"ticker", MergeFields(ticker_state, quote)>>>>
                        ELSE Passed(topic, quote, {"funding"})

KucoinPublish(topic, quote) ==
    IF topic = "ticker" THEN <<<<"ticker", MergeMembers(ticker_state, quote)>>>>
                        ELSE Passed(topic, quote, {"funding", "book", "announcement"})

OkxPublish(topic, quote) == Passed(topic, quote, {"ticker", "funding", "book"})

BitgetPublish(topic, quote) ==
    IF topic = "ticker" THEN <<<<"ticker", quote>>, Other>>
                        ELSE Passed(topic, quote, {"book"})

HyperliquidPublish(topic, quote) == Passed(topic, quote, {"ticker", "book"})

(* The channel is part of the key, whatever it is.                         *)
ParadexPublish(topic, quote) == Passed(topic, quote, {"ticker", "funding"})

Publish(topic, quote) ==
    CASE connector = "bybit" -> BybitPublish(topic, quote)
      [] connector = "kucoin" -> KucoinPublish(topic, quote)
      [] connector = "okx" -> OkxPublish(topic, quote)
      [] connector = "bitget" -> BitgetPublish(topic, quote)
      [] connector = "hyperliquid" -> HyperliquidPublish(topic, quote)
      [] connector = "paradex" -> ParadexPublish(topic, quote)

(* One message of the session, sent on with tx.send, which waits while the *)
(* channel is full.                                                        *)
Read ==
    /\ Alive /\ worker = "read" /\ socket # <<>>
    /\ socket' = Tail(socket)
    /\ LET message == Head(socket)
           out == Publish(message.topic, message.quote)
       IN  /\ Len(channel) + Len(out) <= CHANNEL_CAPACITY
           /\ channel' = channel \o out
           /\ ticker_state' = IF message.topic = "ticker" /\ connector \in {"bybit", "kucoin"}
                              THEN out[1][2] ELSE ticker_state
    /\ UNCHANGED <<exchangeVars, faults, worker, pollerVars, bridgeVars,
                   writerVars, mainVars>>

Worker ==
    \/ CheckOk \/ CheckErr \/ CheckRefused
    \/ Connect \/ Read \/ Disconnected \/ SessionErr

-----------------------------------------------------------------------------
(* The open-interest poller.                                               *)

(* It ends at its start if it cannot connect to Redis.                     *)
PollerNoRedis ==
    /\ Alive /\ poller = "wait" /\ polls = 0 /\ Fault
    /\ poller' = "ended"
    /\ UNCHANGED <<exchangeVars, socket, workerVars, polls, channel, bridgeVars, writerVars,
                   mainVars>>

(* A request answered with an open interest is sent on; any other answer   *)
(* is skipped.                                                             *)
Poll ==
    /\ Alive /\ poller = "wait" /\ polls < MAX_POLLS
    /\ Len(channel) < CHANNEL_CAPACITY
    /\ polls' = polls + 1
    /\ channel' = Append(channel, Other)
    /\ UNCHANGED <<exchangeVars, socket, faults, workerVars, poller, bridgeVars, writerVars,
                   mainVars>>

-----------------------------------------------------------------------------
(* redis_bridge, persistent half.                                          *)

BridgePush ==
    /\ Alive /\ channel # <<>> /\ ~full /\ Len(queue) < REDIS_QUEUE_CAPACITY
    /\ queue' = Append(queue, Head(channel))
    /\ channel' = Tail(channel)
    /\ UNCHANGED <<exchangeVars, socket, faults, workerVars, pollerVars, full, dropped,
                   writerVars, mainVars>>

BridgePushFull ==
    /\ Alive /\ channel # <<>> /\ ~full /\ Len(queue) >= REDIS_QUEUE_CAPACITY
    /\ full' = TRUE
    /\ UNCHANGED <<exchangeVars, socket, faults, workerVars, pollerVars, channel, queue,
                   dropped, writerVars, mainVars>>

(* The oldest item goes, even if the writer has just made room.            *)
BridgeDropAndPush ==
    /\ Alive /\ full
    /\ queue' = Append(IF queue = <<>> THEN queue ELSE Tail(queue), Head(channel))
    /\ dropped' = IF queue = <<>> THEN dropped ELSE LastTicker(<<Head(queue)>>, dropped)
    /\ channel' = Tail(channel)
    /\ full' = FALSE
    /\ UNCHANGED <<exchangeVars, socket, faults, workerVars, pollerVars, writerVars, mainVars>>

Bridge == BridgePush \/ BridgePushFull \/ BridgeDropAndPush

-----------------------------------------------------------------------------
(* redis_writer_thread.                                                    *)

Requested == main # "running"

WriterConnect ==
    /\ Alive /\ writer = "start"
    /\ writer' = IF Requested THEN "drain" ELSE "tick"
    /\ UNCHANGED <<exchangeVars, socket, faults, workerVars, pollerVars, channel, bridgeVars,
                   conn, buffer, redis, taken, mainVars>>

(* No connection at the start: the thread returns, for good.               *)
WriterNoRedis ==
    /\ Alive /\ writer = "start" /\ Fault
    /\ writer' = "dead"
    /\ UNCHANGED <<exchangeVars, socket, workerVars, pollerVars, channel, bridgeVars,
                   conn, buffer, redis, taken, mainVars>>

(* flush_redis_buffer: one pipeline of SETs.  Redis, with those of the     *)
(* batch at the positions S carried out.                                   *)
Applied(batch, S) ==
    LET I == S \cap Tickers(batch) IN IF I = {} THEN redis ELSE batch[Max(I)][2]

FlushOk(batch) ==
    /\ conn = "up"
    /\ redis' = Applied(batch, DOMAIN batch)
    /\ buffer' = <<>>
    /\ UNCHANGED <<conn, faults>>

(* Mutant: the buffer is cleared whatever Redis answers.                   *)
FlushErrClears(batch) ==
    /\ conn = "up" /\ Fault
    /\ \E S \in SUBSET DOMAIN batch : redis' = Applied(batch, S)
    /\ buffer' = <<>>
    /\ UNCHANGED conn

(* Redis refuses some of the commands; the buffer is kept and sent again.  *)
FlushErr(batch) ==
    /\ conn = "up" /\ Fault
    /\ \E S \in SUBSET DOMAIN batch : redis' = Applied(batch, S)
    /\ buffer' = batch
    /\ UNCHANGED conn

(* The connection breaks under the pipeline; it is never opened again.     *)
FlushBreaks(batch) ==
    /\ conn = "up" /\ Fault
    /\ \E n \in 0 .. Len(batch) : redis' = Applied(batch, 1 .. n)
    /\ conn' = "broken"
    /\ buffer' = batch

FlushOnBroken(batch) ==
    /\ conn = "broken"
    /\ buffer' = batch
    /\ UNCHANGED <<conn, faults, redis>>

Flush(batch) == FlushOk(batch) \/ FlushErr(batch) \/ FlushBreaks(batch) \/ FlushOnBroken(batch)

(* One item of the queue is popped.                                        *)
PopItem ==
    /\ queue # <<>>
    /\ queue' = Tail(queue)
    /\ taken' = LastTicker(<<Head(queue)>>, taken)
    /\ UNCHANGED <<full, dropped>>

(* The tick, first loop: pop while there is room in the buffer, which a    *)
(* failed flush may have left full.                                        *)
TickPop ==
    /\ Alive /\ writer = "tick" /\ Len(buffer) < REDIS_FLUSH_MAX_ITEMS
    /\ PopItem
    /\ buffer' = Append(buffer, Head(queue))
    /\ UNCHANGED <<exchangeVars, socket, faults, workerVars, pollerVars, channel, writer, conn,
                   redis, mainVars>>

(* Then flush, and look at the shutdown flag before the next tick.  A tick *)
(* that finds neither an item nor the flag changes nothing.                *)
TickFlush ==
    /\ Alive /\ writer = "tick"
    /\ queue = <<>> \/ Len(buffer) >= REDIS_FLUSH_MAX_ITEMS
    /\ \/ buffer # <<>> /\ Flush(buffer)
       \/ buffer = <<>> /\ Requested /\ UNCHANGED <<conn, faults, redis, buffer>>
    /\ writer' = IF Requested THEN "drain" ELSE "tick"
    /\ UNCHANGED <<exchangeVars, socket, workerVars, pollerVars, channel, bridgeVars, taken,
                   mainVars>>

(* At the flag the queue is drained, in batches ...                        *)
DrainPop ==
    /\ Alive /\ writer = "drain"
    /\ PopItem
    /\ LET batch == Append(buffer, Head(queue))
       IN  IF Len(batch) >= REDIS_FLUSH_MAX_ITEMS
           THEN Flush(batch)
           ELSE buffer' = batch /\ UNCHANGED <<conn, faults, redis>>
    /\ UNCHANGED <<exchangeVars, socket, workerVars, pollerVars, channel, writer, mainVars>>

(* Mutant: what the queue still holds is not taken out.                    *)
DrainBufferOnly ==
    /\ Alive /\ writer = "drain"
    /\ writer' = "left"
    /\ IF buffer # <<>> THEN Flush(buffer) ELSE UNCHANGED <<conn, faults, redis, buffer>>
    /\ UNCHANGED <<exchangeVars, socket, workerVars, pollerVars, channel, bridgeVars,
                   taken, mainVars>>

(* ... and when a pop finds it empty, a last flush ends the thread.        *)
DrainEnd ==
    /\ Alive /\ writer = "drain" /\ queue = <<>>
    /\ writer' = "left"
    /\ IF buffer # <<>> THEN Flush(buffer) ELSE UNCHANGED <<conn, faults, redis, buffer>>
    /\ UNCHANGED <<exchangeVars, socket, workerVars, pollerVars, channel, bridgeVars,
                   taken, mainVars>>

Writer ==
    \/ WriterConnect \/ WriterNoRedis \/ TickPop \/ TickFlush \/ DrainPop \/ DrainEnd

-----------------------------------------------------------------------------
(* The shutdown.                                                           *)

(* SIGTERM or SIGINT: request_shutdown.                                    *)
Signal ==
    /\ main = "running"
    /\ main' = "awaitRunner"
    /\ owed' = LastTicker(buffer \o queue, redis)
    /\ UNCHANGED <<exchangeVars, socket, faults, workerVars, pollerVars, channel, bridgeVars,
                   writerVars>>

(* Steps 1 to 3: the runner's task has ended; the detector and the poller  *)
(* are aborted.  The runner's loop does not read the flag, so that only a  *)
(* panic, before or after the signal, can have ended it.                   *)
RunnerJoined ==
    /\ main = "awaitRunner"
    /\ main' = "awaitBridge"
    /\ poller' = "ended"
    /\ UNCHANGED <<exchangeVars, socket, faults, workerVars, polls, channel, bridgeVars,
                   writerVars, owed>>

(* Step 4: the bridge ends when the channel is empty and has no sender     *)
(* left, which a connector with a worker always is.                        *)
BridgeJoined ==
    /\ main = "awaitBridge"
    /\ worker = "absent" /\ poller = "ended"
    /\ channel = <<>>
    /\ main' = "joinWriter"
    /\ UNCHANGED <<exchangeVars, socket, faults, workerVars, pollerVars, channel, bridgeVars,
                   writerVars, owed>>

(* Steps 5 and 6: the writer's thread is joined and the state saved.       *)
WriterJoined ==
    /\ main = "joinWriter" /\ writer \in {"left", "dead"}
    /\ main' = "returned"
    /\ UNCHANGED <<exchangeVars, socket, faults, workerVars, pollerVars, channel, bridgeVars,
                   writerVars, owed>>

(* Mutant: the timeout covers the first wait only.                         *)
TimeoutOnRunner ==
    /\ main = "awaitRunner"
    /\ main' = "returned"
    /\ UNCHANGED <<exchangeVars, socket, faults, workerVars, pollerVars, channel, bridgeVars,
                   writerVars, owed>>

(* 30 seconds have passed.  Joining a thread blocks, so that the timeout   *)
(* cannot interrupt it.                                                    *)
Timeout ==
    /\ main \in {"awaitRunner", "awaitBridge"}
    /\ main' = "returned"
    /\ UNCHANGED <<exchangeVars, socket, faults, workerVars, pollerVars, channel, bridgeVars,
                   writerVars, owed>>

Shutdown == RunnerJoined \/ BridgeJoined \/ WriterJoined \/ Timeout

-----------------------------------------------------------------------------
Next ==
    \/ \E i \in 1 .. 2 : BookChanges(i)
    \/ Worker
    \/ PollerNoRedis \/ Poll
    \/ Bridge \/ Writer \/ Signal \/ Shutdown

(* Every task and thread is scheduled and the timeout fires.  That a       *)
(* request to an exchange or to Redis is answered, if only with an error,  *)
(* is an assumption.                                                       *)
Fairness ==
    /\ WF_vars(Worker) /\ WF_vars(Bridge)
    /\ WF_vars(Writer) /\ WF_vars(Shutdown)

Spec == Init /\ [][Next]_vars /\ Fairness

-----------------------------------------------------------------------------
(* Properties.                                                             *)

InFlight == channel \o queue \o buffer

(* Every ticker under way or in Redis is a book the exchange really had:   *)
(* merging Bybit's partial updates over one session never combines a bid   *)
(* with an ask of another moment, nor leaves one out, across disconnects.  *)
PublishedIsReal ==
    /\ \A i \in DOMAIN InFlight : InFlight[i][1] = "ticker" => InFlight[i][2] \in books
    /\ redis \in books \cup {NoData}

(* A flush that fails keeps its batch and the batch is sent again, after   *)
(* part of it may have been carried out.  Redis may go back in time in     *)
(* between, but once the buffer is empty it holds, for every key, the      *)
(* newest value the writer took from the queue.                            *)
FlushedIsNewest == buffer = <<>> => redis = taken

(* The writer leaves at the shutdown flag while the bridge still pushes.   *)
(* What the queue had accepted before the flag is in Redis by then, unless *)
(* the queue dropped it later or the last flush failed.                    *)
ShutdownKeepsAccepted ==
    writer = "left" /\ buffer = <<>> =>
        Version(owed) <= Max({Version(redis), Version(dropped)})

(* When the exchange's book stops changing, Redis ends up with it, over up *)
(* to MAX_FAULTS lost connections and failed flushes: unless the connector *)
(* failed its first request, the writer's only connection is gone, the     *)
(* process is ending, or the queue dropped that very value.                *)
FeedCatchesUp ==
    <>[](\/ redis = book
         \/ dropped = book
         \/ worker = "absent" \/ writer = "dead" \/ conn = "broken" \/ Requested)

(* A signal ends the process, although nothing makes the strategy runner   *)
(* or the connectors stop.                                                 *)
ShutdownEnds == (main = "awaitRunner") ~> ~Alive
=============================================================================
