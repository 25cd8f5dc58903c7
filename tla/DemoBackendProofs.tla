-------------------------- MODULE DemoBackendProofs --------------------------
(***************************************************************************)
(* Proofs about the demo backend for any number of tasks, orders and calls *)
(* and for any clock skew and drift, latency, resynchronization period and *)
(* lifetime of the book cache: what a call says of an order is and stays   *)
(* true, the timestamps stay near the exchange's clock, and a cached book  *)
(* near the exchange's, however the requests of the tasks overlap or hang. *)
(***************************************************************************)
EXTENDS DemoBackend, TLAPS

OrderCalls == {"cancel", "status", "detailed"}
Ops == {"none", "limit", "market", "query", "simulated", "sync", "book"} \cup OrderCalls
Points == {"idle", "lock", "record", "time", "qty", "http", "hung"}
Final == {"Filled", "Cancelled"}

OrderStates == [status : {"None", "New"} \cup Final, filled : Nat]

Replies ==
    {NoReply, Failed, Refused, [result |-> "ok"]}
        \cup [result : {"ok"}, id : Ids] \cup [result : {"ok"}, time : Int]
        \cup [result : {"ok"}, time : Int, at : Int, drift : Int]
        \cup [result : {"ok"}, order : OrderStates]

Readings == [at : Int, drift : Int]
Bases == [at : Int, drift : Int, how : {"none", "fresh", "old"}]

TimeType == time_offset \in Int /\ last_sync \in Nat /\ reading \in Readings

TypeOK ==
    /\ now \in Nat /\ skew \in Int /\ drifted \in Int
    /\ orders \in [Ids -> OrderStates]
    /\ op \in [Callers -> Ops]
    /\ on \in [Callers -> Ids \cup {Sim}]
    /\ pc \in [Callers -> Points]
    /\ sent \in [Callers -> Nat]
    /\ reply \in [Callers -> Replies]
    /\ stamp \in [Callers -> Int]
    /\ basis \in [Callers -> Bases]
    /\ metadata \subseteq Ids \cup {Sim}
    /\ TimeType
    /\ order_book_cache \in [at : Int, of : Int]

(* What is known of the order stays so: it does not leave a final status,  *)
(* and its filled quantity only grows.                                     *)
TrueOf(status, filled, order) ==
    /\ status \in Final => order.status = status
    /\ filled <= order.filled

(* The time on its way to the caller is of a moment since the request was  *)
(* sent.  Since then the skew has changed by no more than the drift.       *)
TimeOK(c) ==
    /\ reply[c].time \in Int /\ reply[c].at \in Nat /\ reply[c].drift \in Int
    /\ sent[c] <= reply[c].at /\ reply[c].at <= now
    /\ reply[c].time - reply[c].at - skew <= drifted - reply[c].drift
    /\ reply[c].at + skew - reply[c].time <= SECOND - 1 + (drifted - reply[c].drift)

(* An answer of the exchange on its way to the caller: the time and the    *)
(* book are of a moment since the request was sent, and what it says of an *)
(* order is still true.                                                    *)
ReplyOK(c) ==
    /\ pc[c] = "time" => TimeOK(c)
    /\ pc[c] = "http" =>
        /\ op[c] = "book" =>
            reply[c].time \in Int /\ sent[c] <= reply[c].time /\ reply[c].time <= now
        /\ op[c] \in {"limit", "market"} => reply[c].id \in Ids
        /\ op[c] \in {"status", "detailed"} =>
            /\ reply[c].order \in OrderStates
            /\ TrueOf(reply[c].order.status, reply[c].order.filled, orders[on[c]])
        /\ op[c] = "cancel" => orders[on[c]].status = "Cancelled"

Half == (LATENCY + 1) \div 2

(* The timestamp, relative to the moment the request was sent: an order    *)
(* that had to ask for its quantity step is a request older.               *)
StampOK(c) ==
    basis[c].at >= 0 /\ op[c] # "book" =>
        /\ pc[c] \in {"qty", "http"} =>
            stamp[c] - skew <= sent[c] + Half + (drifted - basis[c].drift)
        /\ pc[c] = "qty" =>
            /\ sent[c] - Half - (SECOND - 1) - (drifted - basis[c].drift) <= stamp[c] - skew
            /\ basis[c].how = "fresh" => sent[c] - basis[c].at <= RESYNC_AFTER + LATENCY
        /\ pc[c] = "http" =>
            /\ sent[c] - LATENCY - Half - (SECOND - 1) - (drifted - basis[c].drift) <= stamp[c] - skew
            /\ basis[c].how = "fresh" => sent[c] - basis[c].at <= RESYNC_AFTER + 2 * LATENCY

CallerOK(c) ==
    /\ Waiting(c) => sent[c] <= now /\ now - sent[c] <= LATENCY
    /\ op[c] \in OrderCalls /\ pc[c] # "lock" => on[c] \in Ids
    /\ reply[c].result = "ok" => ReplyOK(c)
    /\ StampOK(c)

(* An offset is off by half a latency, the second that timeSecond lacks    *)
(* and what the clocks have drifted since the reading it comes from.       *)
Near(offset, read) ==
    /\ offset - skew <= Half + (drifted - read.drift)
    /\ skew - offset <= Half + (SECOND - 1) + (drifted - read.drift)

(* The state of the client that its callers share.                         *)
OffsetOK == reading.at >= 0 => Near(time_offset, reading) /\ last_sync - LATENCY <= reading.at

CacheOK ==
    order_book_cache # NoBook =>
        /\ order_book_cache.of <= order_book_cache.at /\ order_book_cache.at <= now
        /\ order_book_cache.at - order_book_cache.of <= LATENCY

AnswerOK ==
    /\ answer.kind \in OrderCalls /\ answer.id # Sim =>
        /\ answer.id \in Ids /\ answer.filled \in Nat
        /\ TrueOf(answer.status, answer.filled, orders[answer.id])
    /\ BookAgeBounded

IInv ==
    /\ TypeOK
    /\ \A c \in Callers : CallerOK(c)
    /\ OffsetOK
    /\ CacheOK
    /\ AnswerOK

USE BackendAssumption

-----------------------------------------------------------------------------
(* The steps of one caller leave the others where they are.                *)
Others(c) ==
    \A d \in Callers \ {c} :
        /\ pc'[d] = pc[d] /\ op'[d] = op[d] /\ on'[d] = on[d]
        /\ sent'[d] = sent[d] /\ reply'[d] = reply[d]
        /\ stamp'[d] = stamp[d] /\ basis'[d] = basis[d]

(* What the exchange may do to an order.                                   *)
OrdersGrow ==
    \A i \in Ids : TrueOf(orders[i].status, orders[i].filled, orders'[i])

LEMMA SameOrders ==
    ASSUME TypeOK, orders' = orders
    PROVE  OrdersGrow
  BY DEF TypeOK, OrdersGrow, TrueOf, OrderStates

LEMMA StillTrue ==
    ASSUME NEW status, NEW filled \in Nat, NEW old \in OrderStates, NEW new \in OrderStates,
           TrueOf(status, filled, old), TrueOf(old.status, old.filled, new)
    PROVE  TrueOf(status, filled, new)
  BY DEF TrueOf, OrderStates

(* A caller's place stays right while the exchange's orders go on.         *)
LEMMA RowStays ==
    ASSUME TypeOK, TypeOK', OrdersGrow, now' = now, skew' = skew, drifted' = drifted,
           NEW d \in Callers, CallerOK(d),
           pc'[d] = pc[d], op'[d] = op[d], on'[d] = on[d], sent'[d] = sent[d],
           reply'[d] = reply[d], stamp'[d] = stamp[d], basis'[d] = basis[d]
    PROVE  CallerOK(d)'
<1>1. (Waiting(d) => sent[d] <= now /\ now - sent[d] <= LATENCY)'
  BY DEF CallerOK, Waiting
<1>2. (op[d] \in OrderCalls /\ pc[d] # "lock" => on[d] \in Ids)'
  BY DEF CallerOK
<1>3. StampOK(d)'
  BY Zenon DEF CallerOK, StampOK
<1>4. ASSUME reply[d].result = "ok" PROVE ReplyOK(d)'
  <2>1. ReplyOK(d)
    BY <1>4 DEF CallerOK
  <2>2. (pc[d] = "time" => TimeOK(d))'
    BY <2>1, Zenon DEF ReplyOK, TimeOK
  <2>3. (pc[d] = "http" /\ op[d] = "book" =>
          reply[d].time \in Int /\ sent[d] <= reply[d].time /\ reply[d].time <= now)'
    BY <2>1 DEF ReplyOK
  <2>4. (pc[d] = "http" /\ op[d] \in {"limit", "market"} => reply[d].id \in Ids)'
    BY <2>1 DEF ReplyOK
  <2>5. ASSUME pc[d] = "http", op[d] \in OrderCalls
        PROVE  /\ on[d] \in Ids /\ orders[on[d]] \in OrderStates /\ orders'[on[d]] \in OrderStates
               /\ TrueOf(orders[on[d]].status, orders[on[d]].filled, orders'[on[d]])
    BY <2>5 DEF CallerOK, OrdersGrow, TypeOK
  <2>6. ASSUME pc[d] = "http", op[d] \in {"status", "detailed"}
        PROVE  /\ reply[d].order \in OrderStates
               /\ TrueOf(reply[d].order.status, reply[d].order.filled, orders'[on[d]])
    <3>1. /\ reply[d].order \in OrderStates
          /\ TrueOf(reply[d].order.status, reply[d].order.filled, orders[on[d]])
      BY <2>1, <2>6 DEF ReplyOK
    <3>2. reply[d].order.filled \in Nat
      BY <3>1 DEF OrderStates
    <3> QED BY <2>5, <2>6, <3>1, <3>2, StillTrue DEF OrderCalls
  <2>7. ASSUME pc[d] = "http", op[d] = "cancel" PROVE orders'[on[d]].status = "Cancelled"
    <3>1. orders[on[d]].status = "Cancelled"
      BY <2>1, <2>7 DEF ReplyOK
    <3> QED BY <2>5, <2>7, <3>1 DEF OrderCalls, TrueOf, Final
  <2> QED BY <2>2, <2>3, <2>4, <2>6, <2>7 DEF ReplyOK
<1> QED BY <1>1, <1>2, <1>3, <1>4 DEF CallerOK

LEMMA OthersStay ==
    ASSUME IInv, TypeOK', OrdersGrow, now' = now, skew' = skew, drifted' = drifted, NEW c, Others(c)
    PROVE  \A d \in Callers \ {c} : CallerOK(d)'
<1> SUFFICES ASSUME NEW d \in Callers \ {c} PROVE CallerOK(d)'
  OBVIOUS
<1>1. TypeOK /\ CallerOK(d)
  BY DEF IInv
<1>2. /\ pc'[d] = pc[d] /\ op'[d] = op[d] /\ on'[d] = on[d]
      /\ sent'[d] = sent[d] /\ reply'[d] = reply[d]
      /\ stamp'[d] = stamp[d] /\ basis'[d] = basis[d]
  BY Zenon DEF Others
<1> QED BY <1>1, <1>2, RowStays

(* An answer stays true while orders go on.                                *)
LEMMA AnswerStays ==
    ASSUME IInv, TypeOK', OrdersGrow, answer' = answer
    PROVE  AnswerOK'
<1>1. BookAgeBounded'
  BY DEF IInv, AnswerOK, BookAgeBounded
<1>2. ASSUME answer.kind \in OrderCalls, answer.id # Sim
      PROVE  /\ answer.id \in Ids /\ answer.filled \in Nat
             /\ TrueOf(answer.status, answer.filled, orders'[answer.id])
  <2>1. /\ answer.id \in Ids /\ answer.filled \in Nat
        /\ TrueOf(answer.status, answer.filled, orders[answer.id])
    BY <1>2 DEF IInv, AnswerOK
  <2>2. /\ orders[answer.id] \in OrderStates /\ orders'[answer.id] \in OrderStates
        /\ TrueOf(orders[answer.id].status, orders[answer.id].filled, orders'[answer.id])
    BY <2>1 DEF IInv, TypeOK, OrdersGrow
  <2> QED BY <2>1, <2>2, StillTrue
<1> QED BY <1>1, <1>2 DEF AnswerOK

-----------------------------------------------------------------------------
(* Sending, waiting and returning.                                         *)

LEMMA SimpleReplies ==
    /\ NoReply \in Replies /\ NoReply.result = "none"
    /\ Failed \in Replies /\ Failed.result = "failed"
    /\ Refused \in Replies /\ Refused.result = "refused"
  BY DEF Replies, NoReply, Failed, Refused

LEMMA SendRow ==
    ASSUME TypeOK, NEW c \in Callers, NEW point \in Points, Send(c, point)
    PROVE  /\ pc' \in [Callers -> Points] /\ sent' \in [Callers -> Nat] /\ reply' \in [Callers -> Replies]
           /\ pc'[c] = point /\ sent'[c] = now /\ reply'[c] = NoReply
           /\ \A d \in Callers \ {c} : pc'[d] = pc[d] /\ sent'[d] = sent[d] /\ reply'[d] = reply[d]
<1>1. /\ pc \in [Callers -> Points] /\ sent \in [Callers -> Nat] /\ reply \in [Callers -> Replies]
      /\ now \in Nat /\ NoReply \in Replies
  BY SimpleReplies DEF TypeOK
<1>2. /\ pc' = [pc EXCEPT ![c] = point] /\ sent' = [sent EXCEPT ![c] = now]
      /\ reply' = [reply EXCEPT ![c] = NoReply]
  BY DEF Send
<1> HIDE DEF Points, Replies, NoReply
<1> QED BY <1>1, <1>2

LEMMA StartRow ==
    ASSUME TypeOK, NEW c \in Callers, NEW what \in Ops, NEW i \in Ids \cup {Sim}, Start(c, what, i)
    PROVE  /\ op' \in [Callers -> Ops] /\ on' \in [Callers -> Ids \cup {Sim}]
           /\ op'[c] = what /\ on'[c] = i /\ answer' = answer
           /\ \A d \in Callers \ {c} : op'[d] = op[d] /\ on'[d] = on[d]
<1>1. op \in [Callers -> Ops] /\ on \in [Callers -> Ids \cup {Sim}]
  BY DEF TypeOK
<1>2. op' = [op EXCEPT ![c] = what] /\ on' = [on EXCEPT ![c] = i] /\ answer' = answer
  BY DEF Start
<1> HIDE DEF Ops, Ids, Sim
<1> QED BY <1>1, <1>2

LEMMA ReturnRow ==
    ASSUME TypeOK, NEW c \in Callers, NEW value, Return(c, value)
    PROVE  /\ pc' \in [Callers -> Points] /\ sent' \in [Callers -> Nat] /\ reply' \in [Callers -> Replies]
           /\ op' \in [Callers -> Ops] /\ on' \in [Callers -> Ids \cup {Sim}]
           /\ stamp' \in [Callers -> Int] /\ basis' \in [Callers -> Bases]
           /\ pc'[c] = "idle" /\ op'[c] = "none" /\ reply'[c] = NoReply /\ answer' = value
           /\ Others(c)
<1>1. /\ pc \in [Callers -> Points] /\ sent \in [Callers -> Nat] /\ reply \in [Callers -> Replies]
      /\ op \in [Callers -> Ops] /\ on \in [Callers -> Ids \cup {Sim}]
      /\ stamp \in [Callers -> Int] /\ basis \in [Callers -> Bases]
      /\ NoReply \in Replies /\ "idle" \in Points /\ "none" \in Ops /\ Sim \in Ids \cup {Sim}
      /\ NoBasis \in Bases
  BY SimpleReplies DEF TypeOK, Points, Ops, NoBasis, Bases
<1>2. /\ pc' = [pc EXCEPT ![c] = "idle"] /\ op' = [op EXCEPT ![c] = "none"]
      /\ on' = [on EXCEPT ![c] = Sim] /\ sent' = [sent EXCEPT ![c] = 0]
      /\ stamp' = [stamp EXCEPT ![c] = 0] /\ basis' = [basis EXCEPT ![c] = NoBasis]
      /\ reply' = [reply EXCEPT ![c] = NoReply] /\ answer' = value
  BY DEF Return
<1> HIDE DEF Ops, Ids, Sim, Points, Replies, NoReply, Bases, NoBasis
<1>3. pc' \in [Callers -> Points] /\ pc'[c] = "idle" /\ \A d \in Callers \ {c} : pc'[d] = pc[d]
  BY <1>1, <1>2
<1>4. op' \in [Callers -> Ops] /\ op'[c] = "none" /\ \A d \in Callers \ {c} : op'[d] = op[d]
  BY <1>1, <1>2
<1>5. on' \in [Callers -> Ids \cup {Sim}] /\ \A d \in Callers \ {c} : on'[d] = on[d]
  BY <1>1, <1>2
<1>6. sent' \in [Callers -> Nat] /\ \A d \in Callers \ {c} : sent'[d] = sent[d]
  BY <1>1, <1>2
<1>7. stamp' \in [Callers -> Int] /\ \A d \in Callers \ {c} : stamp'[d] = stamp[d]
  BY <1>1, <1>2
<1>8. basis' \in [Callers -> Bases] /\ \A d \in Callers \ {c} : basis'[d] = basis[d]
  BY <1>1, <1>2
<1>9. /\ reply' \in [Callers -> Replies] /\ reply'[c] = NoReply
      /\ \A d \in Callers \ {c} : reply'[d] = reply[d]
  BY <1>1, <1>2
<1>10. Others(c)
  BY <1>3, <1>4, <1>5, <1>6, <1>7, <1>8, <1>9, Zenon DEF Others
<1> QED BY <1>2, <1>3, <1>4, <1>5, <1>6, <1>7, <1>8, <1>9, <1>10

(* A call that returns: only its answer and what it leaves in the caches   *)
(* and the metadata can be wrong.                                          *)
LEMMA ReturnStep ==
    ASSUME IInv, NEW c \in Callers, NEW value, Return(c, value),
           UNCHANGED <<now, skew, drifted, orders>>,
           metadata' \subseteq Ids \cup {Sim}, TimeType', OffsetOK',
           order_book_cache' \in [at : Int, of : Int], CacheOK', AnswerOK'
    PROVE  IInv'
<1>1. TypeOK
  BY DEF IInv
<1>2. /\ pc' \in [Callers -> Points] /\ sent' \in [Callers -> Nat] /\ reply' \in [Callers -> Replies]
      /\ op' \in [Callers -> Ops] /\ on' \in [Callers -> Ids \cup {Sim}]
      /\ stamp' \in [Callers -> Int] /\ basis' \in [Callers -> Bases]
      /\ pc'[c] = "idle" /\ op'[c] = "none" /\ reply'[c] = NoReply
      /\ Others(c)
  BY <1>1, ReturnRow
<1>3. now' \in Nat /\ skew' \in Int /\ drifted' \in Int /\ orders' \in [Ids -> OrderStates]
  BY <1>1 DEF TypeOK
<1>4. TypeOK'
  BY <1>2, <1>3, Zenon DEF TypeOK
<1>5. \A d \in Callers \ {c} : CallerOK(d)'
  <2>1. OrdersGrow
    BY <1>1, SameOrders
  <2>2. now' = now /\ skew' = skew /\ drifted' = drifted
    OBVIOUS
  <2> QED BY <1>2, <1>4, <2>1, <2>2, OthersStay
<1>6. CallerOK(c)'
  BY <1>2, SimpleReplies DEF CallerOK, Waiting, StampOK, OrderCalls
<1>7. \A d \in Callers : CallerOK(d)'
  BY <1>5, <1>6
<1> QED BY <1>4, <1>7 DEF IInv

(* A call that goes on: the caller's own place can be wrong.               *)
LEMMA MoveStep ==
    ASSUME IInv, NEW c \in Callers, Others(c),
           UNCHANGED <<now, skew, drifted, answer, metadata, order_book_cache>>,
           orders' \in [Ids -> OrderStates], OrdersGrow, TimeType', OffsetOK',
           pc' \in [Callers -> Points], sent' \in [Callers -> Nat], reply' \in [Callers -> Replies],
           op' \in [Callers -> Ops], on' \in [Callers -> Ids \cup {Sim}],
           stamp' \in [Callers -> Int], basis' \in [Callers -> Bases],
           CallerOK(c)'
    PROVE  IInv'
<1>1. TypeOK /\ CacheOK
  BY DEF IInv
<1>2. TypeOK'
  BY <1>1, Zenon DEF TypeOK
<1>3. \A d \in Callers \ {c} : CallerOK(d)'
  <2>2. now' = now /\ skew' = skew /\ drifted' = drifted
    OBVIOUS
  <2> QED BY <1>2, <2>2, OthersStay
<1>4. \A d \in Callers : CallerOK(d)'
  BY <1>3
<1>5. AnswerOK'
  BY <1>2, AnswerStays
<1>6. CacheOK'
  BY <1>1 DEF CacheOK
<1> QED BY <1>2, <1>4, <1>5, <1>6 DEF IInv

LEMMA OffsetStays ==
    ASSUME IInv, UNCHANGED <<skew, drifted, timeVars>>
    PROVE  TimeType' /\ OffsetOK'
<1>1. /\ time_offset' = time_offset /\ last_sync' = last_sync /\ reading' = reading
      /\ skew' = skew /\ drifted' = drifted
  BY DEF timeVars
<1>2. TimeType /\ OffsetOK
  BY DEF IInv, TypeOK
<1>3. OffsetOK'
  BY <1>1, <1>2, Zenon DEF OffsetOK, Near
<1>4. TimeType'
  BY <1>1, <1>2, Zenon DEF TimeType
<1> QED BY <1>3, <1>4

(* Another part of the premises above: the caller's operation and order.   *)
OpRow(c, what) ==
    /\ op' \in [Callers -> Ops] /\ on' \in [Callers -> Ids \cup {Sim}]
    /\ op'[c] = what /\ (what \in OrderCalls => on'[c] \in Ids)
    /\ \A d \in Callers \ {c} : op'[d] = op[d] /\ on'[d] = on[d]

(* A request is sent with a timestamp of this moment.                      *)
LEMMA StampedStep ==
    ASSUME IInv, NEW c \in Callers, NEW what \in Ops, NEW offset \in Int, NEW read \in Readings,
           NEW how \in {"fresh", "old"}, Stamped(c, what, offset, read, how),
           read.at >= 0 => Near(offset, read),
           read.at >= 0 /\ how = "fresh" => now - read.at <= RESYNC_AFTER + LATENCY,
           UNCHANGED <<now, skew, drifted, orders, answer, metadata, order_book_cache>>,
           TimeType', OffsetOK', OpRow(c, what)
    PROVE  IInv'
<1>1. TypeOK
  BY DEF IInv
<1>2. PICK point \in {"qty", "http"} : Send(c, point)
  BY DEF Stamped
<1>3. point \in Points
  BY DEF Points
<1>4. /\ pc' \in [Callers -> Points] /\ sent' \in [Callers -> Nat] /\ reply' \in [Callers -> Replies]
      /\ pc'[c] = point /\ sent'[c] = now /\ reply'[c] = NoReply
      /\ \A d \in Callers \ {c} : pc'[d] = pc[d] /\ sent'[d] = sent[d] /\ reply'[d] = reply[d]
  BY <1>1, <1>2, <1>3, SendRow
<1>5. PICK new : /\ new = [at |-> read.at, drift |-> read.drift, how |-> how]
                 /\ stamp' = [stamp EXCEPT ![c] = now + offset] /\ basis' = [basis EXCEPT ![c] = new]
  BY DEF Stamped
<1>16. /\ new \in Bases /\ new.at = read.at /\ new.drift = read.drift /\ new.how = how
       /\ read.at \in Int /\ read.drift \in Int
  BY <1>5 DEF Bases, Readings
<1>6. /\ stamp \in [Callers -> Int] /\ basis \in [Callers -> Bases]
      /\ now \in Nat /\ skew \in Int /\ drifted \in Int
  BY <1>1 DEF TypeOK
<1>7. /\ stamp' \in [Callers -> Int] /\ stamp'[c] = now + offset
      /\ \A d \in Callers \ {c} : stamp'[d] = stamp[d]
  BY <1>5, <1>6
<1>8. /\ basis' \in [Callers -> Bases] /\ basis'[c] = new
      /\ \A d \in Callers \ {c} : basis'[d] = basis[d]
  <2> HIDE DEF Bases
  <2> QED BY <1>5, <1>6, <1>16
<1>9. Others(c)
  BY <1>4, <1>7, <1>8, Zenon DEF Others, OpRow
<1>10. Half \in Nat /\ LATENCY \in Nat /\ SECOND \in Nat /\ RESYNC_AFTER \in Nat
  BY DEF Half
<1>11. StampOK(c)'
  <2>1. ASSUME read.at >= 0
        PROVE  /\ stamp'[c] - skew <= sent'[c] + Half + (drifted - read.drift)
               /\ sent'[c] - Half - (SECOND - 1) - (drifted - read.drift) <= stamp'[c] - skew
               /\ sent'[c] - LATENCY - Half - (SECOND - 1) - (drifted - read.drift) <= stamp'[c] - skew
               /\ how = "fresh" => /\ sent'[c] - read.at <= RESYNC_AFTER + LATENCY
                                   /\ sent'[c] - read.at <= RESYNC_AFTER + 2 * LATENCY
    <3>1. /\ offset - skew <= Half + (drifted - read.drift)
          /\ skew - offset <= Half + (SECOND - 1) + (drifted - read.drift)
      BY <2>1 DEF Near
    <3> HIDE DEF Half
    <3> QED BY <1>4, <1>6, <1>7, <1>10, <1>16, <2>1, <3>1
  <2>2. /\ basis'[c].at = read.at /\ basis'[c].drift = read.drift /\ basis'[c].how = how
        /\ skew' = skew /\ drifted' = drifted
    BY <1>8, <1>16
  <2> QED BY <2>1, <2>2, Zenon DEF StampOK, Half
<1>12. CallerOK(c)'
  <2>1. (Waiting(c) => sent[c] <= now /\ now - sent[c] <= LATENCY)'
    BY <1>4, <1>6
  <2>2. (op[c] \in OrderCalls /\ pc[c] # "lock" => on[c] \in Ids)'
    BY DEF OpRow
  <2>3. reply'[c].result # "ok"
    BY <1>4, SimpleReplies
  <2> QED BY <1>11, <2>1, <2>2, <2>3 DEF CallerOK
<1>13. orders' \in [Ids -> OrderStates] /\ OrdersGrow
  BY <1>1, SameOrders DEF TypeOK
<1>14. op' \in [Callers -> Ops] /\ on' \in [Callers -> Ids \cup {Sim}]
  BY DEF OpRow
<1>15. UNCHANGED <<now, skew, drifted, answer, metadata, order_book_cache>>
  OBVIOUS
<1> QED BY <1>4, <1>7, <1>8, <1>9, <1>12, <1>13, <1>14, <1>15, MoveStep

(* A request is sent for which no timestamp is needed yet, or none at all. *)
LEMMA SentStep ==
    ASSUME IInv, NEW c \in Callers, NEW what \in Ops, NEW point \in Points,
           Send(c, point), UNCHANGED <<stamp, basis>>,
           point = "time" \/ what = "book",
           UNCHANGED <<now, skew, drifted, orders, answer, metadata, order_book_cache, timeVars>>,
           OpRow(c, what)
    PROVE  IInv'
<1>1. TypeOK /\ TimeType' /\ OffsetOK'
  BY OffsetStays DEF IInv
<1>4. /\ pc' \in [Callers -> Points] /\ sent' \in [Callers -> Nat] /\ reply' \in [Callers -> Replies]
      /\ pc'[c] = point /\ sent'[c] = now /\ reply'[c] = NoReply
      /\ \A d \in Callers \ {c} : pc'[d] = pc[d] /\ sent'[d] = sent[d] /\ reply'[d] = reply[d]
  BY <1>1, SendRow
<1>6. stamp' = stamp /\ basis' = basis /\ now' = now
  OBVIOUS
<1>7. stamp' \in [Callers -> Int] /\ basis' \in [Callers -> Bases] /\ now \in Nat
  BY <1>1, <1>6 DEF TypeOK
<1>9. Others(c)
  BY <1>4, <1>6, Zenon DEF Others, OpRow
<1>11. StampOK(c)'
  BY <1>4 DEF StampOK, OpRow
<1>12. CallerOK(c)'
  <2>1. (Waiting(c) => sent[c] <= now /\ now - sent[c] <= LATENCY)'
    BY <1>4, <1>6, <1>7
  <2>2. (op[c] \in OrderCalls /\ pc[c] # "lock" => on[c] \in Ids)'
    BY DEF OpRow
  <2>3. reply'[c].result # "ok"
    BY <1>4, SimpleReplies
  <2> QED BY <1>11, <2>1, <2>2, <2>3 DEF CallerOK
<1>13. orders' \in [Ids -> OrderStates] /\ OrdersGrow
  BY <1>1, SameOrders DEF TypeOK
<1>14. op' \in [Callers -> Ops] /\ on' \in [Callers -> Ids \cup {Sim}]
  BY DEF OpRow
<1>15. UNCHANGED <<now, skew, drifted, answer, metadata, order_book_cache>>
  OBVIOUS
<1> QED BY <1>1, <1>4, <1>7, <1>9, <1>12, <1>13, <1>14, <1>15, MoveStep

LEMMA TimestampStep ==
    ASSUME IInv, NEW c \in Callers, NEW what \in Ops, GetTimestamp(c, what),
           UNCHANGED <<now, skew, drifted, orders, answer, metadata, order_book_cache, timeVars>>,
           OpRow(c, what)
    PROVE  IInv'
<1>1. TimeType /\ OffsetOK
  BY DEF IInv, TypeOK
<1>2. TimeType' /\ OffsetOK'
  BY OffsetStays
<1>3. CASE Send(c, "time") /\ UNCHANGED <<stamp, basis>>
  <2>1. "time" \in Points
    BY DEF Points
  <2> QED BY <1>3, <2>1, SentStep
<1>4. CASE now - last_sync <= RESYNC_AFTER /\ Stamped(c, what, time_offset, reading, "fresh")
  <2>1. reading.at >= 0 => Near(time_offset, reading)
    BY <1>1 DEF OffsetOK
  <2>2. UNCHANGED <<now, skew, drifted, orders, answer, metadata, order_book_cache>>
    OBVIOUS
  <2>3. time_offset \in Int /\ last_sync \in Nat /\ reading \in Readings /\ reading.at \in Int /\ now \in Nat
    BY <1>1 DEF TimeType, Readings, IInv, TypeOK
  <2>4. reading.at >= 0 => now - reading.at <= RESYNC_AFTER + LATENCY
    BY <1>1, <1>4, <2>3 DEF OffsetOK
  <2> QED BY <1>2, <1>4, <2>1, <2>2, <2>3, <2>4, StampedStep
<1>5. now \in Nat /\ last_sync \in Nat
  BY <1>1 DEF TimeType, IInv, TypeOK
<1> QED BY <1>3, <1>4, <1>5 DEF GetTimestamp

-----------------------------------------------------------------------------
(* One lemma for each step of a caller.                                    *)

LEMMA SimIsNoId == Sim \notin Ids /\ Sim \in Ids \cup {Sim}
  BY DEF Sim, Ids

(* The shared state a step leaves alone stays right.                       *)
LEMMA SharedStays ==
    ASSUME IInv, UNCHANGED <<now, skew, drifted, timeVars, order_book_cache>>
    PROVE  /\ TimeType' /\ OffsetOK'
           /\ order_book_cache' \in [at : Int, of : Int] /\ CacheOK'
<1>1. CacheOK /\ order_book_cache \in [at : Int, of : Int]
  BY DEF IInv, TypeOK
<1>2. now' = now /\ order_book_cache' = order_book_cache
  OBVIOUS
<1>3. CacheOK'
  BY <1>1, <1>2 DEF CacheOK
<1> QED BY <1>1, <1>2, <1>3, OffsetStays

LEMMA CallSignedStep ==
    ASSUME IInv, NEW c \in Callers, CallSigned(c)
    PROVE  IInv'
<1>1. PICK what \in {"limit", "market", "query"} : Start(c, what, Sim) /\ GetTimestamp(c, what)
  BY DEF CallSigned
<1>2. UNCHANGED <<now, skew, drifted, orders, metadata, order_book_cache, timeVars>>
  BY DEF CallSigned, cacheVars, clockVars
<1>3. what \in Ops /\ what \notin OrderCalls /\ TypeOK
  BY DEF Ops, OrderCalls, IInv
<1>4. OpRow(c, what) /\ answer' = answer
  BY <1>1, <1>3, SimIsNoId, StartRow DEF OpRow
<1> QED BY <1>1, <1>2, <1>3, <1>4, TimestampStep

LEMMA CallSimulatedStep ==
    ASSUME IInv, NEW c \in Callers, CallSimulated(c)
    PROVE  IInv'
<1>1. Start(c, "simulated", Sim) /\ pc' = [pc EXCEPT ![c] = "record"]
  BY DEF CallSimulated
<1>2. UNCHANGED <<now, skew, drifted, orders, metadata, order_book_cache, timeVars, sent, reply, stamp,
                  basis>>
  BY DEF CallSimulated, cacheVars, clockVars
<1>3. "simulated" \in Ops /\ "simulated" \notin OrderCalls /\ TypeOK /\ CallerOK(c)
  BY DEF Ops, OrderCalls, IInv
<1>4. /\ op' \in [Callers -> Ops] /\ on' \in [Callers -> Ids \cup {Sim}]
      /\ op'[c] = "simulated" /\ answer' = answer
      /\ \A d \in Callers \ {c} : op'[d] = op[d] /\ on'[d] = on[d]
  BY <1>1, <1>3, SimIsNoId, StartRow
<1>5. pc \in [Callers -> Points] /\ "record" \in Points
  BY <1>3 DEF TypeOK, Points
<1>6. /\ pc' \in [Callers -> Points] /\ pc'[c] = "record"
      /\ \A d \in Callers \ {c} : pc'[d] = pc[d]
  BY <1>1, <1>5
<1>7. sent' = sent /\ reply' = reply /\ stamp' = stamp /\ basis' = basis
  BY <1>2
<1>8. Others(c)
  BY <1>4, <1>6, <1>7, Zenon DEF Others
<1>9. CallerOK(c)'
  BY <1>3, <1>4, <1>6 DEF CallerOK, Waiting, StampOK, ReplyOK
<1>10. /\ sent' \in [Callers -> Nat] /\ reply' \in [Callers -> Replies]
       /\ stamp' \in [Callers -> Int] /\ basis' \in [Callers -> Bases]
       /\ orders' \in [Ids -> OrderStates]
  BY <1>2, <1>3, <1>7 DEF TypeOK
<1>11. OrdersGrow
  BY <1>2, <1>3, SameOrders
<1>12. TimeType' /\ OffsetOK'
  BY <1>2, SharedStays
<1> QED BY <1>2, <1>4, <1>6, <1>8, <1>9, <1>10, <1>11, <1>12, MoveStep

(* Answers that say nothing of a real order or a book are not wrong.       *)
LEMMA OtherAnswer ==
    ASSUME answer'.kind # "book", answer'.kind \in OrderCalls => answer'.id = Sim
    PROVE  AnswerOK'
  BY DEF AnswerOK, BookAgeBounded

LEMMA ErrAnswer ==
    ASSUME answer' = Err
    PROVE  AnswerOK'
<1>1. answer'.kind = "err"
  BY DEF Err
<1>2. "err" \notin OrderCalls /\ "err" # "book"
  BY DEF OrderCalls
<1> QED BY <1>1, <1>2, OtherAnswer

(* A call that returns an error.                                           *)
LEMMA ErrStep ==
    ASSUME IInv, NEW c \in Callers, Return(c, Err),
           UNCHANGED <<now, skew, drifted, orders, metadata, timeVars, order_book_cache>>
    PROVE  IInv'
<1>1. TypeOK
  BY DEF IInv
<1>2. AnswerOK'
  BY <1>1, ReturnRow, ErrAnswer
<1>3. metadata' \subseteq Ids \cup {Sim}
  BY <1>1 DEF TypeOK
<1>4. /\ TimeType' /\ OffsetOK'
      /\ order_book_cache' \in [at : Int, of : Int] /\ CacheOK'
  BY SharedStays
<1> QED BY <1>2, <1>3, <1>4, ReturnStep

LEMMA CallOnOrderStep ==
    ASSUME IInv, NEW c \in Callers, CallOnOrder(c)
    PROVE  IInv'
<1>1. PICK what \in OrderCalls, i \in metadata :
          IF i = Sim /\ what # "detailed"
          THEN Return(c, [kind |-> what, id |-> Sim, status |-> "Filled", filled |-> SIZE])
          ELSE /\ Start(c, what, i)
               /\ pc' = [pc EXCEPT ![c] = "lock"]
               /\ UNCHANGED <<sent, reply, stamp, basis, lockVars>>
  BY DEF CallOnOrder, OrderCalls
<1>2. UNCHANGED <<now, skew, drifted, orders, metadata, order_book_cache, timeVars>>
  BY DEF CallOnOrder, cacheVars, clockVars
<1>3. /\ what \in Ops /\ TypeOK /\ i \in Ids \cup {Sim} /\ CallerOK(c)
      /\ metadata' \subseteq Ids \cup {Sim}
  BY <1>2 DEF Ops, IInv, TypeOK
<1>4. /\ TimeType' /\ OffsetOK'
      /\ order_book_cache' \in [at : Int, of : Int] /\ CacheOK'
  BY <1>2, SharedStays
<1>5. CASE i = Sim /\ what # "detailed"
  <2>1. Return(c, [kind |-> what, id |-> Sim, status |-> "Filled", filled |-> SIZE])
    BY <1>1, <1>5
  <2>2. answer' = [kind |-> what, id |-> Sim, status |-> "Filled", filled |-> SIZE]
    BY <1>3, <2>1, ReturnRow
  <2>3. answer'.id = Sim /\ answer'.kind # "book"
    BY <2>2 DEF OrderCalls
  <2>4. AnswerOK'
    BY <2>3, OtherAnswer
  <2> QED BY <1>2, <1>3, <1>4, <2>1, <2>4, ReturnStep
<1>6. CASE ~(i = Sim /\ what # "detailed")
  <2>1. Start(c, what, i) /\ pc' = [pc EXCEPT ![c] = "lock"] /\ UNCHANGED <<sent, reply, stamp, basis>>
    BY <1>1, <1>6
  <2>2. /\ op' \in [Callers -> Ops] /\ on' \in [Callers -> Ids \cup {Sim}] /\ answer' = answer
        /\ \A d \in Callers \ {c} : op'[d] = op[d] /\ on'[d] = on[d]
    BY <1>3, <2>1, StartRow
  <2>3. pc \in [Callers -> Points] /\ "lock" \in Points
    BY <1>3 DEF TypeOK, Points
  <2>4. /\ pc' \in [Callers -> Points] /\ pc'[c] = "lock"
        /\ \A d \in Callers \ {c} : pc'[d] = pc[d]
    BY <2>1, <2>3
  <2>5. sent' = sent /\ reply' = reply /\ stamp' = stamp /\ basis' = basis
    BY <2>1
  <2>6. Others(c)
    BY <2>2, <2>4, <2>5, Zenon DEF Others
  <2>7. CallerOK(c)'
    BY <2>4 DEF CallerOK, Waiting, StampOK, ReplyOK
  <2>8. /\ sent' \in [Callers -> Nat] /\ reply' \in [Callers -> Replies]
        /\ stamp' \in [Callers -> Int] /\ basis' \in [Callers -> Bases]
        /\ orders' \in [Ids -> OrderStates]
    BY <1>2, <1>3, <2>5 DEF TypeOK
  <2>9. OrdersGrow
    BY <1>2, <1>3, SameOrders
  <2> QED BY <1>2, <1>4, <2>2, <2>4, <2>6, <2>7, <2>8, <2>9, MoveStep
<1> QED BY <1>5, <1>6

LEMMA LockMetadataStep ==
    ASSUME IInv, NEW c \in Callers, LockMetadata(c)
    PROVE  IInv'
<1>1. UNCHANGED <<now, skew, drifted, orders, metadata, order_book_cache, timeVars>>
  BY DEF LockMetadata, cacheVars, clockVars
<1>2. CASE on[c] = Sim
  BY <1>1, <1>2, ErrStep DEF LockMetadata
<1>3. CASE on[c] # Sim
  <2>1. GetTimestamp(c, op[c]) /\ UNCHANGED <<op, on, answer>>
    BY <1>3 DEF LockMetadata
  <2>2. op \in [Callers -> Ops] /\ on \in [Callers -> Ids \cup {Sim}]
    BY DEF IInv, TypeOK
  <2>3. on[c] \in Ids /\ op[c] \in Ops
    BY <1>3, <2>2
  <2>4. OpRow(c, op[c])
    BY <2>1, <2>2, <2>3 DEF OpRow
  <2> QED BY <1>1, <2>1, <2>3, <2>4, TimestampStep
<1> QED BY <1>2, <1>3

LEMMA CallSyncStep ==
    ASSUME IInv, NEW c \in Callers, CallSync(c)
    PROVE  IInv'
<1>1. Start(c, "sync", Sim) /\ Send(c, "time") /\ UNCHANGED <<stamp, basis>>
  BY DEF CallSync
<1>2. UNCHANGED <<now, skew, drifted, orders, metadata, order_book_cache, timeVars>>
  BY DEF CallSync, cacheVars, clockVars
<1>3. "sync" \in Ops /\ "sync" \notin OrderCalls /\ TypeOK /\ "time" \in Points
  BY DEF Ops, OrderCalls, IInv, Points
<1>4. OpRow(c, "sync") /\ answer' = answer
  BY <1>1, <1>3, SimIsNoId, StartRow DEF OpRow
<1> QED BY <1>1, <1>2, <1>3, <1>4, SentStep

LEMMA CallBookStep ==
    ASSUME IInv, NEW c \in Callers, CallBook(c)
    PROVE  IInv'
<1>1. UNCHANGED <<now, skew, drifted, orders, metadata, order_book_cache, timeVars>>
  BY DEF CallBook, cacheVars, clockVars
<1>2. /\ TimeType' /\ OffsetOK'
      /\ order_book_cache' \in [at : Int, of : Int] /\ CacheOK'
  BY <1>1, SharedStays
<1>3. TypeOK
  BY DEF IInv
<1>4. CASE order_book_cache # NoBook /\ now - order_book_cache.at < CACHE_TTL
  <2>1. Return(c, [kind |-> "book", age |-> now - order_book_cache.of])
    BY <1>4 DEF CallBook
  <2>2. answer' = [kind |-> "book", age |-> now - order_book_cache.of]
    BY <1>3, <2>1, ReturnRow
  <2>3. order_book_cache.at - order_book_cache.of <= LATENCY
    BY <1>4 DEF IInv, CacheOK
  <2>4. now - order_book_cache.of < CACHE_TTL + LATENCY
    <3>1. order_book_cache.at \in Int /\ order_book_cache.of \in Int /\ now \in Nat
      BY <1>3 DEF TypeOK
    <3> QED BY <1>4, <2>3, <3>1
  <2>5. AnswerOK'
    BY <2>2, <2>4 DEF AnswerOK, BookAgeBounded, OrderCalls
  <2>6. metadata' \subseteq Ids \cup {Sim}
    BY <1>1, <1>3 DEF TypeOK
  <2> QED BY <1>1, <1>2, <2>1, <2>5, <2>6, ReturnStep
<1>5. CASE ~(order_book_cache # NoBook /\ now - order_book_cache.at < CACHE_TTL)
  <2>1. Start(c, "book", Sim) /\ Send(c, "http") /\ UNCHANGED <<stamp, basis>>
    BY <1>5 DEF CallBook
  <2>2. "book" \in Ops /\ "book" \notin OrderCalls /\ "http" \in Points
    BY DEF Ops, OrderCalls, Points
  <2>3. OpRow(c, "book") /\ answer' = answer
    BY <1>3, <2>1, <2>2, SimIsNoId, StartRow DEF OpRow
  <2> QED BY <1>1, <2>1, <2>2, <2>3, SentStep
<1> QED BY <1>4, <1>5

(* The server's time is of a moment between the two local times, up to     *)
(* the skew, so that their average is off by at most half of what is       *)
(* between them.                                                           *)
LEMMA OffsetBound ==
    ASSUME NEW before \in Nat, NEW after \in Nat, NEW server \in Int, NEW ahead \in Int,
           NEW at \in Nat, NEW above \in Int, NEW below \in Int,
           before <= at, at <= after, after - before <= LATENCY,
           server - at - ahead <= above, at + ahead - server <= below
    PROVE  /\ Offset(before, after, server) \in Int
           /\ Offset(before, after, server) - ahead <= Half + above
           /\ ahead - Offset(before, after, server) <= Half + below
  BY DEF Offset, Half

LEMMA TimeAnsweredStep ==
    ASSUME IInv, NEW c \in Callers, TimeAnswered(c)
    PROVE  IInv'
<1>1. UNCHANGED <<now, skew, drifted, orders, metadata, order_book_cache>>
  BY DEF TimeAnswered, clockVars
<1>2. TypeOK /\ CallerOK(c) /\ pc[c] = "time" /\ CacheOK
  BY DEF IInv, TimeAnswered
<1>3. /\ sent[c] \in Nat /\ now \in Nat /\ skew \in Int /\ drifted \in Int
      /\ op[c] \in Ops /\ op \in [Callers -> Ops]
      /\ on \in [Callers -> Ids \cup {Sim}] /\ metadata' \subseteq Ids \cup {Sim}
  BY <1>1, <1>2 DEF TypeOK
<1>4. sent[c] <= now /\ now - sent[c] <= LATENCY
  BY <1>2 DEF CallerOK, Waiting
<1>5. /\ TimeType' /\ OffsetOK'
      /\ reply[c].result = "ok" => now - reading'.at <= RESYNC_AFTER + LATENCY
  <2>1. CASE reply[c].result = "ok"
    <3>1. /\ time_offset' = Offset(sent[c], now, reply[c].time) /\ last_sync' = now
          /\ reading' = [at |-> reply[c].at, drift |-> reply[c].drift]
      BY <2>1 DEF TimeAnswered
    <3>2. TimeOK(c)
      BY <1>2, <2>1 DEF CallerOK, ReplyOK
    <3>3. /\ reply[c].time \in Int /\ reply[c].at \in Nat /\ reply[c].drift \in Int
          /\ sent[c] <= reply[c].at /\ reply[c].at <= now
      BY <3>2 DEF TimeOK
    <3>4. PICK above \in Int : above = drifted - reply[c].drift
      BY <1>3, <3>3
    <3>5. PICK below \in Int : below = SECOND - 1 + above
      OBVIOUS
    <3>6. /\ reply[c].time - reply[c].at - skew <= above
          /\ reply[c].at + skew - reply[c].time <= below
      BY <3>2, <3>4, <3>5 DEF TimeOK
    <3>7. /\ time_offset' \in Int /\ time_offset' - skew <= Half + above
          /\ skew - time_offset' <= Half + below
      BY <1>3, <1>4, <3>1, <3>3, <3>6, OffsetBound
    <3>8. reading'.at = reply[c].at /\ reading'.drift = reply[c].drift /\ reading' \in Readings
      BY <3>1, <3>3 DEF Readings
    <3>9. skew' = skew /\ drifted' = drifted /\ Half \in Nat
      BY <1>1 DEF Half
    <3>10. Near(time_offset, reading)'
      <4> HIDE DEF Half
      <4> QED BY <1>3, <3>3, <3>4, <3>5, <3>7, <3>8, <3>9 DEF Near
    <3>11. last_sync' - LATENCY <= reading'.at /\ now - reading'.at <= RESYNC_AFTER + LATENCY
      BY <1>3, <1>4, <3>1, <3>3, <3>8
    <3> QED BY <1>3, <3>1, <3>7, <3>8, <3>10, <3>11 DEF OffsetOK, TimeType
  <2>2. CASE reply[c].result # "ok"
    <3>1. UNCHANGED <<skew, drifted, timeVars>>
      BY <1>1, <2>2 DEF TimeAnswered
    <3> QED BY <2>2, <3>1, OffsetStays
  <2> QED BY <2>1, <2>2
<1>6. CASE op[c] = "sync"
  <2>1. Return(c, [kind |-> "synced"])
    BY <1>6 DEF TimeAnswered
  <2>2. answer' = [kind |-> "synced"]
    BY <1>2, <2>1, ReturnRow
  <2>3. answer'.kind = "synced" /\ "synced" \notin OrderCalls
    BY <2>2 DEF OrderCalls
  <2>4. AnswerOK'
    BY <2>3, OtherAnswer
  <2>5. order_book_cache' \in [at : Int, of : Int] /\ CacheOK'
    BY <1>1, <1>2 DEF CacheOK, TypeOK
  <2> QED BY <1>1, <1>3, <1>5, <2>1, <2>4, <2>5, ReturnStep
<1>7. CASE op[c] # "sync"
  <2>1. PICK how \in {"fresh", "old"} : /\ how = "fresh" => reply[c].result = "ok"
                                        /\ Stamped(c, op[c], time_offset', reading', how)
    BY <1>7 DEF TimeAnswered
  <2>2. op[c] \in OrderCalls => on[c] \in Ids
    BY <1>2 DEF CallerOK
  <2>3. OpRow(c, op[c]) /\ answer' = answer
    BY <1>3, <1>7, <2>2 DEF OpRow, TimeAnswered
  <2>4. skew' = skew /\ drifted' = drifted
    BY <1>1
  <2>5. reading'.at >= 0 => Near(time_offset', reading')
    <3>1. reading'.at >= 0 => Near(time_offset, reading)'
      BY <1>5 DEF OffsetOK
    <3> QED BY <2>4, <3>1 DEF Near
  <2>6. PICK offset \in Int : offset = time_offset'
    BY <1>5 DEF TimeType
  <2>7. PICK read \in Readings : read = reading'
    BY <1>5 DEF TimeType
  <2>8. Stamped(c, op[c], offset, read, how)
    BY <2>1, <2>6, <2>7, Zenon
  <2>9. /\ read.at >= 0 => Near(offset, read)
        /\ read.at >= 0 /\ how = "fresh" => now - read.at <= RESYNC_AFTER + LATENCY
    BY <1>5, <2>1, <2>5, <2>6, <2>7, Zenon
  <2>10. UNCHANGED <<now, skew, drifted, orders, answer, metadata, order_book_cache>>
    BY <1>1, <2>3
  <2> QED BY <1>3, <1>5, <2>3, <2>8, <2>9, <2>10, StampedStep
<1> QED BY <1>6, <1>7

LEMMA QtyAnsweredStep ==
    ASSUME IInv, NEW c \in Callers, QtyAnswered(c)
    PROVE  IInv'
<1>1. UNCHANGED <<now, skew, drifted, orders, metadata, order_book_cache, timeVars>>
  BY DEF QtyAnswered, clockVars
<1>2. TypeOK /\ CallerOK(c) /\ pc[c] = "qty" /\ "http" \in Points
  BY DEF IInv, QtyAnswered, Points
<1>3. CASE reply[c].result # "ok"
  BY <1>1, <1>3, ErrStep DEF QtyAnswered
<1>4. CASE reply[c].result = "ok"
  <2>1. Send(c, "http") /\ UNCHANGED <<op, on, stamp, basis, answer>>
    BY <1>4 DEF QtyAnswered
  <2>2. /\ pc' \in [Callers -> Points] /\ sent' \in [Callers -> Nat] /\ reply' \in [Callers -> Replies]
        /\ pc'[c] = "http" /\ sent'[c] = now /\ reply'[c] = NoReply
        /\ \A d \in Callers \ {c} : pc'[d] = pc[d] /\ sent'[d] = sent[d] /\ reply'[d] = reply[d]
    BY <1>2, <2>1, SendRow
  <2>3. op' = op /\ on' = on /\ stamp' = stamp /\ basis' = basis
    BY <2>1
  <2>4. Others(c)
    BY <2>2, <2>3, Zenon DEF Others
  <2>5. /\ op' \in [Callers -> Ops] /\ on' \in [Callers -> Ids \cup {Sim}]
        /\ stamp' \in [Callers -> Int] /\ basis' \in [Callers -> Bases]
        /\ orders' \in [Ids -> OrderStates] /\ OrdersGrow
        /\ TimeType' /\ OffsetOK'
    BY <1>1, <1>2, <2>3, SameOrders, SharedStays DEF TypeOK
  <2>6. sent[c] <= now /\ now - sent[c] <= LATENCY
    BY <1>2 DEF CallerOK, Waiting
  <2>7. /\ sent[c] \in Nat /\ now \in Nat /\ skew \in Int /\ drifted \in Int /\ stamp[c] \in Int
        /\ basis[c].at \in Int /\ basis[c].drift \in Int
        /\ now' = now /\ skew' = skew /\ drifted' = drifted
    BY <1>1, <1>2 DEF TypeOK, Bases
  <2>8. StampOK(c)'
    <3>1. ASSUME basis[c].at >= 0, op[c] # "book"
          PROVE  /\ stamp[c] - skew <= now + Half + (drifted - basis[c].drift)
                 /\ now - LATENCY - Half - (SECOND - 1) - (drifted - basis[c].drift) <= stamp[c] - skew
                 /\ basis[c].how = "fresh" => now - basis[c].at <= RESYNC_AFTER + 2 * LATENCY
      <4>1. /\ stamp[c] - skew <= sent[c] + Half + (drifted - basis[c].drift)
            /\ sent[c] - Half - (SECOND - 1) - (drifted - basis[c].drift) <= stamp[c] - skew
            /\ basis[c].how = "fresh" => sent[c] - basis[c].at <= RESYNC_AFTER + LATENCY
        BY <1>2, <3>1 DEF CallerOK, StampOK
      <4>2. Half \in Nat /\ LATENCY \in Nat /\ SECOND \in Nat /\ RESYNC_AFTER \in Nat
        BY DEF Half
      <4> HIDE DEF Half
      <4> QED BY <2>6, <2>7, <4>1, <4>2
    <3> QED BY <2>2, <2>3, <2>7, <3>1, Zenon DEF StampOK
  <2>9. CallerOK(c)'
    <3>1. (Waiting(c) => sent[c] <= now /\ now - sent[c] <= LATENCY)'
      BY <2>2, <2>7
    <3>2. (op[c] \in OrderCalls /\ pc[c] # "lock" => on[c] \in Ids)'
      BY <1>2, <2>3 DEF CallerOK
    <3>3. reply'[c].result # "ok"
      BY <2>2, SimpleReplies
    <3> QED BY <2>8, <3>1, <3>2, <3>3 DEF CallerOK
  <2>10. UNCHANGED <<now, skew, drifted, answer, metadata, order_book_cache>>
    BY <1>1, <2>1
  <2> QED BY <2>2, <2>4, <2>5, <2>9, <2>10, MoveStep
<1> QED BY <1>3, <1>4

LEMMA OrderAnsweredStep ==
    ASSUME IInv, NEW c \in Callers, OrderAnswered(c)
    PROVE  IInv'
<1>1. UNCHANGED <<now, skew, drifted, orders, metadata, order_book_cache, timeVars>>
  BY DEF OrderAnswered, cacheVars, clockVars
<1>2. TypeOK /\ CallerOK(c) /\ pc[c] = "http" /\ op[c] \in {"limit", "market"} /\ "record" \in Points
  BY DEF IInv, OrderAnswered, Points
<1>3. CASE reply[c].result # "ok"
  BY <1>1, <1>3, ErrStep DEF OrderAnswered
<1>4. CASE reply[c].result = "ok"
  <2>1. /\ pc' = [pc EXCEPT ![c] = "record"] /\ on' = [on EXCEPT ![c] = reply[c].id]
        /\ UNCHANGED <<op, sent, reply, stamp, basis, answer>>
    BY <1>4 DEF OrderAnswered
  <2>2. reply[c].id \in Ids
    BY <1>2, <1>4 DEF CallerOK, ReplyOK
  <2>3. pc \in [Callers -> Points] /\ on \in [Callers -> Ids \cup {Sim}]
    BY <1>2 DEF TypeOK
  <2>4. pc' \in [Callers -> Points] /\ pc'[c] = "record" /\ \A d \in Callers \ {c} : pc'[d] = pc[d]
    BY <1>2, <2>1, <2>3
  <2>5. on' \in [Callers -> Ids \cup {Sim}] /\ \A d \in Callers \ {c} : on'[d] = on[d]
    BY <2>1, <2>2, <2>3
  <2>6. op' = op /\ sent' = sent /\ reply' = reply /\ stamp' = stamp /\ basis' = basis
    BY <2>1
  <2>7. Others(c)
    BY <2>4, <2>5, <2>6, Zenon DEF Others
  <2>8. /\ op' \in [Callers -> Ops] /\ sent' \in [Callers -> Nat] /\ reply' \in [Callers -> Replies]
        /\ stamp' \in [Callers -> Int] /\ basis' \in [Callers -> Bases]
        /\ orders' \in [Ids -> OrderStates] /\ OrdersGrow
        /\ TimeType' /\ OffsetOK'
    BY <1>1, <1>2, <2>6, SameOrders, SharedStays DEF TypeOK
  <2>9. CallerOK(c)'
    BY <1>2, <2>4, <2>6 DEF CallerOK, Waiting, StampOK, ReplyOK, OrderCalls
  <2>10. UNCHANGED <<now, skew, drifted, answer, metadata, order_book_cache>>
    BY <1>1, <2>1
  <2> QED BY <2>4, <2>5, <2>7, <2>8, <2>9, <2>10, MoveStep
<1> QED BY <1>3, <1>4

LEMMA RecordStep ==
    ASSUME IInv, NEW c \in Callers, Record(c)
    PROVE  IInv'
<1>1. UNCHANGED <<now, skew, drifted, orders, order_book_cache, timeVars>>
  BY DEF Record, cacheVars, clockVars
<1>2. Return(c, [kind |-> "placed", id |-> on[c]]) /\ metadata' = metadata \cup {on[c]} /\ TypeOK
  BY DEF Record, IInv
<1>3. metadata' \subseteq Ids \cup {Sim}
  BY <1>2 DEF TypeOK
<1>4. answer' = [kind |-> "placed", id |-> on[c]]
  BY <1>2, ReturnRow
<1>5. answer'.kind = "placed" /\ "placed" \notin OrderCalls
  BY <1>4 DEF OrderCalls
<1>6. AnswerOK'
  BY <1>5, OtherAnswer
<1>7. /\ TimeType' /\ OffsetOK'
      /\ order_book_cache' \in [at : Int, of : Int] /\ CacheOK'
  BY <1>1, SharedStays
<1> QED BY <1>1, <1>2, <1>3, <1>6, <1>7, ReturnStep

(* A call that returns and leaves nothing behind but its answer.           *)
LEMMA AnsweringStep ==
    ASSUME IInv, NEW c \in Callers, NEW value, Return(c, value), AnswerOK',
           UNCHANGED <<now, skew, drifted, orders, metadata, timeVars, order_book_cache>>
    PROVE  IInv'
<1>1. metadata' \subseteq Ids \cup {Sim}
  BY DEF IInv, TypeOK
<1>2. /\ TimeType' /\ OffsetOK'
      /\ order_book_cache' \in [at : Int, of : Int] /\ CacheOK'
  BY SharedStays
<1> QED BY <1>1, <1>2, ReturnStep

(* What is Filled or Cancelled to the caller is so at the exchange.        *)
LEMMA StatusOfIsTrue ==
    ASSUME NEW seen \in OrderStates, NEW order \in OrderStates,
           TrueOf(seen.status, seen.filled, order)
    PROVE  /\ TrueOf(StatusOf(seen), seen.filled, order)
           /\ TrueOf(StatusOf(seen), 0, order)
  BY DEF TrueOf, StatusOf, OrderStates, Final

LEMMA StatusAnsweredStep ==
    ASSUME IInv, NEW c \in Callers, StatusAnswered(c)
    PROVE  IInv'
<1>1. UNCHANGED <<now, skew, drifted, orders, metadata, order_book_cache, timeVars>>
  BY DEF StatusAnswered, cacheVars, clockVars
<1>2. TypeOK /\ CallerOK(c) /\ pc[c] = "http" /\ op[c] \in {"status", "detailed"}
  BY DEF IInv, StatusAnswered
<1>3. on[c] \in Ids
  BY <1>2 DEF CallerOK, OrderCalls
<1>4. orders[on[c]] \in OrderStates /\ orders' = orders
  BY <1>1, <1>2, <1>3 DEF TypeOK
<1>5. CASE reply[c].result = "ok"
  <2>1. PICK value : /\ value = [kind |-> op[c], id |-> on[c], status |-> StatusOf(reply[c].order),
                                 filled |-> IF op[c] = "detailed" THEN reply[c].order.filled ELSE 0]
                     /\ Return(c, value)
    BY <1>5 DEF StatusAnswered
  <2>2. answer' = value
    BY <1>2, <2>1, ReturnRow
  <2>3. /\ reply[c].order \in OrderStates
        /\ TrueOf(reply[c].order.status, reply[c].order.filled, orders[on[c]])
    BY <1>2, <1>5 DEF CallerOK, ReplyOK
  <2>4. /\ TrueOf(StatusOf(reply[c].order), reply[c].order.filled, orders[on[c]])
        /\ TrueOf(StatusOf(reply[c].order), 0, orders[on[c]])
        /\ reply[c].order.filled \in Nat
    BY <1>4, <2>3, StatusOfIsTrue DEF OrderStates
  <2>5. /\ answer'.kind = op[c] /\ answer'.id = on[c] /\ answer'.status = StatusOf(reply[c].order)
        /\ answer'.filled \in {reply[c].order.filled, 0}
    BY <2>1, <2>2
  <2>6. answer'.filled \in Nat /\ TrueOf(answer'.status, answer'.filled, orders'[answer'.id])
    BY <1>4, <2>4, <2>5
  <2>7. AnswerOK'
    BY <1>2, <1>3, <2>5, <2>6 DEF AnswerOK, BookAgeBounded
  <2> QED BY <1>1, <2>1, <2>7, AnsweringStep
<1>6. CASE reply[c].result = "refused" /\ op[c] = "status"
  <2>1. Return(c, [kind |-> "status", id |-> on[c], status |-> "Pending", filled |-> 0])
    BY <1>6 DEF StatusAnswered
  <2>2. answer' = [kind |-> "status", id |-> on[c], status |-> "Pending", filled |-> 0]
    BY <1>2, <2>1, ReturnRow
  <2>3. answer'.kind = "status" /\ answer'.id = on[c] /\ answer'.status = "Pending" /\ answer'.filled = 0
    BY <2>2
  <2>4. TrueOf("Pending", 0, orders[on[c]])
    BY <1>4 DEF TrueOf, OrderStates, Final
  <2>5. AnswerOK'
    BY <1>3, <1>4, <2>3, <2>4 DEF AnswerOK, BookAgeBounded
  <2> QED BY <1>1, <2>1, <2>5, AnsweringStep
<1>7. CASE reply[c].result # "ok" /\ ~(reply[c].result = "refused" /\ op[c] = "status")
  BY <1>1, <1>7, ErrStep DEF StatusAnswered
<1> QED BY <1>5, <1>6, <1>7

LEMMA OtherAnsweredStep ==
    ASSUME IInv, NEW c \in Callers, OtherAnswered(c)
    PROVE  IInv'
<1>1. UNCHANGED <<now, skew, drifted, orders, metadata, order_book_cache, timeVars>>
  BY DEF OtherAnswered, cacheVars, clockVars
<1>2. TypeOK /\ CallerOK(c) /\ pc[c] = "http" /\ op[c] \in {"cancel", "query"}
  BY DEF IInv, OtherAnswered
<1>3. CASE reply[c].result # "ok"
  BY <1>1, <1>3, ErrStep DEF OtherAnswered
<1>4. CASE reply[c].result = "ok"
  <2>1. Return(c, [kind |-> op[c], id |-> on[c], status |-> "Cancelled", filled |-> 0])
    BY <1>4 DEF OtherAnswered
  <2>2. answer' = [kind |-> op[c], id |-> on[c], status |-> "Cancelled", filled |-> 0]
    BY <1>2, <2>1, ReturnRow
  <2>3. /\ answer'.kind = op[c] /\ answer'.id = on[c]
        /\ answer'.status = "Cancelled" /\ answer'.filled = 0
    BY <2>2
  <2>4. CASE op[c] = "query"
    <3>1. answer'.kind # "book" /\ answer'.kind \notin OrderCalls
      BY <2>3, <2>4 DEF OrderCalls
    <3>2. AnswerOK'
      BY <3>1, OtherAnswer
    <3> QED BY <1>1, <2>1, <3>2, AnsweringStep
  <2>5. CASE op[c] = "cancel"
    <3>1. on[c] \in Ids /\ orders[on[c]].status = "Cancelled"
      BY <1>2, <1>4, <2>5 DEF CallerOK, ReplyOK, OrderCalls
    <3>2. orders[on[c]].filled \in Nat /\ orders' = orders
      BY <1>1, <1>2, <3>1 DEF TypeOK, OrderStates
    <3>3. TrueOf("Cancelled", 0, orders[on[c]])
      BY <3>1, <3>2 DEF TrueOf
    <3>4. AnswerOK'
      BY <2>3, <2>5, <3>1, <3>2, <3>3 DEF AnswerOK, BookAgeBounded
    <3> QED BY <1>1, <2>1, <3>4, AnsweringStep
  <2> QED BY <1>2, <2>4, <2>5
<1> QED BY <1>3, <1>4

LEMMA BookAnsweredStep ==
    ASSUME IInv, NEW c \in Callers, BookAnswered(c)
    PROVE  IInv'
<1>1. UNCHANGED <<now, skew, drifted, orders, metadata, timeVars>>
  BY DEF BookAnswered, clockVars
<1>2. TypeOK /\ CallerOK(c) /\ pc[c] = "http" /\ op[c] = "book"
  BY DEF IInv, BookAnswered
<1>3. CASE reply[c].result # "ok"
  <2>1. UNCHANGED order_book_cache /\ Return(c, Err)
    BY <1>3 DEF BookAnswered
  <2> QED BY <1>1, <2>1, ErrStep
<1>4. CASE reply[c].result = "ok"
  <2>1. /\ order_book_cache' = [at |-> now, of |-> reply[c].time]
        /\ Return(c, [kind |-> "book", age |-> now - reply[c].time])
    BY <1>4 DEF BookAnswered
  <2>2. answer' = [kind |-> "book", age |-> now - reply[c].time]
    BY <1>2, <2>1, ReturnRow
  <2>3. reply[c].time \in Int /\ sent[c] <= reply[c].time /\ reply[c].time <= now
    BY <1>2, <1>4 DEF CallerOK, ReplyOK
  <2>4. now - sent[c] <= LATENCY /\ now \in Nat /\ sent[c] \in Nat /\ now' = now
    BY <1>1, <1>2 DEF CallerOK, Waiting, TypeOK
  <2>5. now - reply[c].time <= LATENCY /\ now - reply[c].time < CACHE_TTL + LATENCY
    BY <2>3, <2>4
  <2>6. AnswerOK'
    <3>1. answer'.kind = "book" /\ answer'.age = now - reply[c].time /\ "book" \notin OrderCalls
      BY <2>2 DEF OrderCalls
    <3> QED BY <2>5, <3>1 DEF AnswerOK, BookAgeBounded
  <2>7. order_book_cache' \in [at : Int, of : Int] /\ CacheOK'
    BY <2>1, <2>3, <2>4, <2>5 DEF CacheOK
  <2>8. metadata' \subseteq Ids \cup {Sim}
    BY <1>1, <1>2 DEF TypeOK
  <2>9. TimeType' /\ OffsetOK'
    BY <1>1, OffsetStays
  <2> QED BY <1>1, <2>1, <2>6, <2>7, <2>8, <2>9, ReturnStep
<1> QED BY <1>3, <1>4

-----------------------------------------------------------------------------
(* One lemma for each step of the exchange.                                *)

(* An answer is on its way: it alone can be wrong.                         *)
LEMMA AnsweredStep ==
    ASSUME IInv, NEW c \in Callers, NEW value \in Replies, Answered(c, value),
           orders' \in [Ids -> OrderStates], OrdersGrow,
           value.result = "ok" => ReplyOK(c)'
    PROVE  IInv'
<1>1. TypeOK /\ CallerOK(c)
  BY DEF IInv
<1>2. /\ reply' = [reply EXCEPT ![c] = value]
      /\ UNCHANGED <<now, skew, drifted, op, on, pc, sent, stamp, basis, answer, metadata, timeVars,
                     order_book_cache>>
  BY DEF Answered, cacheVars, clockVars
<1>3. reply \in [Callers -> Replies]
  BY <1>1 DEF TypeOK
<1>4. reply' \in [Callers -> Replies] /\ reply'[c] = value /\ \A d \in Callers \ {c} : reply'[d] = reply[d]
  <2> HIDE DEF Replies
  <2> QED BY <1>2, <1>3
<1>5. /\ pc' = pc /\ op' = op /\ on' = on /\ sent' = sent /\ stamp' = stamp /\ basis' = basis
      /\ now' = now /\ skew' = skew /\ drifted' = drifted
  BY <1>2
<1>6. Others(c)
  BY <1>4, <1>5, Zenon DEF Others
<1>7. CallerOK(c)'
  <2>1. (Waiting(c) => sent[c] <= now /\ now - sent[c] <= LATENCY)'
    BY <1>1, <1>5 DEF CallerOK, Waiting
  <2>2. (op[c] \in OrderCalls /\ pc[c] # "lock" => on[c] \in Ids)'
    BY <1>1, <1>5 DEF CallerOK
  <2>3. StampOK(c)'
    BY <1>1, <1>5, Zenon DEF CallerOK, StampOK
  <2>4. reply'[c].result = "ok" => ReplyOK(c)'
    BY <1>4
  <2> QED BY <2>1, <2>2, <2>3, <2>4 DEF CallerOK
<1>8. /\ pc' \in [Callers -> Points] /\ sent' \in [Callers -> Nat]
      /\ op' \in [Callers -> Ops] /\ on' \in [Callers -> Ids \cup {Sim}]
      /\ stamp' \in [Callers -> Int] /\ basis' \in [Callers -> Bases]
  BY <1>1, <1>5 DEF TypeOK
<1>9. TimeType' /\ OffsetOK'
  BY <1>2, OffsetStays
<1> QED BY <1>2, <1>4, <1>6, <1>7, <1>8, <1>9, MoveStep

LEMMA AnsweredRow ==
    ASSUME TypeOK, NEW c \in Callers, NEW value, Answered(c, value)
    PROVE  reply'[c] = value /\ UNCHANGED <<now, skew, drifted, op, on, pc, sent>>
<1>1. reply \in [Callers -> Replies]
  BY DEF TypeOK
<1> HIDE DEF Replies
<1> QED BY <1>1 DEF Answered, clockVars

LEMMA ExchangeFailsStep ==
    ASSUME IInv, NEW c \in Callers, ExchangeFails(c)
    PROVE  IInv'
<1>1. TypeOK /\ orders' = orders
  BY DEF IInv, ExchangeFails
<1>2. orders' \in [Ids -> OrderStates] /\ OrdersGrow
  BY <1>1, SameOrders DEF TypeOK
<1>3. PICK value \in {Failed, Refused} : Answered(c, value)
  BY DEF ExchangeFails
<1>4. value \in Replies /\ value.result # "ok"
  BY SimpleReplies
<1> QED BY <1>2, <1>3, <1>4, AnsweredStep

(* A new order, or another state of one the exchange has.                  *)
LEMMA OrderChanges ==
    ASSUME TypeOK, NEW i \in Ids, NEW new \in OrderStates, orders' = [orders EXCEPT ![i] = new],
           TrueOf(orders[i].status, orders[i].filled, new)
    PROVE  orders' \in [Ids -> OrderStates] /\ OrdersGrow /\ orders'[i] = new
<1>1. orders \in [Ids -> OrderStates]
  BY DEF TypeOK
<1>2. \A j \in Ids : TrueOf(orders[j].status, orders[j].filled, orders[j])
  BY <1>1 DEF TrueOf, OrderStates
<1>3. orders' \in [Ids -> OrderStates] /\ orders'[i] = new /\ \A j \in Ids \ {i} : orders'[j] = orders[j]
  <2> HIDE DEF Ids, OrderStates
  <2> QED BY <1>1
<1>4. OrdersGrow
  <2> SUFFICES ASSUME NEW j \in Ids PROVE TrueOf(orders[j].status, orders[j].filled, orders'[j])
    BY DEF OrdersGrow
  <2>1. CASE j = i
    BY <1>3, <2>1
  <2>2. CASE j # i
    <3>1. orders'[j] = orders[j]
      BY <1>3, <2>2
    <3> QED BY <1>2, <3>1
  <2> QED BY <2>1, <2>2
<1> QED BY <1>3, <1>4

LEMMA ExchangeAcceptsStep ==
    ASSUME IInv, NEW c \in Callers, ExchangeAccepts(c)
    PROVE  IInv'
<1>1. TypeOK /\ pc[c] = "http" /\ op[c] \in {"limit", "market"}
  BY DEF IInv, ExchangeAccepts
<1>2. PICK i \in Ids : /\ orders[i] = NoOrder
                       /\ orders' = [orders EXCEPT ![i] = [status |-> "New", filled |-> 0]]
                       /\ Answered(c, [result |-> "ok", id |-> i]) \/ Answered(c, Failed)
  BY DEF ExchangeAccepts
<1>3. PICK new : new = [status |-> "New", filled |-> 0]
  OBVIOUS
<1>4. new \in OrderStates /\ TrueOf(orders[i].status, orders[i].filled, new)
  BY <1>2, <1>3 DEF OrderStates, TrueOf, NoOrder, Final
<1>5. orders' \in [Ids -> OrderStates] /\ OrdersGrow
  BY <1>1, <1>2, <1>3, <1>4, OrderChanges
<1>6. CASE Answered(c, Failed)
  BY <1>5, <1>6, SimpleReplies, AnsweredStep
<1>7. CASE Answered(c, [result |-> "ok", id |-> i])
  <2>1. PICK value : value = [result |-> "ok", id |-> i]
    OBVIOUS
  <2>2. value \in Replies /\ value.id = i
    BY <2>1 DEF Replies
  <2>3. Answered(c, value)
    BY <1>7, <2>1
  <2>4. reply'[c] = value /\ pc' = pc /\ op' = op
    BY <1>1, <2>3, AnsweredRow
  <2>5. ReplyOK(c)'
    BY <1>1, <2>2, <2>4 DEF ReplyOK
  <2> QED BY <1>5, <2>2, <2>3, <2>5, AnsweredStep
<1> QED BY <1>2, <1>6, <1>7

LEMMA ExchangeCancelsStep ==
    ASSUME IInv, NEW c \in Callers, ExchangeCancels(c)
    PROVE  IInv'
<1>1. TypeOK /\ pc[c] = "http" /\ op[c] = "cancel" /\ CallerOK(c) /\ orders[on[c]].status = "New"
  BY DEF IInv, ExchangeCancels
<1>2. on[c] \in Ids
  BY <1>1 DEF CallerOK, OrderCalls
<1>3. PICK i \in Ids : i = on[c]
  BY <1>2
<1>4. orders[i] \in OrderStates /\ orders[i].status = "New"
  BY <1>1, <1>3 DEF TypeOK
<1>5. PICK new : new = [orders[i] EXCEPT !.status = "Cancelled"]
  OBVIOUS
<1>6. orders' = [orders EXCEPT ![i] = new]
  BY <1>3, <1>5 DEF ExchangeCancels
<1>7. new \in OrderStates /\ new.status = "Cancelled" /\ TrueOf(orders[i].status, orders[i].filled, new)
  BY <1>4, <1>5 DEF OrderStates, TrueOf, Final
<1>8. orders' \in [Ids -> OrderStates] /\ OrdersGrow /\ orders'[i] = new
  BY <1>1, <1>6, <1>7, OrderChanges
<1>9. PICK value \in {[result |-> "ok"], Failed} : Answered(c, value)
  BY DEF ExchangeCancels
<1>10. value \in Replies
  BY SimpleReplies DEF Replies
<1>11. pc' = pc /\ op' = op /\ on' = on
  BY <1>1, <1>9, AnsweredRow
<1>12. ReplyOK(c)'
  BY <1>1, <1>3, <1>7, <1>8, <1>11 DEF ReplyOK
<1> QED BY <1>8, <1>9, <1>10, <1>12, AnsweredStep

LEMMA ExchangeReadsStep ==
    ASSUME IInv, NEW c \in Callers, ExchangeReads(c)
    PROVE  IInv'
<1>1. TypeOK /\ CallerOK(c) /\ orders' = orders /\ Waiting(c)
  BY DEF IInv, ExchangeReads, Unserved
<1>2. orders' \in [Ids -> OrderStates] /\ OrdersGrow
  BY <1>1, SameOrders DEF TypeOK
<1>3. sent[c] <= now /\ sent[c] \in Nat /\ now \in Nat /\ skew \in Int /\ drifted \in Int
  BY <1>1 DEF CallerOK, TypeOK
<1>4. CASE /\ pc[c] = "time"
           /\ \E behind \in {0, (now + skew) % SECOND} :
                 Answered(c, [result |-> "ok", time |-> now + skew - behind, at |-> now, drift |-> drifted])
  <2>1. PICK behind \in {0, (now + skew) % SECOND} :
            Answered(c, [result |-> "ok", time |-> now + skew - behind, at |-> now, drift |-> drifted])
    BY <1>4
  <2>2. behind \in Int /\ 0 <= behind /\ behind <= SECOND - 1
    BY <1>3
  <2>3. PICK value : value = [result |-> "ok", time |-> now + skew - behind, at |-> now, drift |-> drifted]
    OBVIOUS
  <2>4. value.time = now + skew - behind /\ value.at = now /\ value.drift = drifted
    BY <2>3
  <2>5. value \in Replies
    BY <1>3, <2>2, <2>3 DEF Replies
  <2>6. Answered(c, value)
    BY <2>1, <2>3
  <2>7. reply'[c] = value /\ UNCHANGED <<now, skew, drifted, op, pc, sent>>
    BY <1>1, <2>6, AnsweredRow
  <2>8. TimeOK(c)'
    BY <1>3, <2>2, <2>4, <2>7 DEF TimeOK
  <2>9. ReplyOK(c)'
    BY <1>4, <2>7, <2>8 DEF ReplyOK
  <2> QED BY <1>2, <2>5, <2>6, <2>9, AnsweredStep
<1>5. CASE /\ pc[c] = "qty" \/ (pc[c] = "http" /\ op[c] = "query")
           /\ Answered(c, [result |-> "ok"])
  <2>1. [result |-> "ok"] \in Replies
    BY DEF Replies
  <2>2. op' = op /\ pc' = pc
    BY <1>1, <1>5, AnsweredRow
  <2>3. ReplyOK(c)'
    BY <1>5, <2>2 DEF ReplyOK
  <2> QED BY <1>2, <1>5, <2>1, <2>3, AnsweredStep
<1>6. CASE pc[c] = "http" /\ op[c] = "book" /\ Answered(c, [result |-> "ok", time |-> now])
  <2>1. PICK value : value = [result |-> "ok", time |-> now]
    OBVIOUS
  <2>2. value.time = now
    BY <2>1
  <2>3. value \in Replies
    BY <1>3, <2>1 DEF Replies
  <2>4. reply'[c] = value /\ UNCHANGED <<now, op, pc, sent>>
    BY <1>1, <1>6, <2>1, AnsweredRow
  <2>5. ReplyOK(c)'
    BY <1>3, <1>6, <2>2, <2>4 DEF ReplyOK
  <2> QED BY <1>2, <1>6, <2>1, <2>3, <2>5, AnsweredStep
<1>7. CASE /\ pc[c] = "http" /\ op[c] \in {"status", "detailed"}
           /\ Answered(c, [result |-> "ok", order |-> orders[on[c]]])
  <2>1. PICK value : value = [result |-> "ok", order |-> orders[on[c]]]
    OBVIOUS
  <2>2. on[c] \in Ids
    BY <1>1, <1>7 DEF CallerOK, OrderCalls
  <2>3. orders[on[c]] \in OrderStates /\ value.order = orders[on[c]]
    BY <1>1, <2>1, <2>2 DEF TypeOK
  <2>4. value \in Replies
    BY <2>1, <2>3 DEF Replies
  <2>5. reply'[c] = value /\ UNCHANGED <<op, on, pc>>
    BY <1>1, <1>7, <2>1, AnsweredRow
  <2>6. TrueOf(orders[on[c]].status, orders[on[c]].filled, orders[on[c]])
    BY <2>3 DEF TrueOf, OrderStates
  <2>7. ReplyOK(c)'
    BY <1>1, <1>7, <2>3, <2>5, <2>6 DEF ReplyOK
  <2> QED BY <1>2, <1>7, <2>1, <2>4, <2>7, AnsweredStep
<1> QED BY <1>4, <1>5, <1>6, <1>7 DEF ExchangeReads

(* The exchange's own steps, and a step of something else.                 *)
LEMMA OrdersStep ==
    ASSUME IInv, orders' \in [Ids -> OrderStates], OrdersGrow,
           UNCHANGED <<now, skew, drifted, op, on, pc, sent, reply, stamp, basis, answer, metadata, timeVars,
                       order_book_cache>>
    PROVE  IInv'
<1>1. TypeOK /\ (\A d \in Callers : CallerOK(d))
  BY DEF IInv
<1>2. /\ TimeType' /\ OffsetOK'
      /\ order_book_cache' \in [at : Int, of : Int] /\ CacheOK'
  BY SharedStays
<1>3. /\ op' = op /\ on' = on /\ pc' = pc /\ sent' = sent /\ reply' = reply /\ stamp' = stamp
      /\ basis' = basis /\ now' = now /\ skew' = skew /\ drifted' = drifted /\ metadata' = metadata
  OBVIOUS
<1>4. TypeOK'
  BY <1>1, <1>2, <1>3, Zenon DEF TypeOK
<1>5. \A d \in Callers : CallerOK(d)'
  <2> SUFFICES ASSUME NEW d \in Callers PROVE CallerOK(d)'
    OBVIOUS
  <2>1. /\ pc'[d] = pc[d] /\ op'[d] = op[d] /\ on'[d] = on[d] /\ sent'[d] = sent[d]
        /\ reply'[d] = reply[d] /\ stamp'[d] = stamp[d] /\ basis'[d] = basis[d]
    BY <1>3, Zenon
  <2> QED BY <1>1, <1>3, <1>4, <2>1, RowStays
<1>6. AnswerOK'
  BY <1>4, AnswerStays
<1> QED BY <1>2, <1>4, <1>5, <1>6 DEF IInv

LEMMA ExchangeFillsStep ==
    ASSUME IInv, NEW i \in Ids, ExchangeFills(i) \/ ExchangeDrops(i)
    PROVE  IInv'
<1>1. TypeOK /\ orders[i] \in OrderStates /\ orders[i].status = "New"
  BY DEF IInv, TypeOK, ExchangeFills, ExchangeDrops
<1>2. UNCHANGED <<now, skew, drifted, op, on, pc, sent, reply, stamp, basis, answer, metadata, timeVars,
                  order_book_cache>>
  BY DEF ExchangeFills, ExchangeDrops, callVars, cacheVars, clockVars
<1>3. PICK new \in OrderStates : /\ orders' = [orders EXCEPT ![i] = new]
                                 /\ TrueOf(orders[i].status, orders[i].filled, new)
  <2>1. CASE ExchangeFills(i)
    <3>1. PICK new : new = [status |-> IF orders[i].filled + 1 = SIZE THEN "Filled" ELSE "New",
                            filled |-> orders[i].filled + 1]
      OBVIOUS
    <3>2. orders' = [orders EXCEPT ![i] = new]
      BY <2>1, <3>1 DEF ExchangeFills
    <3>3. new.filled = orders[i].filled + 1 /\ orders[i].filled \in Nat
      BY <1>1, <3>1 DEF OrderStates
    <3>4. new \in OrderStates
      BY <3>1, <3>3 DEF OrderStates, Final
    <3>5. TrueOf(orders[i].status, orders[i].filled, new)
      BY <1>1, <3>3 DEF TrueOf, Final
    <3> QED BY <3>2, <3>4, <3>5
  <2>2. CASE ExchangeDrops(i)
    <3>1. PICK new : new = [orders[i] EXCEPT !.status = "Cancelled"]
      OBVIOUS
    <3>2. orders' = [orders EXCEPT ![i] = new]
      BY <2>2, <3>1 DEF ExchangeDrops
    <3>3. new \in OrderStates /\ TrueOf(orders[i].status, orders[i].filled, new)
      BY <1>1, <3>1 DEF OrderStates, TrueOf, Final
    <3> QED BY <3>2, <3>3
  <2> QED BY <2>1, <2>2
<1>4. orders' \in [Ids -> OrderStates] /\ OrdersGrow
  BY <1>1, <1>3, OrderChanges
<1> QED BY <1>2, <1>4, OrdersStep

(* A caller whose answer never comes stays where it is.                    *)
LEMMA HangStep ==
    ASSUME IInv, NEW c \in Callers, Hang(c)
    PROVE  IInv'
<1>1. /\ pc' = [pc EXCEPT ![c] = "hung"] /\ reply' = [reply EXCEPT ![c] = NoReply]
      /\ UNCHANGED <<now, skew, drifted, orders, op, on, sent, stamp, basis, answer, metadata, timeVars,
                     order_book_cache>>
  BY DEF Hang, clockVars, cacheVars
<1>2. TypeOK /\ CallerOK(c) /\ Waiting(c) /\ "hung" \in Points /\ NoReply \in Replies
  BY SimpleReplies DEF IInv, Hang, Points
<1>3. pc \in [Callers -> Points] /\ reply \in [Callers -> Replies]
  BY <1>2 DEF TypeOK
<1>4. /\ pc' \in [Callers -> Points] /\ pc'[c] = "hung" /\ \A d \in Callers \ {c} : pc'[d] = pc[d]
      /\ reply' \in [Callers -> Replies] /\ reply'[c] = NoReply
      /\ \A d \in Callers \ {c} : reply'[d] = reply[d]
  <2> HIDE DEF Points, Replies, NoReply
  <2> QED BY <1>1, <1>2, <1>3
<1>5. op' = op /\ on' = on /\ sent' = sent /\ stamp' = stamp /\ basis' = basis
  BY <1>1
<1>6. Others(c)
  BY <1>4, <1>5, Zenon DEF Others
<1>7. /\ op' \in [Callers -> Ops] /\ on' \in [Callers -> Ids \cup {Sim}] /\ sent' \in [Callers -> Nat]
      /\ stamp' \in [Callers -> Int] /\ basis' \in [Callers -> Bases]
      /\ orders' \in [Ids -> OrderStates] /\ OrdersGrow
      /\ TimeType' /\ OffsetOK'
  BY <1>1, <1>2, <1>5, SameOrders, SharedStays DEF TypeOK
<1>8. CallerOK(c)'
  <2>1. op[c] \in OrderCalls => on[c] \in Ids
    BY <1>2 DEF CallerOK, Waiting
  <2>2. reply'[c].result # "ok"
    BY <1>4, SimpleReplies
  <2> QED BY <1>4, <1>5, <2>1, <2>2 DEF CallerOK, Waiting, StampOK
<1>9. UNCHANGED <<now, skew, drifted, answer, metadata, order_book_cache>>
  BY <1>1
<1> QED BY <1>4, <1>6, <1>7, <1>8, <1>9, MoveStep

(* A bound that holds up to the drift goes on to hold up to a longer one.  *)
LEMMA DriftWidens ==
    ASSUME NEW time \in Int, NEW high \in Int, NEW base \in Int,
           NEW s \in Int, NEW t \in Int, NEW d \in Int, NEW e \in Int,
           s - t <= e - d, time - s <= high + (d - base)
    PROVE  time - t <= high + (e - base)
  OBVIOUS

(* Time passes only while no request has taken its longest, and the skew   *)
(* changes by no more than is counted as drift.                            *)
LEMMA TickStep ==
    ASSUME IInv, Tick
    PROVE  IInv'
<1>1. TypeOK /\ (\A d \in Callers : CallerOK(d))
  BY DEF IInv
<1>2. now' = now + 1 /\ now \in Nat
  BY <1>1 DEF Tick, TypeOK
<1>9. PICK by \in Drifts : skew' = skew + by /\ drifted' = drifted + Size(by)
  BY DEF Tick
<1>10. /\ by \in Int /\ Size(by) \in Int /\ by <= Size(by) /\ -by <= Size(by)
       /\ skew \in Int /\ drifted \in Int /\ skew' \in Int /\ drifted' \in Int
  BY <1>1, <1>9 DEF Size, TypeOK
<1>3. /\ op' = op /\ on' = on /\ pc' = pc /\ sent' = sent /\ reply' = reply /\ stamp' = stamp
      /\ basis' = basis /\ metadata' = metadata /\ orders' = orders /\ answer' = answer
      /\ order_book_cache' = order_book_cache /\ time_offset' = time_offset /\ reading' = reading
      /\ last_sync' = last_sync
  BY DEF Tick, callVars, cacheVars, timeVars
<1>4. TypeOK'
  <2>1. now' \in Nat
    BY <1>2
  <2> QED BY <1>1, <1>3, <1>10, <2>1, Zenon DEF TypeOK, TimeType
<1>5. ASSUME NEW d \in Callers PROVE CallerOK(d)'
  <2>1. CallerOK(d) /\ sent[d] \in Nat /\ skew \in Int /\ drifted \in Int
    BY <1>1 DEF TypeOK
  <2>2. (Waiting(d) => sent[d] <= now /\ now - sent[d] <= LATENCY)'
    <3>1. ASSUME Waiting(d) PROVE now - sent[d] < LATENCY /\ sent[d] <= now
      <4>1. \/ pc[d] \in {"idle", "hung"}
            \/ pc[d] \in {"lock", "record"}
            \/ now - sent[d] < LATENCY
        BY DEF Tick
      <4> QED BY <2>1, <3>1, <4>1 DEF Waiting, CallerOK
    <3>2. Waiting(d)' <=> Waiting(d)
      BY <1>3 DEF Waiting
    <3> QED BY <1>2, <1>3, <2>1, <3>1, <3>2
  <2>3. (op[d] \in OrderCalls /\ pc[d] # "lock" => on[d] \in Ids)'
    BY <1>3, <2>1 DEF CallerOK
  <2>4. StampOK(d)'
    <3>1. /\ basis[d].at \in Int /\ basis[d].drift \in Int /\ stamp[d] \in Int
          /\ Half \in Nat /\ LATENCY \in Nat /\ SECOND \in Nat
      BY <1>1 DEF TypeOK, Bases, Half
    <3>2. skew' - skew <= drifted' - drifted /\ skew - skew' <= drifted' - drifted
      BY <1>9, <1>10
    <3>3. ASSUME NEW high \in Int, stamp[d] - skew <= high + (drifted - basis[d].drift)
          PROVE  stamp[d] - skew' <= high + (drifted' - basis[d].drift)
      BY <1>10, <3>1, <3>2, <3>3, DriftWidens
    <3>4. ASSUME NEW low \in Int, low - (drifted - basis[d].drift) <= stamp[d] - skew
          PROVE  low - (drifted' - basis[d].drift) <= stamp[d] - skew'
      BY <1>10, <2>1, <3>1, <3>2, <3>4
    <3>5. /\ sent[d] + Half \in Int /\ sent[d] - Half - (SECOND - 1) \in Int
          /\ sent[d] - LATENCY - Half - (SECOND - 1) \in Int
      BY <2>1, <3>1
    <3>6. StampOK(d)
      BY <2>1 DEF CallerOK
    <3> QED BY <1>3, <3>3, <3>4, <3>5, <3>6, Zenon DEF StampOK, Half
  <2>5. ASSUME reply[d].result = "ok" PROVE ReplyOK(d)'
    <3>1. ReplyOK(d)
      BY <2>1, <2>5 DEF CallerOK
    <3>2. (pc[d] = "time" => TimeOK(d))'
      <4>1. ASSUME pc[d] = "time" PROVE TimeOK(d)'
        BY <1>2, <1>3, <1>9, <1>10, <2>1, <3>1, <4>1 DEF ReplyOK, TimeOK
      <4> QED BY <1>3, <4>1
    <3>3. (pc[d] = "http" /\ op[d] = "book" =>
            reply[d].time \in Int /\ sent[d] <= reply[d].time /\ reply[d].time <= now)'
      BY <1>2, <1>3, <2>1, <3>1 DEF ReplyOK
    <3>4. (pc[d] = "http" =>
            /\ op[d] \in {"limit", "market"} => reply[d].id \in Ids
            /\ op[d] \in {"status", "detailed"} =>
                /\ reply[d].order \in OrderStates
                /\ TrueOf(reply[d].order.status, reply[d].order.filled, orders[on[d]])
            /\ op[d] = "cancel" => orders[on[d]].status = "Cancelled")'
      BY <1>3, <3>1, Zenon DEF ReplyOK
    <3> QED BY <3>2, <3>3, <3>4 DEF ReplyOK
  <2>6. reply'[d].result = "ok" => ReplyOK(d)'
    BY <1>3, <2>5
  <2> QED BY <2>2, <2>3, <2>4, <2>6 DEF CallerOK
<1>6. OffsetOK'
  <2>1. OffsetOK /\ reading.drift \in Int /\ time_offset \in Int /\ Half \in Nat
    BY <1>1 DEF IInv, TypeOK, TimeType, Readings, Half
  <2>2. ASSUME Near(time_offset, reading) PROVE Near(time_offset, reading)'
    <3> HIDE DEF Half
    <3> QED BY <1>3, <1>9, <1>10, <2>1, <2>2 DEF Near
  <2> QED BY <1>3, <2>1, <2>2, Zenon DEF OffsetOK
<1>7. CacheOK'
  <2>1. CacheOK /\ order_book_cache.at \in Int
    BY <1>1 DEF IInv, TypeOK
  <2> QED BY <1>2, <1>3, <2>1 DEF CacheOK
<1>8. AnswerOK'
  BY <1>3, <1>4, <1>1, SameOrders, AnswerStays
<1> QED BY <1>4, <1>5, <1>6, <1>7, <1>8 DEF IInv

LEMMA InitIInv == Init => IInv
<1> SUFFICES ASSUME Init PROVE IInv
  OBVIOUS
<1>1. TypeOK
  <2>1. now \in Nat /\ skew \in Int /\ drifted \in Int /\ orders \in [Ids -> OrderStates]
    BY DEF Init, OrderStates, NoOrder
  <2>2. op \in [Callers -> Ops] /\ pc \in [Callers -> Points] /\ sent \in [Callers -> Nat]
    BY DEF Init, Ops, Points
  <2>3. on \in [Callers -> Ids \cup {Sim}] /\ reply \in [Callers -> Replies]
    BY SimIsNoId, SimpleReplies DEF Init
  <2>4. stamp \in [Callers -> Int] /\ basis \in [Callers -> Bases]
    BY DEF Init, NoBasis, Bases
  <2>5. metadata \subseteq Ids \cup {Sim} /\ TimeType
    BY DEF Init, TimeType, Readings, Never
  <2>6. order_book_cache \in [at : Int, of : Int]
    BY DEF Init, NoBook
  <2> QED BY <2>1, <2>2, <2>3, <2>4, <2>5, <2>6 DEF TypeOK
<1>2. ASSUME NEW c \in Callers PROVE CallerOK(c)
  <2>1. pc[c] = "idle" /\ op[c] = "none" /\ reply[c].result = "none"
    BY SimpleReplies DEF Init
  <2> QED BY <2>1 DEF CallerOK, Waiting, StampOK, OrderCalls
<1>3. OffsetOK /\ CacheOK
  BY DEF Init, OffsetOK, CacheOK, Never
<1>4. AnswerOK
  BY DEF Init, NoAnswer, AnswerOK, BookAgeBounded, OrderCalls
<1> QED BY <1>1, <1>2, <1>3, <1>4 DEF IInv

LEMMA NextIInv == IInv /\ [Next]_vars => IInv'
<1> SUFFICES ASSUME IInv, [Next]_vars PROVE IInv'
  OBVIOUS
<1>1. ASSUME NEW c \in Callers, Call(c) PROVE IInv'
  BY <1>1, CallSignedStep, CallSimulatedStep, CallOnOrderStep, CallSyncStep, CallBookStep DEF Call
<1>2. ASSUME NEW c \in Callers, Proceed(c) PROVE IInv'
  BY <1>2, LockMetadataStep, TimeAnsweredStep, QtyAnsweredStep, OrderAnsweredStep, RecordStep,
     StatusAnsweredStep, OtherAnsweredStep, BookAnsweredStep DEF Proceed
<1>3. ASSUME NEW c \in Callers, ExchangeServes(c) PROVE IInv'
  BY <1>3, ExchangeFailsStep, ExchangeAcceptsStep, ExchangeCancelsStep, ExchangeReadsStep
     DEF ExchangeServes
<1>4. ASSUME NEW i \in Ids, ExchangeFills(i) \/ ExchangeDrops(i) PROVE IInv'
  BY <1>4, ExchangeFillsStep
<1>6. ASSUME NEW c \in Callers, Hang(c) PROVE IInv'
  BY <1>6, HangStep
<1>5. CASE UNCHANGED vars
  <2>1. UNCHANGED <<now, skew, drifted, op, on, pc, sent, reply, stamp, basis, answer, metadata, timeVars,
                    order_book_cache, orders>>
    BY <1>5 DEF vars, callVars, cacheVars, clockVars
  <2>2. TypeOK /\ orders' \in [Ids -> OrderStates]
    BY <2>1 DEF IInv, TypeOK
  <2> QED BY <2>1, <2>2, SameOrders, OrdersStep
<1> QED BY <1>1, <1>2, <1>3, <1>4, <1>5, <1>6, TickStep DEF Next

(* The inductive invariant holds throughout every run of the backend.      *)
THEOREM InductiveInvariant == Spec => []IInv
  BY InitIInv, NextIInv, PTL DEF Spec

(* The state of the backend and of its callers keeps its type.             *)
THEOREM TypeCorrect == Spec => []TypeOK
<1>1. IInv => TypeOK
  BY DEF IInv
<1> QED BY <1>1, InductiveInvariant, PTL

(* cancel_order, get_order_status and get_order_status_detailed say what   *)
(* is true of the order when they return and stays so, for any number of   *)
(* concurrent callers, although the exchange goes on while their answers   *)
(* travel and others cancel the same order.                                *)
THEOREM AnswersStayTrue == Spec => []AnswersAreTrue
<1>1. IInv => AnswersAreTrue
  <2> SUFFICES ASSUME IInv, answer.kind \in {"cancel", "status", "detailed"}, answer.id # Sim
               PROVE  /\ answer.status \in {"Filled", "Cancelled"} =>
                            orders[answer.id].status = answer.status
                      /\ answer.filled <= orders[answer.id].filled
    BY DEF AnswersAreTrue
  <2> QED BY DEF IInv, AnswerOK, TrueOf, OrderCalls, Final
<1> QED BY <1>1, InductiveInvariant, PTL

(* A signed request's timestamp stays within half a latency and the drift  *)
(* since its reading of the exchange's clock, for any skew, any drift and  *)
(* any overlap of the resynchronizations of sync_server_time; and get_     *)
(* timestamp keeps that reading recent unless a resynchronization fails.   *)
THEOREM StampStaysClose == Spec => []StampIsClose
<1>1. IInv => StampIsClose
  <2> SUFFICES ASSUME IInv, NEW c \in Callers, pc[c] = "http", op[c] # "book", basis[c].at >= 0
               PROVE  /\ -(Half + 2 * LATENCY + SECOND - 1 + (drifted - basis[c].drift))
                            <= stamp[c] - (now + skew)
                      /\ stamp[c] - (now + skew) <= Half + (drifted - basis[c].drift)
                      /\ basis[c].how = "fresh" => now - basis[c].at <= RESYNC_AFTER + 3 * LATENCY
    BY DEF StampIsClose, Half
  <2>1. CallerOK(c) /\ TypeOK
    BY DEF IInv
  <2>2. /\ sent[c] - LATENCY - Half - (SECOND - 1) - (drifted - basis[c].drift) <= stamp[c] - skew
        /\ stamp[c] - skew <= sent[c] + Half + (drifted - basis[c].drift)
        /\ basis[c].how = "fresh" => sent[c] - basis[c].at <= RESYNC_AFTER + 2 * LATENCY
    BY <2>1 DEF CallerOK, StampOK
  <2>3. sent[c] <= now /\ now - sent[c] <= LATENCY
    BY <2>1 DEF CallerOK, Waiting
  <2>4. /\ sent[c] \in Nat /\ now \in Nat /\ skew \in Int /\ drifted \in Int /\ stamp[c] \in Int
        /\ basis[c].at \in Int /\ basis[c].drift \in Int
        /\ Half \in Nat /\ LATENCY \in Nat /\ SECOND \in Nat /\ RESYNC_AFTER \in Nat
    BY <2>1 DEF TypeOK, Bases, Half
  <2> HIDE DEF Half
  <2> QED BY <2>2, <2>3, <2>4
<1> QED BY <1>1, InductiveInvariant, PTL

(* A book that get_order_book_depth or a best price comes from was the     *)
(* exchange's less than a lifetime of the cache and a latency ago, for any *)
(* number of callers that fill the cache out of order.                     *)
THEOREM BookIsRecent == Spec => []BookAgeBounded
<1>1. IInv => BookAgeBounded
  BY DEF IInv, AnswerOK
<1> QED BY <1>1, InductiveInvariant, PTL
=============================================================================
