--------------------------- MODULE DropOldestQueue ---------------------------
(***************************************************************************)
(* The bounded lock-free queue with which the streaming path is built:     *)
(* MarketPipeline and ExecutionPipeline (strategy/pipeline.rs), and        *)
(* OpportunityQueue (strategy/opportunity_queue.rs), which is the same     *)
(* algorithm over crossbeam's ArrayQueue with the drop counted before the  *)
(* second push instead of after it, and without enqueue_count and          *)
(* try_push.  The variable kind tells the two apart.                       *)
(*                                                                         *)
(* A push that finds the queue full pops the oldest item and pushes again. *)
(* Every ArrayQueue call and every counter update is atomic by itself;     *)
(* the consumers run between any two of them.  There is one producer, as   *)
(* in main.rs (redis_bridge, OpportunityDetector); it stamps its items     *)
(* 1, 2, 3, ... in the order of its calls.                                 *)
(***************************************************************************)
EXTENDS Naturals, Sequences, SequencesExt, FiniteSets

CONSTANTS
    CAPACITY,              \* of the ArrayQueue
    Consumers,             \* consumer handles in use; they compete
    MAX_PUSHES             \* bound: calls of the producer

ASSUME QueueAssumption ==
    /\ CAPACITY \in Nat \ {0}
    /\ MAX_PUSHES \in Nat

VARIABLES
    kind,             \* "pipeline" or "opportunity": which of the two queues it is
    queue,            \* the ArrayQueue
    pc,               \* where the producer's call is
    stamp,            \* the item of the producer's last call, 0 before it
    push_count, enqueue_count, drop_count, pop_count,
    popped,           \* per consumer: the item in hand, its pop not counted, or 0
    got,              \* per consumer: the last item it was given
    delivered,        \* the items given to consumers
    lost,             \* the items that were dropped
    rejected          \* the items try_push handed back

counters == <<push_count, enqueue_count, drop_count, pop_count>>
consumer == <<popped, got, delivered>>
vars == <<kind, queue, pc, stamp, push_count, enqueue_count, drop_count, pop_count,
          popped, got, delivered, lost, rejected>>

Init ==
    /\ kind \in {"pipeline", "opportunity"}
    /\ queue = <<>>
    /\ pc = "idle"
    /\ stamp = 0
    /\ push_count = 0 /\ enqueue_count = 0 /\ drop_count = 0 /\ pop_count = 0
    /\ popped = [c \in Consumers |-> 0]
    /\ got = [c \in Consumers |-> 0]
    /\ delivered = {}
    /\ lost = {}
    /\ rejected = {}

Full == Len(queue) >= CAPACITY

-----------------------------------------------------------------------------
(* push: the first line counts the call; try_push does the same.           *)
BeginPush ==
    /\ pc = "idle"
    /\ stamp < MAX_PUSHES
    /\ stamp' = stamp + 1
    /\ push_count' = push_count + 1
    /\ pc' \in IF kind = "pipeline" THEN {"push", "try_push"} ELSE {"push"}
    /\ UNCHANGED <<kind, queue, enqueue_count, drop_count, pop_count, consumer, lost, rejected>>

(* queue.push succeeds.                                                    *)
PushFits ==
    /\ pc \in {"push", "try_push"}
    /\ ~Full
    /\ queue' = Append(queue, stamp)
    /\ pc' = IF kind = "pipeline" THEN "count_enqueue" ELSE "idle"
    /\ UNCHANGED <<kind, stamp, counters, consumer, lost, rejected>>

PushFull ==
    /\ pc = "push"
    /\ Full
    /\ pc' = "full"
    /\ UNCHANGED <<kind, queue, stamp, counters, consumer, lost, rejected>>

TryPushFull ==
    /\ pc = "try_push"
    /\ Full
    /\ rejected' = rejected \cup {stamp}
    /\ pc' = "idle"
    /\ UNCHANGED <<kind, queue, stamp, counters, consumer, lost>>

(* Mutant: the newest item of the queue is dropped instead of the oldest.  *)
DropNewest ==
    /\ pc = "full"
    /\ queue' = IF queue = <<>> THEN queue ELSE Front(queue)
    /\ lost' = IF queue = <<>> THEN lost ELSE lost \cup {Last(queue)}
    /\ pc' = IF kind = "pipeline" THEN "retry" ELSE "count_drop"
    /\ UNCHANGED <<kind, stamp, counters, consumer, rejected>>

(* Mutant: nothing is dropped, so the second push fails as the first did.  *)
DropNothing ==
    /\ pc = "full"
    /\ pc' = IF kind = "pipeline" THEN "retry" ELSE "count_drop"
    /\ UNCHANGED <<kind, queue, stamp, counters, consumer, lost, rejected>>

(* queue.pop drops the oldest item, if the consumers left one.             *)
DropOldest ==
    /\ pc = "full"
    /\ queue' = IF queue = <<>> THEN queue ELSE Tail(queue)
    /\ lost' = IF queue = <<>> THEN lost ELSE lost \cup {Head(queue)}
    /\ pc' = IF kind = "pipeline" THEN "retry" ELSE "count_drop"
    /\ UNCHANGED <<kind, stamp, counters, consumer, rejected>>

(* The second push, whose result is ignored.                               *)
Retry ==
    /\ pc = "retry"
    /\ IF Full
       THEN lost' = lost \cup {stamp} /\ UNCHANGED queue
       ELSE queue' = Append(queue, stamp) /\ UNCHANGED lost
    /\ pc' = IF kind = "opportunity" THEN "idle"
             ELSE IF Full THEN "count_drop" ELSE "count_both"
    /\ UNCHANGED <<kind, stamp, counters, consumer, rejected>>

CountEnqueue ==
    /\ pc \in {"count_enqueue", "count_both"}
    /\ enqueue_count' = enqueue_count + 1
    /\ pc' = IF pc = "count_both" THEN "count_drop" ELSE "idle"
    /\ UNCHANGED <<kind, queue, stamp, push_count, drop_count, pop_count, consumer, lost, rejected>>

CountDrop ==
    /\ pc = "count_drop"
    /\ drop_count' = drop_count + 1
    /\ pc' = IF kind = "pipeline" THEN "idle" ELSE "retry"
    /\ UNCHANGED <<kind, queue, stamp, push_count, enqueue_count, pop_count, consumer, lost, rejected>>

-----------------------------------------------------------------------------
(* Mutant: two consumers can be given the same item.                       *)
PopWithoutRemoving(c) ==
    /\ popped[c] = 0
    /\ queue # <<>>
    /\ popped' = [popped EXCEPT ![c] = Head(queue)]
    /\ UNCHANGED <<kind, queue, pc, stamp, counters, got, delivered, lost, rejected>>

(* Mutant: a consumer leaves the last item of the queue alone.             *)
PopNotTheLast(c) ==
    /\ popped[c] = 0
    /\ Len(queue) > 1
    /\ popped' = [popped EXCEPT ![c] = Head(queue)]
    /\ queue' = Tail(queue)
    /\ UNCHANGED <<kind, pc, stamp, counters, got, delivered, lost, rejected>>

(* A consumer's pop, also one round of pop_batch: queue.pop, then          *)
(* pop_count.                                                              *)
Pop(c) ==
    /\ popped[c] = 0
    /\ queue # <<>>
    /\ popped' = [popped EXCEPT ![c] = Head(queue)]
    /\ queue' = Tail(queue)
    /\ UNCHANGED <<kind, pc, stamp, counters, got, delivered, lost, rejected>>

CountPop(c) ==
    /\ popped[c] # 0
    /\ pop_count' = pop_count + 1
    /\ got' = [got EXCEPT ![c] = popped[c]]
    /\ delivered' = delivered \cup {popped[c]}
    /\ popped' = [popped EXCEPT ![c] = 0]
    /\ UNCHANGED <<kind, queue, pc, stamp, push_count, enqueue_count, drop_count, lost, rejected>>

Producer ==
    \/ BeginPush \/ PushFits \/ PushFull \/ TryPushFull
    \/ DropOldest \/ Retry \/ CountEnqueue \/ CountDrop

Consumer(c) == Pop(c) \/ CountPop(c)

Next == Producer \/ \E c \in Consumers : Consumer(c)

Spec == Init /\ [][Next]_vars

(* Each consumer is a loop that pops again after a sleep of microseconds.  *)
FairSpec == Spec /\ \A c \in Consumers : WF_vars(Consumer(c))

-----------------------------------------------------------------------------
InHand == {popped[c] : c \in Consumers} \ {0}

(* Backpressure never reorders: the queue is in push order, and whatever   *)
(* is still in it is newer than everything a consumer was given or holds.  *)
Ordered ==
    /\ \A i \in 1 .. Len(queue) - 1 : queue[i] < queue[i + 1]
    /\ \A i \in 1 .. Len(queue), s \in delivered \cup InHand \cup lost : s < queue[i]

(* "This ensures the queue always contains the most recent opportunities"  *)
(* (opportunity_queue.rs), "we always process the most recent market data" *)
(* (pipeline.rs): between two calls of push the last item pushed was not   *)
(* dropped, however the pops of the consumers fell between the producer's  *)
(* steps.                                                                  *)
NewestKept == pc = "idle" => stamp \notin lost

(* Every item is in exactly one place: in the queue, with a consumer,      *)
(* dropped, handed back or still in the producer's hands; and the metrics  *)
(* do not hide a loss: between two calls every lost item is in drop_count. *)
NothingVanishes ==
    LET places == <<ToSet(queue), InHand, delivered, lost, rejected,
                    IF pc \in {"push", "try_push", "full", "retry"}
                       \/ (pc = "count_drop" /\ kind = "opportunity")
                    THEN {stamp} ELSE {}>>
    IN /\ UNION {places[i] : i \in DOMAIN places} = 1 .. stamp
       /\ \A i, j \in DOMAIN places : i # j => places[i] \cap places[j] = {}
       /\ pc = "idle" => Cardinality(lost) <= drop_count

(* With its consumers running, an item does not stay in the queue for      *)
(* ever: it is delivered or dropped.                                       *)
ItemsLeave ==
    \A s \in 1 .. MAX_PUSHES :
        (s \in ToSet(queue)) ~> (s \in delivered \cup lost)

=============================================================================
