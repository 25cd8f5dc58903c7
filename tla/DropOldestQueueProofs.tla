------------------------ MODULE DropOldestQueueProofs ------------------------
(***************************************************************************)
(* Proofs about push with drop-oldest against any number of consumers, for *)
(* every capacity and every number of pushes: the order is kept, the       *)
(* newest item is never the one dropped, and no item vanishes uncounted.   *)
(***************************************************************************)
EXTENDS DropOldestQueue, SequenceTheorems, FiniteSetTheorems, TLAPS

(* The item of the current call has not left the producer's hands.         *)
Holding ==
    \/ pc \in {"push", "try_push", "full", "retry"}
    \/ pc = "count_drop" /\ kind = "opportunity"

(* The newest item that has.                                               *)
Newest == IF Holding THEN stamp - 1 ELSE stamp

InQueue(s) == \E i \in 1 .. Len(queue) : queue[i] = s
InSomeHand(s) == \E c \in Consumers : popped[c] = s

TypeOK ==
    /\ kind \in {"pipeline", "opportunity"}
    /\ pc \in {"idle", "push", "try_push", "full", "retry",
               "count_enqueue", "count_both", "count_drop"}
    /\ kind = "opportunity" => pc \notin {"try_push", "count_enqueue", "count_both"}
    /\ queue \in Seq(Nat)
    /\ stamp \in Nat
    /\ Holding => stamp > 0
    /\ {push_count, enqueue_count, drop_count, pop_count} \subseteq Nat
    /\ popped \in [Consumers -> Nat]
    /\ got \in [Consumers -> Nat]
    /\ IsFiniteSet(lost)

(* A consumer can only make room, so the room that DropOldest makes is     *)
(* still there when the second push needs it.                              *)
Room ==
    /\ Len(queue) <= CAPACITY
    /\ pc = "retry" \/ (pc = "count_drop" /\ kind = "opportunity") => Len(queue) < CAPACITY

Ascending == \A i, j \in 1 .. Len(queue) : i < j => queue[i] < queue[j]

(* Whatever has left the queue at its head is older than what is in it.    *)
Older ==
    \A i \in 1 .. Len(queue) :
        /\ \A c \in Consumers : popped[c] < queue[i]
        /\ \A s \in delivered \cup lost : s < queue[i]

(* Everything is an item of an earlier call, or of this one once it is     *)
(* out of the producer's hands; this one is never among the lost.          *)
Issued ==
    /\ \A i \in 1 .. Len(queue) : queue[i] \in 1 .. Newest
    /\ \A c \in Consumers : popped[c] \in 0 .. Newest
    /\ \A s \in delivered \cup rejected : s \in 1 .. Newest
    /\ \A s \in lost : s \in 1 .. Newest /\ s < stamp

(* No item is in two places ...                                            *)
Apart ==
    /\ \A c, d \in Consumers : popped[c] = popped[d] /\ popped[c] # 0 => c = d
    /\ \A c \in Consumers : popped[c] \notin delivered \cup lost \cup rejected
    /\ \A s \in lost : s \notin delivered \cup rejected
    /\ \A s \in rejected : s \notin delivered /\ ~InQueue(s)

(* ... and each is in one.                                                 *)
Placed ==
    \A s \in 1 .. Newest :
        InQueue(s) \/ InSomeHand(s) \/ s \in delivered \/ s \in lost \/ s \in rejected

(* A loss that drop_count does not show yet.                               *)
Uncounted ==
    IF \/ pc \in {"count_both", "count_drop"}
       \/ pc = "retry" /\ kind = "pipeline"
    THEN 1 ELSE 0

Counted == Cardinality(lost) <= drop_count + Uncounted

IInv ==
    /\ TypeOK /\ Room /\ Ascending /\ Older /\ Issued /\ Apart /\ Placed /\ Counted

-----------------------------------------------------------------------------
(* What push and pop do to the queue.                                      *)

(* queue.push puts the item behind the others.                             *)
LEMMA Appended ==
    ASSUME NEW q \in Seq(Nat), NEW x \in Nat
    PROVE  /\ Append(q, x) \in Seq(Nat)
           /\ Len(Append(q, x)) = Len(q) + 1
           /\ Len(q) \in Nat
           /\ \A i \in 1 .. Len(q) : Append(q, x)[i] = q[i] /\ q[i] \in Nat
           /\ Append(q, x)[Len(q) + 1] = x
  OBVIOUS

(* queue.pop takes the first and moves the others up.                      *)
LEMMA Tailed ==
    ASSUME NEW q \in Seq(Nat), q # <<>>
    PROVE  /\ Tail(q) \in Seq(Nat)
           /\ Len(Tail(q)) = Len(q) - 1
           /\ Len(q) \in Nat \ {0}
           /\ \A i \in 1 .. Len(q) : q[i] \in Nat
           /\ \A i \in 1 .. Len(q) - 1 : Tail(q)[i] = q[i + 1]
           /\ Head(q) = q[1]
  BY HeadTailProperties, EmptySeq, LenProperties, ElementOfSeq

LEMMA InitIInv == Init => IInv
<1> SUFFICES ASSUME Init PROVE IInv
  OBVIOUS
<1> USE QueueAssumption DEF Init
<1>1. TypeOK
  BY FS_EmptySet, EmptySeq DEF TypeOK, Holding
<1>2. Len(queue) = 0
  OBVIOUS
<1>3. Room /\ Ascending /\ Older /\ Issued
  BY <1>2 DEF Room, Ascending, Older, Issued, Newest, Holding
<1>4. Apart /\ Placed
  BY <1>2 DEF Apart, Placed, Newest, Holding
<1>5. Counted
  BY FS_EmptySet DEF Counted, Uncounted
<1> QED BY <1>1, <1>3, <1>4, <1>5 DEF IInv

(* A step of the producer that only counts or looks at the queue.          *)
LEMMA CountingStep ==
    ASSUME IInv, TypeOK', UNCHANGED <<queue, popped, got, delivered, lost, rejected>>,
           Newest' = Newest, stamp' >= stamp, Room', Counted'
    PROVE  IInv'
<1> USE DEF IInv
<1>1. Ascending' /\ Older'
  BY DEF Ascending, Older
<1>2. Issued'
  BY DEF Issued, TypeOK
<1>3. Apart' /\ Placed'
  BY DEF Apart, Placed, InQueue, InSomeHand
<1> QED BY <1>1, <1>2, <1>3

(* The item in hand goes into the queue.                                   *)
LEMMA PushingStep ==
    ASSUME IInv, TypeOK', Holding, ~Holding', Len(queue) < CAPACITY,
           queue' = Append(queue, stamp),
           UNCHANGED <<stamp, popped, got, delivered, lost, rejected>>, Counted'
    PROVE  IInv'
<1> USE QueueAssumption DEF IInv
<1>1. stamp \in Nat \ {0} /\ queue \in Seq(Nat) /\ Newest = stamp - 1 /\ Newest' = stamp
  BY DEF TypeOK, Newest
<1>2. /\ Len(queue') = Len(queue) + 1 /\ Len(queue) \in Nat
      /\ \A i \in 1 .. Len(queue) : queue'[i] = queue[i] /\ queue[i] \in Nat
      /\ queue'[Len(queue) + 1] = stamp
  BY <1>1, Appended
<1>3. \A i \in 1 .. Len(queue) : queue[i] < stamp
  BY <1>1, <1>2 DEF Issued
<1>4. Room'
  BY <1>2 DEF Room, TypeOK, Holding
<1>5. Ascending'
  BY <1>1, <1>2, <1>3 DEF Ascending
<1>6. Older'
  BY <1>1, <1>2 DEF Older, Issued, TypeOK
<1>7. Issued'
  BY <1>1, <1>2 DEF Issued, TypeOK
<1>8. \A s : InQueue(s)' <=> InQueue(s) \/ s = stamp
  BY <1>1, <1>2 DEF InQueue
<1>9. Apart'
  BY <1>1, <1>8 DEF Apart, Issued
<1>10. Placed'
  BY <1>1, <1>8 DEF Placed, InSomeHand
<1> QED BY <1>4, <1>5, <1>6, <1>7, <1>9, <1>10

(* The oldest item leaves the queue: what the rest of the queue then is.   *)
LEMMA TakingStep ==
    ASSUME IInv, queue # <<>>, queue' = Tail(queue), UNCHANGED <<stamp, kind>>
    PROVE  /\ queue \in Seq(Nat) /\ queue' \in Seq(Nat)
           /\ Len(queue) \in Nat \ {0} /\ Len(queue') = Len(queue) - 1
           /\ \A i \in 1 .. Len(queue') : queue'[i] = queue[i + 1]
           /\ Head(queue) \in Nat /\ Head(queue) \in 1 .. Newest
           /\ \A i \in 1 .. Len(queue') : Head(queue) < queue'[i]
           /\ \A s : InQueue(s) <=> InQueue(s)' \/ s = Head(queue)
           /\ \A s \in delivered \cup lost \cup rejected : s # Head(queue)
           /\ \A c \in Consumers : popped[c] # Head(queue)
           /\ Ascending'
<1> USE DEF IInv
<1>1. /\ queue \in Seq(Nat) /\ queue' \in Seq(Nat)
      /\ Len(queue) \in Nat \ {0} /\ Len(queue') = Len(queue) - 1
      /\ \A i \in 1 .. Len(queue) : queue[i] \in Nat
      /\ \A i \in 1 .. Len(queue') : queue'[i] = queue[i + 1]
      /\ Head(queue) = queue[1]
  BY Tailed DEF TypeOK
<1>2. Head(queue) \in Nat /\ Head(queue) \in 1 .. Newest
  BY <1>1 DEF Issued
<1>3. \A i \in 1 .. Len(queue') : Head(queue) < queue'[i]
  BY <1>1 DEF Ascending
<1>4. Ascending'
  BY <1>1 DEF Ascending
<1>5. \A s : InQueue(s) <=> InQueue(s)' \/ s = Head(queue)
  <2> TAKE s
  <2>1. InQueue(s)' => InQueue(s)
    BY <1>1 DEF InQueue
  <2>2. InQueue(Head(queue))
    BY <1>1 DEF InQueue
  <2>3. ASSUME InQueue(s), s # Head(queue) PROVE InQueue(s)'
    <3>1. PICK i \in 1 .. Len(queue) : queue[i] = s
      BY <2>3 DEF InQueue
    <3>2. i # 1 /\ i - 1 \in 1 .. Len(queue') /\ queue'[i - 1] = s
      BY <1>1, <2>3, <3>1
    <3> QED BY <3>2 DEF InQueue
  <2> QED BY <2>1, <2>2, <2>3
<1>6. \A s \in delivered \cup lost : s # Head(queue)
  BY <1>1, <1>2 DEF Older
<1>7. \A s \in rejected : s # Head(queue)
  BY <1>1 DEF Apart, InQueue
<1>8. \A c \in Consumers : popped[c] # Head(queue)
  BY <1>1, <1>2 DEF Older
<1> QED BY <1>1, <1>2, <1>3, <1>4, <1>5, <1>6, <1>7, <1>8

(* The producer drops the oldest item.                                     *)
LEMMA DropOldestStep == IInv /\ DropOldest => IInv'
<1> SUFFICES ASSUME IInv, DropOldest PROVE IInv'
  OBVIOUS
<1> USE QueueAssumption DEF IInv
<1>1. /\ pc = "full" /\ pc' = IF kind = "pipeline" THEN "retry" ELSE "count_drop"
      /\ UNCHANGED <<kind, stamp, push_count, enqueue_count, drop_count, pop_count,
                     popped, got, delivered, rejected>>
      /\ Holding /\ Holding' /\ Newest' = Newest
  BY DEF DropOldest, Holding, Newest, counters, consumer, TypeOK
<1>2. Uncounted = 0 /\ Uncounted' = 1
  BY <1>1 DEF Uncounted, TypeOK
<1>3. CASE queue = <<>>
  <2>1. queue' = queue /\ lost' = lost /\ Len(queue) = 0
    BY <1>3 DEF DropOldest
  <2>2. TypeOK' /\ Room'
    BY <1>1, <2>1 DEF TypeOK, Room
  <2>3. Counted'
    BY <1>1, <1>2, <2>1, FS_CardinalityType DEF Counted, TypeOK
  <2> QED BY <1>1, <2>1, <2>2, <2>3, CountingStep DEF TypeOK
<1>4. CASE queue # <<>>
  <2>0. PICK h : h = Head(queue)
    OBVIOUS
  <2>1. queue' = Tail(queue) /\ lost' = lost \cup {Head(queue)}
    BY <1>4 DEF DropOldest
  <2>2. /\ queue' \in Seq(Nat)
        /\ Len(queue) \in Nat \ {0} /\ Len(queue') = Len(queue) - 1
        /\ \A i \in 1 .. Len(queue') : queue'[i] = queue[i + 1]
        /\ h \in Nat /\ h \in 1 .. Newest
        /\ \A i \in 1 .. Len(queue') : h < queue'[i]
        /\ \A s : InQueue(s) <=> InQueue(s)' \/ s = h
        /\ \A s \in delivered \cup lost \cup rejected : s # h
        /\ \A c \in Consumers : popped[c] # h
        /\ Ascending'
    BY <1>1, <1>4, <2>0, <2>1, TakingStep
  <2>3. /\ IsFiniteSet(lost') /\ Cardinality(lost') = Cardinality(lost) + 1
        /\ Cardinality(lost) \in Nat
    <3>1. IsFiniteSet(lost) /\ h \notin lost
      BY <2>2 DEF TypeOK
    <3> QED BY <2>0, <2>1, <3>1, FS_AddElement, FS_CardinalityType
  <2>4. TypeOK'
    BY <1>1, <2>2, <2>3 DEF TypeOK
  <2>5. Room'
    BY <1>1, <2>2 DEF Room
  <2>6. Older'
    BY <1>1, <2>0, <2>1, <2>2 DEF Older
  <2>7. Issued'
    BY <1>1, <2>0, <2>1, <2>2 DEF Issued, TypeOK, Newest
  <2>8. Apart'
    BY <1>1, <2>0, <2>1, <2>2 DEF Apart
  <2>9. Placed'
    BY <1>1, <2>0, <2>1, <2>2 DEF Placed, InSomeHand
  <2>10. Counted'
    BY <1>1, <1>2, <2>3 DEF Counted, TypeOK
  <2> QED BY <2>2, <2>4, <2>5, <2>6, <2>7, <2>8, <2>9, <2>10
<1> QED BY <1>3, <1>4

(* A consumer takes the oldest item into its hand.                         *)
LEMMA PopStep == ASSUME IInv, NEW c \in Consumers, Pop(c) PROVE IInv'
<1> USE QueueAssumption DEF IInv
<1>0. PICK h : h = Head(queue)
  OBVIOUS
<1>1. /\ queue # <<>> /\ queue' = Tail(queue)
      /\ popped[c] = 0 /\ popped' = [popped EXCEPT ![c] = h]
      /\ UNCHANGED <<kind, pc, stamp, push_count, enqueue_count, drop_count, pop_count,
                     got, delivered, lost, rejected>>
      /\ Newest' = Newest /\ (Holding' <=> Holding) /\ Uncounted' = Uncounted
  BY <1>0 DEF Pop, counters, Newest, Holding, Uncounted
<1>2. /\ queue' \in Seq(Nat)
      /\ Len(queue) \in Nat \ {0} /\ Len(queue') = Len(queue) - 1
      /\ \A i \in 1 .. Len(queue') : queue'[i] = queue[i + 1]
      /\ h \in Nat /\ h \in 1 .. Newest
      /\ \A i \in 1 .. Len(queue') : h < queue'[i]
      /\ \A s : InQueue(s) <=> InQueue(s)' \/ s = h
      /\ \A s \in delivered \cup lost \cup rejected : s # h
      /\ \A d \in Consumers : popped[d] # h
      /\ Ascending'
  BY <1>0, <1>1, TakingStep
<1>3. \A d \in Consumers : popped'[d] = IF d = c THEN h ELSE popped[d]
  BY <1>1 DEF TypeOK
<1>4. TypeOK'
  BY <1>1, <1>2 DEF TypeOK
<1>5. Room'
  BY <1>1, <1>2 DEF Room
<1>6. Older'
  BY <1>1, <1>2, <1>3 DEF Older
<1>7. Issued'
  BY <1>1, <1>2, <1>3 DEF Issued
<1>8. Apart'
  BY <1>1, <1>2, <1>3 DEF Apart
<1>9. Placed'
  <2> SUFFICES ASSUME NEW s \in 1 .. Newest
               PROVE (InQueue(s) \/ InSomeHand(s))' \/ s \in delivered \/ s \in lost \/ s \in rejected
    BY <1>1 DEF Placed
  <2>1. InSomeHand(h)'
    BY <1>3 DEF InSomeHand
  <2>2. s # 0 /\ InSomeHand(s) => InSomeHand(s)'
    BY <1>1, <1>3 DEF InSomeHand
  <2> QED BY <1>2, <2>1, <2>2 DEF Placed
<1>10. Counted'
  BY <1>1 DEF Counted
<1> QED BY <1>2, <1>4, <1>5, <1>6, <1>7, <1>8, <1>9, <1>10

(* It counts the pop and goes on with the item.                            *)
LEMMA CountPopStep == ASSUME IInv, NEW c \in Consumers, CountPop(c) PROVE IInv'
<1> USE DEF IInv
<1>0. PICK h : h = popped[c]
  OBVIOUS
<1>1. /\ h # 0 /\ h \in Nat /\ popped' = [popped EXCEPT ![c] = 0]
      /\ delivered' = delivered \cup {h} /\ got' = [got EXCEPT ![c] = h]
      /\ pop_count' = pop_count + 1
      /\ UNCHANGED <<kind, queue, pc, stamp, push_count, enqueue_count, drop_count,
                     lost, rejected>>
      /\ Newest' = Newest /\ (Holding' <=> Holding) /\ Uncounted' = Uncounted
  BY <1>0 DEF CountPop, Newest, Holding, Uncounted, TypeOK
<1>2. \A d \in Consumers : popped'[d] = IF d = c THEN 0 ELSE popped[d]
  BY <1>1 DEF TypeOK
<1>3. h \in 1 .. Newest
  BY <1>0, <1>1 DEF Issued, TypeOK, Newest
<1>4. TypeOK'
  BY <1>1 DEF TypeOK
<1>5. Room' /\ Ascending' /\ Counted'
  BY <1>1 DEF Room, Ascending, Counted
<1>6. Older'
  BY <1>0, <1>1, <1>2, LenProperties, ElementOfSeq DEF Older, TypeOK
<1>7. Issued'
  BY <1>1, <1>2, <1>3 DEF Issued, Newest, TypeOK
<1>8. \A d \in Consumers : d # c => popped[d] # h
  BY <1>0, <1>1 DEF Apart
<1>9. \A s : InQueue(s)' <=> InQueue(s)
  BY <1>1 DEF InQueue
<1>10. Apart'
  <2>1. 0 \notin delivered' \cup lost' \cup rejected'
    BY <1>7 DEF Issued
  <2> QED BY <1>0, <1>1, <1>2, <1>8, <1>9, <2>1 DEF Apart
<1>11. Placed'
  BY <1>0, <1>1, <1>2, <1>9 DEF Placed, InSomeHand
<1> QED BY <1>4, <1>5, <1>6, <1>7, <1>10, <1>11

LEMMA NextIInv == IInv /\ [Next]_vars => IInv'
<1> SUFFICES ASSUME IInv, [Next]_vars PROVE IInv'
  OBVIOUS
<1> USE QueueAssumption DEF IInv, counters, consumer
<1>1. Cardinality(lost) \in Nat
  BY FS_CardinalityType DEF TypeOK
<1>2. CASE UNCHANGED vars
  <2>1. Newest' = Newest
    BY <1>2 DEF vars, Newest, Holding
  <2>2. TypeOK' /\ Room' /\ Counted'
    BY <1>2 DEF vars, TypeOK, Room, Counted, Uncounted, Holding
  <2> QED BY <1>2, <2>1, <2>2, CountingStep DEF vars, TypeOK
<1>3. CASE BeginPush
  <2>1. Newest' = Newest /\ stamp' >= stamp
    BY <1>3 DEF BeginPush, Newest, Holding, TypeOK
  <2>2. TypeOK' /\ Room' /\ Counted'
    BY <1>3 DEF BeginPush, TypeOK, Room, Counted, Uncounted, Holding
  <2> QED BY <1>3, <2>1, <2>2, CountingStep DEF BeginPush
<1>4. CASE PushFits
  <2>1. Holding /\ ~Holding' /\ Len(queue) < CAPACITY
    BY <1>4 DEF PushFits, Holding, Full, Room, TypeOK
  <2>2. TypeOK'
    BY <1>4, Appended DEF PushFits, TypeOK, Holding
  <2>3. Counted'
    BY <1>1, <1>4 DEF PushFits, Counted, Uncounted, TypeOK
  <2> QED BY <1>4, <2>1, <2>2, <2>3, PushingStep DEF PushFits
<1>5. CASE PushFull
  <2>1. Newest' = Newest
    BY <1>5 DEF PushFull, Newest, Holding
  <2>2. TypeOK' /\ Room' /\ Counted'
    BY <1>5 DEF PushFull, TypeOK, Room, Counted, Uncounted, Holding
  <2> QED BY <1>5, <2>1, <2>2, CountingStep DEF PushFull, TypeOK
<1>6. CASE TryPushFull
  <2>1. /\ Newest = stamp - 1 /\ Newest' = stamp /\ stamp \in Nat \ {0}
        /\ rejected' = rejected \cup {stamp}
        /\ UNCHANGED <<kind, queue, stamp, push_count, enqueue_count, drop_count,
                       pop_count, popped, got, delivered, lost>>
    BY <1>6 DEF TryPushFull, Newest, Holding, TypeOK
  <2>2. TypeOK' /\ Room' /\ Counted'
    BY <1>6 DEF TryPushFull, TypeOK, Room, Counted, Uncounted, Holding
  <2>3. Ascending' /\ Older'
    BY <2>1 DEF Ascending, Older
  <2>4. Issued'
    BY <2>1 DEF Issued, TypeOK
  <2>5. Apart'
    BY <2>1 DEF Apart, InQueue, Issued
  <2>6. Placed'
    BY <2>1 DEF Placed, InQueue, InSomeHand
  <2> QED BY <2>2, <2>3, <2>4, <2>5, <2>6
<1>7. CASE DropOldest
  BY <1>7, DropOldestStep
<1>8. CASE Retry
  <2>1. Holding /\ ~Holding' /\ Len(queue) < CAPACITY /\ ~Full
    BY <1>8 DEF Retry, Holding, Full, Room, TypeOK
  <2>2. TypeOK'
    BY <1>8, <2>1, Appended DEF Retry, TypeOK, Holding
  <2>3. Counted'
    BY <1>1, <1>8, <2>1 DEF Retry, Counted, Uncounted, TypeOK
  <2> QED BY <1>8, <2>1, <2>2, <2>3, PushingStep DEF Retry
<1>9. CASE CountEnqueue
  <2>1. Newest' = Newest
    BY <1>9 DEF CountEnqueue, Newest, Holding, TypeOK
  <2>2. TypeOK' /\ Room' /\ Counted'
    BY <1>9 DEF CountEnqueue, TypeOK, Room, Counted, Uncounted, Holding
  <2> QED BY <1>9, <2>1, <2>2, CountingStep DEF CountEnqueue, TypeOK
<1>10. CASE CountDrop
  <2>1. Newest' = Newest
    BY <1>10 DEF CountDrop, Newest, Holding, TypeOK
  <2>2. TypeOK' /\ Room'
    BY <1>10 DEF CountDrop, TypeOK, Room, Holding
  <2>3. Counted'
    BY <1>1, <1>10 DEF CountDrop, Counted, Uncounted, TypeOK
  <2> QED BY <1>10, <2>1, <2>2, <2>3, CountingStep DEF CountDrop, TypeOK
<1>11. ASSUME NEW c \in Consumers, Consumer(c) PROVE IInv'
  BY <1>11, PopStep, CountPopStep DEF Consumer
<1> QED
  BY <1>2, <1>3, <1>4, <1>5, <1>6, <1>7, <1>8, <1>9, <1>10, <1>11 DEF Next, Producer

(* The parts of the invariant hold in every reachable state of push and    *)
(* pop, for every capacity and any consumers.                              *)
THEOREM InductiveInvariant == Spec => []IInv
  BY InitIInv, NextIInv, PTL DEF Spec

-----------------------------------------------------------------------------
(* push and pop never reorder: the queue is in push order, and everything  *)
(* a consumer was given, holds, or that was dropped is older.              *)
THEOREM OrderKept == Spec => []Ordered
<1>1. IInv => Ordered
  <2> SUFFICES ASSUME IInv PROVE Ordered
    OBVIOUS
  <2>1. Len(queue) \in Nat
    BY LenProperties DEF IInv, TypeOK
  <2>2. \A i \in 1 .. Len(queue) - 1 : queue[i] < queue[i + 1]
    BY <2>1 DEF IInv, Ascending
  <2>3. \A i \in 1 .. Len(queue), s \in delivered \cup InHand \cup lost : s < queue[i]
    BY DEF IInv, Older, InHand
  <2> QED BY <2>2, <2>3 DEF Ordered
<1> QED BY <1>1, InductiveInvariant, PTL

(* The item push was last called with is never the one that backpressure   *)
(* drops, wherever the consumers' pops fall.                               *)
THEOREM NewestSurvives == Spec => []NewestKept
<1>1. IInv => NewestKept
  BY DEF IInv, NewestKept, Issued, TypeOK
<1> QED BY <1>1, InductiveInvariant, PTL

(* Every item ever pushed is in exactly one place, and between two calls   *)
(* drop_count is at least the number of items lost.                        *)
THEOREM NoItemVanishes == Spec => []NothingVanishes
<1>1. IInv => NothingVanishes
  <2> SUFFICES ASSUME IInv PROVE NothingVanishes
    OBVIOUS
  <2> DEFINE Q == ToSet(queue)
             P == IF Holding THEN {stamp} ELSE {}
             places == <<Q, InHand, delivered, lost, rejected, P>>
  <2> USE DEF IInv
  <2>1. stamp \in Nat /\ Newest \in Nat /\ Newest <= stamp /\ (Holding => Newest = stamp - 1)
        /\ (~Holding => Newest = stamp)
    BY DEF TypeOK, Newest
  <2>2. \A s : s \in Q <=> InQueue(s)
    BY LenProperties DEF TypeOK, InQueue, ToSet
  <2>3. \A s : s \in InHand <=> InSomeHand(s) /\ s # 0
    BY DEF InHand, InSomeHand
  <2>4. \A s : s \in P <=> Holding /\ s = stamp
    OBVIOUS
  <2>5. \A s \in Q : s \in 1 .. Newest
    BY <2>2 DEF InQueue, Issued
  <2>6. \A s \in InHand : s \in 1 .. Newest
    BY <2>1, <2>3 DEF InSomeHand, Issued
  <2>7. Q \cup InHand \cup delivered \cup lost \cup rejected \cup P = 1 .. stamp
    <3>1. ASSUME NEW s \in 1 .. stamp
          PROVE  s \in Q \cup InHand \cup delivered \cup lost \cup rejected \cup P
      BY <2>1, <2>2, <2>3, <2>4 DEF Placed
    <3>2. ASSUME NEW s \in Q \cup InHand \cup delivered \cup lost \cup rejected \cup P
          PROVE  s \in 1 .. stamp
      BY <2>1, <2>4, <2>5, <2>6 DEF Issued, TypeOK
    <3> HIDE DEF Q, P
    <3> QED BY <3>1, <3>2
  <2>8. /\ Q \cap InHand = {} /\ Q \cap delivered = {} /\ Q \cap lost = {}
        /\ Q \cap rejected = {} /\ Q \cap P = {}
    <3>1. \A s \in Q : s \notin InHand
      BY <2>2, <2>3, <2>5 DEF InQueue, InSomeHand, Older
    <3>2. \A s \in Q : s \notin delivered \cup lost
      BY <2>2, <2>5 DEF InQueue, Older
    <3>3. \A s \in Q : s \notin rejected
      BY <2>2 DEF Apart
    <3>4. \A s \in Q : s \notin P
      BY <2>1, <2>4, <2>5
    <3> HIDE DEF Q, P
    <3> QED BY <3>1, <3>2, <3>3, <3>4
  <2>9. /\ InHand \cap delivered = {} /\ InHand \cap lost = {}
        /\ InHand \cap rejected = {} /\ InHand \cap P = {}
    <3>1. \A s \in InHand : s \notin delivered \cup lost \cup rejected
      BY <2>3 DEF InSomeHand, Apart
    <3>2. \A s \in InHand : s \notin P
      BY <2>1, <2>4, <2>6
    <3> HIDE DEF P
    <3> QED BY <3>1, <3>2
  <2>10. /\ delivered \cap lost = {} /\ delivered \cap rejected = {} /\ lost \cap rejected = {}
         /\ delivered \cap P = {} /\ lost \cap P = {} /\ rejected \cap P = {}
    BY <2>1, <2>4 DEF Apart, Issued
  <2>11. pc = "idle" => Cardinality(lost) <= drop_count
    BY FS_CardinalityType DEF Counted, Uncounted, TypeOK
  <2>12. /\ UNION {places[i] : i \in DOMAIN places} = 1 .. stamp
         /\ \A i, j \in DOMAIN places : i # j => places[i] \cap places[j] = {}
    <3> HIDE DEF Q, P
    <3>1. DOMAIN places = 1 .. 6
      OBVIOUS
    <3>2. /\ places[1] = Q /\ places[2] = InHand /\ places[3] = delivered
          /\ places[4] = lost /\ places[5] = rejected /\ places[6] = P
      OBVIOUS
    <3> HIDE DEF places
    <3>3. {places[i] : i \in DOMAIN places} = {Q, InHand, delivered, lost, rejected, P}
      BY <3>1, <3>2
    <3>4. UNION {Q, InHand, delivered, lost, rejected, P}
             = Q \cup InHand \cup delivered \cup lost \cup rejected \cup P
      OBVIOUS
    <3>5. \A i, j \in DOMAIN places : i < j => places[i] \cap places[j] = {}
      BY <2>8, <2>9, <2>10, <3>1, <3>2
    <3>6. \A i, j \in DOMAIN places : i # j => places[i] \cap places[j] = {}
      BY <3>1, <3>5
    <3> QED BY <2>7, <3>3, <3>4, <3>6
  <2> QED BY <2>11, <2>12 DEF NothingVanishes, Holding
<1> QED BY <1>1, InductiveInvariant, PTL
=============================================================================
