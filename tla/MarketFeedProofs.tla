--------------------------- MODULE MarketFeedProofs ---------------------------
(***************************************************************************)
(* Proofs about the path of market data to Redis, for any connectors,      *)
(* queue capacities, batch sizes and numbers of book changes and faults:   *)
(* what is published is a book the exchange had, a flush brings Redis up   *)
(* to what the writer took, and the shutdown keeps what the queue had      *)
(* accepted.                                                               *)
(***************************************************************************)
EXTENDS MarketFeed, TLAPS, FiniteSetTheorems

Quotes == [1 .. 2 -> Nat]
Items == {"ticker", "other"} \X Quotes
Messages == [topic : OtherTopics \cup {"ticker", "ack"}, quote : Quotes]

TypeOK ==
    /\ connector \in Connectors
    /\ book \in [1 .. 2 -> Nat \ {0}]
    /\ books \subseteq Quotes /\ book \in books
    /\ socket \in Seq(Messages)
    /\ ticker_state \in Quotes
    /\ channel \in Seq(Items) /\ queue \in Seq(Items) /\ buffer \in Seq(Items)
    /\ {redis, taken, dropped, owed} \subseteq Quotes

(* The tickers among some items, and the one an item is.                   *)
Quoted(items) == {items[i][2] : i \in Tickers(items)}
QuotedBy(item) == IF item[1] = "ticker" THEN {item[2]} ELSE {}

(* Quotes that are not newer than others.                                  *)
NotAfter(A, B) == \A a \in A, b \in B : Version(a) <= Version(b)

Ascending(items) ==
    \A i, j \in Tickers(items) : i < j => Version(items[i][2]) <= Version(items[j][2])

(* The tickers under way, and those the queue has lost or passed on.       *)
Past(t, d, q, c) == {t, d} \cup Quoted(q) \cup Quoted(c)

(* The tickers reach the writer in the order in which the book changed.    *)
Ordered(t, d, q, c, b) ==
    /\ Ascending(q) /\ Ascending(c)
    /\ NotAfter(Quoted(q), Quoted(c))
    /\ NotAfter({t, d}, Quoted(q) \cup Quoted(c))
    /\ NotAfter(Past(t, d, q, c), {b})

InOrder == Ordered(taken, dropped, queue, channel, book)

(* Redis and the buffer together hold the last ticker the writer took.     *)
Flow ==
    /\ full => channel # <<>>
    /\ Quoted(channel) \cup Quoted(queue) \cup Quoted(buffer) \subseteq books
    /\ redis \in books \cup {NoData}
    /\ taken = LastTicker(buffer, redis)
    /\ writer \in {"drain", "left"} => Requested

(* What the ticker of a message is published as, after the quote before.   *)
Merge(k, old, new) == IF k = "bybit" THEN MergeFields(old, new) ELSE new

SocketTickers(sock) == {i \in 1 .. Len(sock) : sock[i].topic = "ticker"}

(* s[i] is the quote of the session once i messages of the socket have     *)
(* been read: each is a book the exchange had, none is older than what     *)
(* went before, and Bybit's fields add up to the book when all are read.   *)
Session(s, k, sock, ts, b, bs, P) ==
    /\ k = "bybit" => s[0] = ts /\ s[Len(sock)] = b
    /\ \A i \in 1 .. Len(sock) :
        s[i] = IF sock[i].topic = "ticker" THEN Merge(k, s[i - 1], sock[i].quote) ELSE s[i - 1]
    /\ \A i \in SocketTickers(sock) :
        /\ s[i] \in bs
        /\ NotAfter(P, {s[i]}) /\ NotAfter({s[i]}, {b})
        /\ \A j \in SocketTickers(sock) : i < j => Version(s[i]) <= Version(s[j])

Readable(k, sock, ts, b, bs, P) ==
    \E s \in [0 .. Len(sock) -> Quotes] : Session(s, k, sock, ts, b, bs, P)

SessionOK ==
    worker = "read" =>
        Readable(connector, socket, ticker_state, book, books, Past(taken, dropped, queue, channel))

(* A quote as new as one of those.                                         *)
Kept(o, Q) == \E x \in Q : Version(o) <= Version(x)

(* What the queue had accepted before the shutdown is still there, or      *)
(* popped, or dropped, or a newer one is; not there once the writer left.  *)
Holds(t, d, q, w) == {t, d} \cup (IF w = "left" THEN {} ELSE Quoted(q))

OwedKept == Kept(owed, Holds(taken, dropped, queue, writer))

IInv == TypeOK /\ InOrder /\ Flow /\ SessionOK /\ OwedKept

-----------------------------------------------------------------------------
(* The largest of some positions in a sequence: the intervals from them to *)
(* the end are finite, and one of them contains no other.                  *)
LEMMA MaxExists ==
    ASSUME NEW n \in Nat, NEW S, S \subseteq 1 .. n, S # {}
    PROVE  Max(S) \in S /\ \A i \in S : i <= Max(S)
<1> DEFINE T == {i .. n : i \in S}
<1> DEFINE R == StrictSubsetOrdering(1 .. n)
<1>1. T \subseteq SUBSET (1 .. n) /\ T # {}
  <2>1. PICK i : i \in S
    OBVIOUS
  <2>2. i .. n \in T
    BY <2>1
  <2>3. ASSUME NEW y \in T PROVE y \subseteq 1 .. n
    BY <2>3
  <2> QED BY <2>2, <2>3
<1>2. IsFiniteSet(1 .. n)
  BY FS_Interval
<1>3. IsWellFoundedOn(R, SUBSET (1 .. n))
  BY <1>2, FS_StrictSubsetOrderingWellFounded, FS_FiniteSubsetsOfFinite
<1>4. \E x \in T : \A y \in T : ~ (<<y, x>> \in R)
  <2> HIDE DEF T, R
  <2> QED BY <1>1, <1>3, WFMin
<1>5. PICK x \in T : \A y \in T : ~ (<<y, x>> \in R)
  BY <1>4
<1>6. PICK m \in S : x = m .. n
  BY <1>5
<1>7. \A i \in S : m >= i
  <2> SUFFICES ASSUME NEW i \in S, i > m PROVE FALSE
    OBVIOUS
  <2>1. i .. n \in T
    OBVIOUS
  <2>2. i .. n \in SUBSET (1 .. n) /\ x \in SUBSET (1 .. n)
    BY <1>1, <2>1
  <2>3. i .. n \subseteq x
    BY <1>6
  <2>4. m \in x /\ m \notin i .. n
    BY <1>6
  <2>5. <<i .. n, x>> \in R
    BY <2>2, <2>3, <2>4 DEF StrictSubsetOrdering
  <2> QED BY <1>5, <2>1, <2>5
<1>8. Max(S) \in S /\ \A i \in S : Max(S) >= i
  BY <1>7 DEF Max
<1> QED BY <1>8

(* The positions of the tickers are positions of the sequence.             *)
LEMMA Positions ==
    ASSUME NEW S \in Seq(Items)
    PROVE  Tickers(S) \subseteq 1 .. Len(S) /\ Tickers(S) = {i \in 1 .. Len(S) : S[i][1] = "ticker"}
BY DEF Tickers

(* The last ticker is the one at the largest position.                     *)
LEMMA LastIsLargest ==
    ASSUME NEW S \in Seq(Items), NEW d, Tickers(S) # {}
    PROVE  \E m \in Tickers(S) : (\A i \in Tickers(S) : i <= m) /\ LastTicker(S, d) = S[m][2]
<1>1. Len(S) \in Nat
  OBVIOUS
<1>2. PICK T : T = Tickers(S)
  OBVIOUS
<1>3. T \subseteq 1 .. Len(S) /\ T # {}
  BY <1>2, Positions
<1>4. Max(T) \in T /\ \A i \in T : i <= Max(T)
  BY <1>1, <1>3, MaxExists
<1>5. LastTicker(S, d) = S[Max(T)][2]
  BY <1>2 DEF LastTicker
<1> QED BY <1>2, <1>4, <1>5

(* The converse: the ticker at the largest position is the last one.       *)
LEMMA LargestIsLast ==
    ASSUME NEW S \in Seq(Items), NEW d, NEW m \in Tickers(S), \A i \in Tickers(S) : i <= m
    PROVE  LastTicker(S, d) = S[m][2]
<1>1. PICK k \in Tickers(S) : (\A i \in Tickers(S) : i <= k) /\ LastTicker(S, d) = S[k][2]
  BY LastIsLargest
<1>2. m \in 1 .. Len(S) /\ k \in 1 .. Len(S)
  BY Positions
<1>3. k = m
  BY <1>1, <1>2
<1> QED BY <1>1, <1>3

(* Without a ticker the last one is the default.                           *)
LEMMA NoneIsLast ==
    ASSUME NEW S, NEW d, Tickers(S) = {}
    PROVE  LastTicker(S, d) = d /\ Quoted(S) = {}
BY DEF LastTicker, Quoted

(* The last ticker is one of the sequence or the default.                  *)
LEMMA LastIsQuoted ==
    ASSUME NEW S \in Seq(Items), NEW d
    PROVE  LastTicker(S, d) = d \/ LastTicker(S, d) \in Quoted(S)
BY NoneIsLast, LastIsLargest DEF Quoted

(* There is no ticker in the empty sequence.                               *)
LEMMA EmptyQuotes == Tickers(<<>>) = {} /\ Quoted(<<>>) = {} /\ Ascending(<<>>)
BY DEF Tickers, Quoted, Ascending

IsAppend(A, S, x) ==
    /\ A \in Seq(Items)
    /\ Len(S) \in Nat /\ Len(A) = Len(S) + 1
    /\ \A i : i \in Tickers(A) <=> (i \in Tickers(S) \/ (i = Len(S) + 1 /\ x[1] = "ticker"))
    /\ \A i \in Tickers(S) : A[i] = S[i]
    /\ A[Len(S) + 1] = x

(* Append adds the position of the new item, if that is a ticker.          *)
LEMMA TickersOfAppend ==
    ASSUME NEW S \in Seq(Items), NEW x \in Items
    PROVE  IsAppend(Append(S, x), S, x)
BY DEF Tickers, IsAppend

(* What the tickers of a longer sequence are.                              *)
LEMMA QuotedAppend ==
    ASSUME NEW S \in Seq(Items), NEW x \in Items
    PROVE  Quoted(Append(S, x)) = Quoted(S) \cup QuotedBy(x)
<1>1. PICK A : A = Append(S, x)
  OBVIOUS
<1>2. IsAppend(A, S, x)
  BY <1>1, TickersOfAppend
<1>3. Quoted(A) = Quoted(S) \cup QuotedBy(x)
  BY <1>2 DEF IsAppend, Quoted, QuotedBy
<1> QED BY <1>1, <1>3

(* Tail shifts the positions by one.                                       *)
LEMMA TickersOfTail ==
    ASSUME NEW S \in Seq(Items), S # <<>>
    PROVE  /\ Tail(S) \in Seq(Items)
           /\ Head(S) \in Items
           /\ Head(S) = S[1]
           /\ Len(S) \in Nat \ {0}
           /\ \A i \in 1 .. Len(S) - 1 : Tail(S)[i] = S[i + 1]
           /\ Tickers(Tail(S)) = {i \in 1 .. Len(S) - 1 : i + 1 \in Tickers(S)}
BY DEF Tickers

(* The tickers of a sequence are the head's and those of the tail.         *)
LEMMA QuotedHeadTail ==
    ASSUME NEW S \in Seq(Items), S # <<>>
    PROVE  Quoted(S) = QuotedBy(Head(S)) \cup Quoted(Tail(S))
<1>1. PICK R : R = Tail(S)
  OBVIOUS
<1>2. /\ Head(S) = S[1]
      /\ Len(S) \in Nat \ {0}
      /\ \A i \in 1 .. Len(S) - 1 : R[i] = S[i + 1]
      /\ Tickers(R) = {i \in 1 .. Len(S) - 1 : i + 1 \in Tickers(S)}
  BY <1>1, TickersOfTail
<1>3. Tickers(S) = {i \in 1 .. Len(S) : S[i][1] = "ticker"}
  BY Positions
<1>4. Quoted(R) \subseteq Quoted(S)
  BY <1>2 DEF Quoted
<1>5. QuotedBy(S[1]) \subseteq Quoted(S)
  BY <1>2, <1>3 DEF Quoted, QuotedBy
<1>6. ASSUME NEW i \in Tickers(S) PROVE S[i][2] \in QuotedBy(S[1]) \cup Quoted(R)
  <2>1. CASE i = 1
    BY <1>3, <2>1 DEF QuotedBy
  <2>2. CASE i # 1
    <3>1. i - 1 \in Tickers(R) /\ R[i - 1] = S[i]
      BY <1>2, <1>3, <2>2
    <3> QED BY <3>1 DEF Quoted
  <2> QED BY <2>1, <2>2
<1> QED BY <1>1, <1>2, <1>4, <1>5, <1>6 DEF Quoted

(* The tail of an ascending sequence ascends, from the head on.            *)
LEMMA AscendingTail ==
    ASSUME NEW S \in Seq(Items), S # <<>>, Ascending(S)
    PROVE  Ascending(Tail(S)) /\ NotAfter(QuotedBy(Head(S)), Quoted(Tail(S)))
<1>1. PICK R : R = Tail(S)
  OBVIOUS
<1>2. /\ Head(S) = S[1]
      /\ Len(S) \in Nat \ {0}
      /\ \A i \in 1 .. Len(S) - 1 : R[i] = S[i + 1]
      /\ Tickers(R) = {i \in 1 .. Len(S) - 1 : i + 1 \in Tickers(S)}
  BY <1>1, TickersOfTail
<1>3. Tickers(S) = {i \in 1 .. Len(S) : S[i][1] = "ticker"}
  BY Positions
<1>4. Ascending(R)
  <2> SUFFICES ASSUME NEW i \in Tickers(R), NEW j \in Tickers(R), i < j
               PROVE  Version(R[i][2]) <= Version(R[j][2])
    BY DEF Ascending
  <2>1. /\ i + 1 \in Tickers(S) /\ j + 1 \in Tickers(S) /\ i + 1 < j + 1
        /\ R[i] = S[i + 1] /\ R[j] = S[j + 1]
    BY <1>2
  <2> QED BY <2>1 DEF Ascending
<1>5. ASSUME NEW a \in QuotedBy(S[1]), NEW b \in Quoted(R) PROVE Version(a) <= Version(b)
  <2>1. 1 \in Tickers(S) /\ a = S[1][2]
    BY <1>2, <1>3 DEF QuotedBy
  <2>2. PICK i \in Tickers(R) : b = R[i][2]
    BY DEF Quoted
  <2>3. i + 1 \in Tickers(S) /\ 1 < i + 1 /\ b = S[i + 1][2]
    BY <1>2, <2>2
  <2> QED BY <2>1, <2>3 DEF Ascending
<1> QED BY <1>1, <1>2, <1>4, <1>5 DEF NotAfter

(* An item that is not older keeps a sequence ascending.                   *)
LEMMA AscendingAppend ==
    ASSUME NEW S \in Seq(Items), NEW x \in Items, Ascending(S), NotAfter(Quoted(S), QuotedBy(x))
    PROVE  Ascending(Append(S, x))
<1>1. PICK A : A = Append(S, x)
  OBVIOUS
<1>2. IsAppend(A, S, x)
  BY <1>1, TickersOfAppend
<1>3. Tickers(S) \subseteq 1 .. Len(S)
  BY Positions
<1>4. ASSUME NEW i \in Tickers(A), NEW j \in Tickers(A), i < j
      PROVE  Version(A[i][2]) <= Version(A[j][2])
  <2>1. i \in Tickers(S)
    BY <1>2, <1>3, <1>4 DEF IsAppend
  <2>2. CASE j \in Tickers(S)
    BY <1>2, <1>4, <2>1, <2>2 DEF Ascending, IsAppend
  <2>3. CASE j \notin Tickers(S)
    <3>1. x[1] = "ticker" /\ j = Len(S) + 1 /\ A[j] = x
      BY <1>2, <2>3 DEF IsAppend
    <3>2. x[2] \in QuotedBy(x) /\ S[i][2] \in Quoted(S)
      BY <2>1, <3>1 DEF Quoted, QuotedBy
    <3> QED BY <1>2, <2>1, <3>1, <3>2 DEF NotAfter, IsAppend
  <2> QED BY <2>2, <2>3
<1>5. Ascending(A)
  BY <1>4 DEF Ascending
<1> QED BY <1>1, <1>5

(* An item is a key and a quote.                                           *)
LEMMA ItemIsPair ==
    ASSUME NEW x \in Items
    PROVE  x[1] \in {"ticker", "other"} /\ x[2] \in Quotes /\ x = <<x[1], x[2]>>
BY DEF Items

(* A version is a natural number.                                          *)
LEMMA VersionIsNat == \A q \in Quotes : Version(q) \in Nat
BY DEF Quotes, Version

(* What items quote are quotes.                                            *)
LEMMA QuotedAreQuotes ==
    /\ \A S \in Seq(Items) : Quoted(S) \subseteq Quotes
    /\ \A x \in Items : QuotedBy(x) \subseteq Quotes
<1>1. ASSUME NEW S \in Seq(Items), NEW i \in Tickers(S) PROVE S[i][2] \in Quotes
  <2>1. S[i] \in Items
    BY <1>1, Positions
  <2> QED BY <2>1, ItemIsPair
<1>2. ASSUME NEW x \in Items PROVE QuotedBy(x) \subseteq Quotes
  BY <1>2, ItemIsPair DEF QuotedBy
<1> QED BY <1>1, <1>2 DEF Quoted

(* The last ticker after one more item.                                    *)
LEMMA LastOfAppend ==
    ASSUME NEW S \in Seq(Items), NEW x \in Items, NEW d
    PROVE  LastTicker(Append(S, x), d) = IF x[1] = "ticker" THEN x[2] ELSE LastTicker(S, d)
<1>1. PICK A : A = Append(S, x)
  OBVIOUS
<1>2. IsAppend(A, S, x)
  BY <1>1, TickersOfAppend
<1>3. Tickers(S) \subseteq 1 .. Len(S)
  BY Positions
<1>4. CASE x[1] = "ticker"
  <2>1. Len(S) + 1 \in Tickers(A) /\ (\A i \in Tickers(A) : i <= Len(S) + 1) /\ A[Len(S) + 1] = x
    BY <1>2, <1>3, <1>4 DEF IsAppend
  <2>2. A \in Seq(Items)
    BY <1>2 DEF IsAppend
  <2>3. PICK m : m = Len(S) + 1
    OBVIOUS
  <2>4. LastTicker(A, d) = A[m][2]
    BY <2>1, <2>2, <2>3, LargestIsLast
  <2> QED BY <1>1, <1>4, <2>1, <2>3, <2>4
<1>5. CASE x[1] # "ticker"
  <2>1. Tickers(A) = Tickers(S)
    BY <1>2, <1>5 DEF IsAppend
  <2>2. CASE Tickers(S) = {}
    BY <1>1, <1>5, <2>1, <2>2, NoneIsLast
  <2>3. CASE Tickers(S) # {}
    <3>1. PICK m \in Tickers(S) : (\A i \in Tickers(S) : i <= m) /\ LastTicker(S, d) = S[m][2]
      BY <2>3, LastIsLargest
    <3>2. A \in Seq(Items) /\ A[m] = S[m]
      BY <1>2 DEF IsAppend
    <3>3. LastTicker(A, d) = A[m][2]
      BY <2>1, <3>1, <3>2, LargestIsLast
    <3> QED BY <1>1, <1>5, <3>1, <3>2, <3>3
  <2> QED BY <2>2, <2>3
<1> QED BY <1>4, <1>5

(* The last ticker of a single item.                                       *)
LEMMA LastOfOne ==
    ASSUME NEW x \in Items, NEW d
    PROVE  LastTicker(<<x>>, d) = IF x[1] = "ticker" THEN x[2] ELSE d
<1>1. <<x>> = Append(<<>>, x) /\ <<>> \in Seq(Items)
  OBVIOUS
<1>2. LastTicker(<<>>, d) = d
  BY EmptyQuotes, NoneIsLast
<1>3. LastTicker(Append(<<>>, x), d) = IF x[1] = "ticker" THEN x[2] ELSE LastTicker(<<>>, d)
  BY <1>1, LastOfAppend
<1> QED BY <1>1, <1>2, <1>3

(* An item that is taken after some others.                                *)
LEMMA LastIsFold ==
    ASSUME NEW S \in Seq(Items), NEW x \in Items, NEW d
    PROVE  LastTicker(Append(S, x), d) = LastTicker(<<x>>, LastTicker(S, d))
BY LastOfAppend, LastOfOne

IsJoin(J, B, Q) ==
    /\ J \in Seq(Items)
    /\ Len(B) \in Nat /\ Len(Q) \in Nat /\ Len(J) = Len(B) + Len(Q)
    /\ \A i \in 1 .. Len(B) : J[i] = B[i]
    /\ \A i \in 1 .. Len(Q) : J[Len(B) + i] = Q[i]
    /\ \A i \in Tickers(B) : i \in Tickers(J)
    /\ \A i \in Tickers(Q) : Len(B) + i \in Tickers(J)
    /\ \A i \in Tickers(J) : i \in Tickers(B) \/ i - Len(B) \in Tickers(Q)

(* The positions of the tickers in a concatenation.                        *)
LEMMA TickersOfJoin ==
    ASSUME NEW B \in Seq(Items), NEW Q \in Seq(Items)
    PROVE  IsJoin(B \o Q, B, Q)
<1>1. PICK J : J = B \o Q
  OBVIOUS
<1>2. J \in Seq(Items)
  BY <1>1
<1>3. Len(B) \in Nat /\ Len(Q) \in Nat /\ Len(J) = Len(B) + Len(Q)
  BY <1>1
<1>4. \A i \in 1 .. Len(B) : J[i] = B[i]
  BY <1>1
<1>5. \A i \in 1 .. Len(Q) : J[Len(B) + i] = Q[i]
  BY <1>1
<1>6. /\ Tickers(B) = {i \in 1 .. Len(B) : B[i][1] = "ticker"}
      /\ Tickers(Q) = {i \in 1 .. Len(Q) : Q[i][1] = "ticker"}
      /\ Tickers(J) = {i \in 1 .. Len(J) : J[i][1] = "ticker"}
  BY <1>2, Positions
<1>7. \A i \in Tickers(B) : i \in Tickers(J)
  BY <1>3, <1>4, <1>6
<1>8. \A i \in Tickers(Q) : Len(B) + i \in Tickers(J)
  BY <1>3, <1>5, <1>6
<1>9. ASSUME NEW i \in Tickers(J) PROVE i \in Tickers(B) \/ i - Len(B) \in Tickers(Q)
  <2>1. CASE i <= Len(B)
    BY <1>3, <1>4, <1>6, <2>1
  <2>2. CASE i > Len(B)
    <3>1. i \in 1 .. Len(J) /\ J[i][1] = "ticker"
      BY <1>6
    <3>2. PICK k : k = i - Len(B)
      OBVIOUS
    <3>3. k \in 1 .. Len(Q) /\ i = Len(B) + k
      BY <1>3, <2>2, <3>1, <3>2
    <3> QED BY <1>5, <1>6, <3>1, <3>2, <3>3
  <2> QED BY <1>3, <1>6, <2>1, <2>2
<1>10. IsJoin(J, B, Q)
  BY <1>2, <1>3, <1>4, <1>5, <1>7, <1>8, <1>9 DEF IsJoin
<1> QED BY <1>1, <1>10

(* The tickers of a concatenation are those of its parts.                  *)
LEMMA QuotedJoin ==
    ASSUME NEW B \in Seq(Items), NEW Q \in Seq(Items)
    PROVE  Quoted(B \o Q) = Quoted(B) \cup Quoted(Q)
<1>1. PICK J : J = B \o Q
  OBVIOUS
<1>2. IsJoin(J, B, Q)
  BY <1>1, TickersOfJoin
<1>3. Tickers(B) \subseteq 1 .. Len(B) /\ Tickers(Q) \subseteq 1 .. Len(Q)
  BY Positions
<1>4. ASSUME NEW i \in Tickers(J) PROVE J[i][2] \in Quoted(B) \cup Quoted(Q)
  <2>1. CASE i \in Tickers(B)
    BY <1>2, <1>3, <2>1 DEF IsJoin, Quoted
  <2>2. CASE i - Len(B) \in Tickers(Q)
    <3>1. PICK k \in Tickers(Q) : k = i - Len(B)
      BY <2>2
    <3>2. J \in Seq(Items) /\ Len(B) \in Nat /\ Tickers(J) \subseteq 1 .. Len(J) /\ Len(J) \in Nat
      BY <1>2, Positions DEF IsJoin
    <3>3. k \in 1 .. Len(Q) /\ i = Len(B) + k
      BY <1>3, <3>1, <3>2
    <3>4. J[i] = Q[k]
      BY <1>2, <3>3 DEF IsJoin
    <3> QED BY <3>1, <3>4 DEF Quoted
  <2> QED BY <1>2, <2>1, <2>2 DEF IsJoin
<1>5. ASSUME NEW i \in Tickers(B) PROVE B[i][2] \in Quoted(J)
  BY <1>2, <1>3, <1>5 DEF IsJoin, Quoted
<1>6. ASSUME NEW i \in Tickers(Q) PROVE Q[i][2] \in Quoted(J)
  BY <1>2, <1>3, <1>6 DEF IsJoin, Quoted
<1>7. Quoted(J) = Quoted(B) \cup Quoted(Q)
  BY <1>4, <1>5, <1>6 DEF Quoted
<1> QED BY <1>1, <1>7

(* The last ticker of two sequences is in the second, or there is none.    *)
LEMMA LastOfJoin ==
    ASSUME NEW B \in Seq(Items), NEW Q \in Seq(Items), NEW d
    PROVE  \/ LastTicker(B \o Q, d) \in Quoted(Q)
           \/ LastTicker(B \o Q, d) = LastTicker(B, d)
<1>1. PICK J : J = B \o Q
  OBVIOUS
<1>2. IsJoin(J, B, Q)
  BY <1>1, TickersOfJoin
<1>3. J \in Seq(Items) /\ Len(B) \in Nat
  BY <1>2 DEF IsJoin
<1>4. Tickers(B) \subseteq 1 .. Len(B) /\ Tickers(Q) \subseteq 1 .. Len(Q)
  BY Positions
<1>5. CASE Tickers(Q) # {}
  <2>1. PICK m \in Tickers(Q) : \A i \in Tickers(Q) : i <= m
    BY <1>5, LastIsLargest
  <2>2. PICK k : k = Len(B) + m
    OBVIOUS
  <2>3. k \in Tickers(J) /\ J[k] = Q[m]
    BY <1>2, <1>4, <2>2 DEF IsJoin
  <2>4. ASSUME NEW i \in Tickers(J) PROVE i <= k
    <3>1. CASE i \in Tickers(B)
      BY <1>3, <1>4, <2>2, <3>1
    <3>2. CASE i - Len(B) \in Tickers(Q)
      <4>1. i - Len(B) <= m
        BY <2>1, <3>2
      <4>2. i \in 1 .. Len(J) /\ Len(J) \in Nat
        BY <1>3, Positions
      <4> QED BY <1>3, <1>4, <2>2, <4>1, <4>2
    <3> QED BY <1>2, <3>1, <3>2 DEF IsJoin
  <2>5. LastTicker(J, d) = J[k][2]
    BY <1>3, <2>3, <2>4, LargestIsLast
  <2> QED BY <1>1, <2>3, <2>5 DEF Quoted
<1>6. CASE Tickers(Q) = {}
  <2>1. \A i \in Tickers(J) : i \in Tickers(B)
    BY <1>2, <1>6 DEF IsJoin
  <2>2. Tickers(J) = Tickers(B)
    BY <1>2, <2>1 DEF IsJoin
  <2>3. CASE Tickers(B) = {}
    BY <1>1, <2>2, <2>3, NoneIsLast
  <2>4. CASE Tickers(B) # {}
    <3>1. PICK m \in Tickers(B) : (\A i \in Tickers(B) : i <= m) /\ LastTicker(B, d) = B[m][2]
      BY <2>4, LastIsLargest
    <3>2. J[m] = B[m]
      BY <1>2, <1>4 DEF IsJoin
    <3>3. LastTicker(J, d) = J[m][2]
      BY <1>3, <2>2, <3>1, LargestIsLast
    <3> QED BY <1>1, <3>1, <3>2, <3>3
  <2> QED BY <2>3, <2>4
<1> QED BY <1>5, <1>6

-----------------------------------------------------------------------------
(* How the order survives the moves of an item.                            *)

(* A single item either is the last ticker or leaves the default.          *)
LEMMA OneIsQuoted ==
    ASSUME NEW x \in Items, NEW d
    PROVE  /\ LastTicker(<<x>>, d) \in {d} \cup QuotedBy(x)
           /\ QuotedBy(x) \subseteq {LastTicker(<<x>>, d)}
BY LastOfOne DEF QuotedBy

(* Everything under way is a quote and so has a version.                   *)
LEMMA PastAreQuotes ==
    ASSUME NEW t \in Quotes, NEW d \in Quotes, NEW q \in Seq(Items), NEW c \in Seq(Items)
    PROVE  Past(t, d, q, c) \subseteq Quotes /\ \A a \in Past(t, d, q, c) : Version(a) \in Nat
BY QuotedAreQuotes, VersionIsNat DEF Past

(* From the channel to the queue.                                          *)
LEMMA OrderedPush ==
    ASSUME NEW t, NEW d, NEW b, NEW q \in Seq(Items), NEW c \in Seq(Items), c # <<>>,
           Ordered(t, d, q, c, b)
    PROVE  /\ Ordered(t, d, Append(q, Head(c)), Tail(c), b)
           /\ Past(t, d, Append(q, Head(c)), Tail(c)) = Past(t, d, q, c)
<1>1. PICK x : x = Head(c)
  OBVIOUS
<1>2. PICK r : r = Tail(c)
  OBVIOUS
<1>3. PICK a : a = Append(q, x)
  OBVIOUS
<1>4. x \in Items /\ r \in Seq(Items)
  BY <1>1, <1>2, TickersOfTail
<1>5. Quoted(c) = QuotedBy(x) \cup Quoted(r)
  BY <1>1, <1>2, QuotedHeadTail
<1>6. Quoted(a) = Quoted(q) \cup QuotedBy(x)
  BY <1>3, <1>4, QuotedAppend
<1>7. Ascending(r) /\ NotAfter(QuotedBy(x), Quoted(r))
  BY <1>1, <1>2, AscendingTail DEF Ordered
<1>8. NotAfter(Quoted(q), QuotedBy(x))
  BY <1>5 DEF Ordered, NotAfter
<1>9. Ascending(a)
  BY <1>3, <1>4, <1>8, AscendingAppend DEF Ordered
<1>10. Past(t, d, a, r) = Past(t, d, q, c)
  BY <1>5, <1>6 DEF Past
<1>11. NotAfter(Quoted(a), Quoted(r)) /\ NotAfter({t, d}, Quoted(a) \cup Quoted(r))
  BY <1>5, <1>6, <1>7 DEF Ordered, NotAfter
<1>12. Ordered(t, d, a, r, b)
  BY <1>7, <1>9, <1>10, <1>11 DEF Ordered
<1> QED BY <1>1, <1>2, <1>3, <1>10, <1>12

(* Out of the queue.                                                       *)
LEMMA OrderedPop ==
    ASSUME NEW t \in Quotes, NEW d \in Quotes, NEW b, NEW q \in Seq(Items), NEW c \in Seq(Items),
           q # <<>>, Ordered(t, d, q, c, b)
    PROVE  /\ Ordered(LastTicker(<<Head(q)>>, t), d, Tail(q), c, b)
           /\ Ordered(t, LastTicker(<<Head(q)>>, d), Tail(q), c, b)
           /\ Past(LastTicker(<<Head(q)>>, t), d, Tail(q), c) \subseteq Past(t, d, q, c)
           /\ Past(t, LastTicker(<<Head(q)>>, d), Tail(q), c) \subseteq Past(t, d, q, c)
           /\ Version(t) <= Version(LastTicker(<<Head(q)>>, t))
           /\ Version(d) <= Version(LastTicker(<<Head(q)>>, d))
<1>1. PICK x : x = Head(q)
  OBVIOUS
<1>2. PICK r : r = Tail(q)
  OBVIOUS
<1>3. x \in Items /\ r \in Seq(Items)
  BY <1>1, <1>2, TickersOfTail
<1>4. Quoted(q) = QuotedBy(x) \cup Quoted(r)
  BY <1>1, <1>2, QuotedHeadTail
<1>5. Ascending(r) /\ NotAfter(QuotedBy(x), Quoted(r))
  BY <1>1, <1>2, AscendingTail DEF Ordered
<1>6. PICK t2 : t2 = LastTicker(<<x>>, t)
  OBVIOUS
<1>7. PICK d2 : d2 = LastTicker(<<x>>, d)
  OBVIOUS
<1>8. t2 \in {t} \cup QuotedBy(x) /\ d2 \in {d} \cup QuotedBy(x)
  BY <1>3, <1>6, <1>7, OneIsQuoted
<1>9. Past(t2, d, r, c) \subseteq Past(t, d, q, c) /\ Past(t, d2, r, c) \subseteq Past(t, d, q, c)
  BY <1>4, <1>8 DEF Past
<1>10. NotAfter(Quoted(r), Quoted(c))
  BY <1>4 DEF Ordered, NotAfter
<1>11. NotAfter(QuotedBy(x), Quoted(r) \cup Quoted(c)) /\ NotAfter({t, d}, Quoted(r) \cup Quoted(c))
  BY <1>4, <1>5 DEF Ordered, NotAfter
<1>12. NotAfter({t2, d}, Quoted(r) \cup Quoted(c)) /\ NotAfter({t, d2}, Quoted(r) \cup Quoted(c))
  BY <1>8, <1>11 DEF NotAfter
<1>13. NotAfter(Past(t2, d, r, c), {b}) /\ NotAfter(Past(t, d2, r, c), {b})
  BY <1>9 DEF Ordered, NotAfter
<1>14. Ordered(t2, d, r, c, b) /\ Ordered(t, d2, r, c, b)
  BY <1>5, <1>10, <1>12, <1>13 DEF Ordered
<1>15. Version(t) \in Nat /\ Version(d) \in Nat
  BY VersionIsNat
<1>16. NotAfter({t, d}, QuotedBy(x))
  BY <1>4 DEF Ordered, NotAfter
<1>17. Version(t) <= Version(t2) /\ Version(d) <= Version(d2)
  BY <1>8, <1>15, <1>16 DEF NotAfter
<1> QED BY <1>1, <1>2, <1>6, <1>7, <1>9, <1>14, <1>17

(* Into the channel: x is not older than what is there already.            *)
MaySend(t, d, q, c, x, b) ==
    /\ q \in Seq(Items) /\ c \in Seq(Items) /\ x \in Items
    /\ Ordered(t, d, q, c, b)
    /\ NotAfter(Past(t, d, q, c), QuotedBy(x)) /\ NotAfter(QuotedBy(x), {b})

Sent(z, t, d, q, c, x, b) ==
    /\ z \in Seq(Items) /\ z # <<>>
    /\ Quoted(z) = Quoted(c) \cup QuotedBy(x)
    /\ Ordered(t, d, q, z, b)
    /\ Past(t, d, q, z) = Past(t, d, q, c) \cup QuotedBy(x)

LEMMA OrderedSend ==
    ASSUME NEW t, NEW d, NEW b, NEW q, NEW c, NEW x, MaySend(t, d, q, c, x, b)
    PROVE  Sent(Append(c, x), t, d, q, c, x, b)
<1> USE DEF MaySend
<1>1. PICK a : a = Append(c, x)
  OBVIOUS
<1>2. Quoted(a) = Quoted(c) \cup QuotedBy(x)
  BY <1>1, QuotedAppend
<1>3. /\ NotAfter(Quoted(c), QuotedBy(x)) /\ NotAfter(Quoted(q), QuotedBy(x))
      /\ NotAfter({t, d}, QuotedBy(x))
  BY DEF Past, NotAfter
<1>4. Ascending(a)
  BY <1>1, <1>3, AscendingAppend DEF Ordered
<1>5. Past(t, d, q, a) = Past(t, d, q, c) \cup QuotedBy(x)
  BY <1>2 DEF Past
<1>6. NotAfter(Quoted(q), Quoted(a)) /\ NotAfter({t, d}, Quoted(q) \cup Quoted(a))
  BY <1>2, <1>3 DEF Ordered, NotAfter
<1>7. NotAfter(Past(t, d, q, a), {b})
  BY <1>5 DEF Ordered, NotAfter
<1>8. Ordered(t, d, q, a, b)
  BY <1>4, <1>6, <1>7 DEF Ordered
<1>9. a \in Seq(Items) /\ a # <<>>
  BY <1>1
<1>10. Sent(a, t, d, q, c, x, b)
  BY <1>2, <1>5, <1>8, <1>9 DEF Sent
<1> QED BY <1>1, <1>10

(* When the book changes.                                                  *)
LEMMA OrderedChange ==
    ASSUME NEW t \in Quotes, NEW d \in Quotes, NEW q \in Seq(Items), NEW c \in Seq(Items),
           NEW b \in Quotes, NEW e \in Quotes, Ordered(t, d, q, c, b), Version(b) <= Version(e)
    PROVE  Ordered(t, d, q, c, e)
<1>1. \A a \in Past(t, d, q, c) : Version(a) \in Nat
  BY PastAreQuotes
<1>2. Version(b) \in Nat /\ Version(e) \in Nat
  BY VersionIsNat
<1>3. NotAfter(Past(t, d, q, c), {e})
  BY <1>1, <1>2 DEF Ordered, NotAfter
<1> QED BY <1>3 DEF Ordered

-----------------------------------------------------------------------------
(* The messages of a session.                                              *)

(* Merging gives a quote.                                                  *)
LEMMA MergeIsQuote ==
    ASSUME NEW k, NEW old \in Quotes, NEW new \in Quotes
    PROVE  Merge(k, old, new) \in Quotes
BY DEF Merge, MergeFields, Quotes

(* A message with both fields replaces the quote.                          *)
LEMMA MergeWhole ==
    ASSUME NEW k, NEW old \in Quotes, NEW b \in [1 .. 2 -> Nat \ {0}]
    PROVE  Merge(k, old, b) = b
BY DEF Merge, MergeFields, Quotes

(* The fields that changed, written over the book before the change.       *)
LEMMA MergeChange ==
    ASSUME NEW i \in 1 .. 2, NEW b \in [1 .. 2 -> Nat \ {0}]
    PROVE  /\ [b EXCEPT ![i] = @ + 1] \in [1 .. 2 -> Nat \ {0}]
           /\ [NoData EXCEPT ![i] = b[i] + 1] \in Quotes
           /\ MergeFields(b, [NoData EXCEPT ![i] = b[i] + 1]) = [b EXCEPT ![i] = @ + 1]
           /\ Version(b) <= Version([b EXCEPT ![i] = @ + 1])
<1>1. PICK e : e = [b EXCEPT ![i] = @ + 1]
  OBVIOUS
<1>2. e \in [1 .. 2 -> Nat \ {0}] /\ e[i] = b[i] + 1 /\ \A j \in 1 .. 2 : j # i => e[j] = b[j]
  BY <1>1
<1>3. PICK z : z = [NoData EXCEPT ![i] = b[i] + 1]
  OBVIOUS
<1>4. NoData \in [1 .. 2 -> Nat] /\ NoData[1] = 0 /\ NoData[2] = 0
  BY DEF NoData
<1>5. z \in [1 .. 2 -> Nat] /\ z[i] = b[i] + 1 /\ \A j \in 1 .. 2 : j # i => z[j] = 0
  <2> HIDE DEF NoData
  <2>1. b[i] + 1 \in Nat
    OBVIOUS
  <2> QED BY <1>3, <1>4, <2>1
<1>6. \A j \in 1 .. 2 : (IF z[j] # 0 THEN z[j] ELSE b[j]) = e[j]
  BY <1>2, <1>5
<1>7. MergeFields(b, z) = e
  BY <1>2, <1>6 DEF MergeFields
<1>8. Version(b) <= Version(e)
  BY <1>2 DEF Version
<1> QED BY <1>1, <1>2, <1>3, <1>5, <1>7, <1>8 DEF Quotes

(* A session is no worse for there being less before it.                   *)
LEMMA SessionShrinks ==
    ASSUME NEW k, NEW sock, NEW ts, NEW b, NEW bs, NEW P, NEW R, R \subseteq P,
           Readable(k, sock, ts, b, bs, P)
    PROVE  Readable(k, sock, ts, b, bs, R)
<1>1. PICK s \in [0 .. Len(sock) -> Quotes] : Session(s, k, sock, ts, b, bs, P)
  BY DEF Readable
<1>2. \A q : NotAfter(P, q) => NotAfter(R, q)
  BY DEF NotAfter
<1>3. Session(s, k, sock, ts, b, bs, R)
  BY <1>1, <1>2 DEF Session
<1> QED BY <1>3 DEF Readable

(* A new session: the whole ticker and something else.                     *)
LEMMA SessionStarts ==
    ASSUME NEW k, NEW sock \in Seq(Messages), NEW ts \in Quotes, NEW b \in [1 .. 2 -> Nat \ {0}],
           NEW bs, NEW P, Len(sock) = 2, sock[1].topic = "ticker", sock[1].quote = b,
           sock[2].topic # "ticker", b \in bs, NotAfter(P, {b})
    PROVE  Readable(k, sock, ts, b, bs, P)
<1>1. PICK s : s = [i \in 0 .. 2 |-> IF i = 0 THEN ts ELSE b]
  OBVIOUS
<1>2. b \in Quotes
  BY DEF Quotes
<1>3. s \in [0 .. Len(sock) -> Quotes] /\ s[0] = ts /\ s[1] = b /\ s[2] = b
  BY <1>1, <1>2
<1>4. Merge(k, ts, b) = b
  BY MergeWhole
<1>5. SocketTickers(sock) = {1}
  BY DEF SocketTickers
<1>6. Version(b) \in Nat
  BY <1>2, VersionIsNat
<1>7. NotAfter({s[1]}, {b})
  BY <1>3, <1>6 DEF NotAfter
<1>8. k = "bybit" => s[0] = ts /\ s[Len(sock)] = b
  BY <1>3
<1>9. \A i \in 1 .. Len(sock) :
        s[i] = IF sock[i].topic = "ticker" THEN Merge(k, s[i - 1], sock[i].quote) ELSE s[i - 1]
  <2>1. ASSUME NEW i \in 1 .. 2
        PROVE  s[i] = IF sock[i].topic = "ticker" THEN Merge(k, s[i - 1], sock[i].quote) ELSE s[i - 1]
    <3>1. CASE i = 1
      <4>1. i - 1 = 0 /\ s[i] = b /\ s[i - 1] = ts
        BY <1>3, <3>1
      <4> QED BY <1>4, <3>1, <4>1
    <3>2. CASE i = 2
      <4>1. i - 1 = 1 /\ s[i] = s[i - 1]
        BY <1>3, <3>2
      <4> QED BY <3>2, <4>1
    <3> QED BY <2>1, <3>1, <3>2
  <2> QED BY <2>1
<1>10. \A i \in SocketTickers(sock) :
        /\ s[i] \in bs
        /\ NotAfter(P, {s[i]}) /\ NotAfter({s[i]}, {b})
        /\ \A j \in SocketTickers(sock) : i < j => Version(s[i]) <= Version(s[j])
  <2> SUFFICES ASSUME NEW i \in {1}
               PROVE  /\ s[i] \in bs
                      /\ NotAfter(P, {s[i]}) /\ NotAfter({s[i]}, {b})
                      /\ \A j \in {1} : i < j => Version(s[i]) <= Version(s[j])
    BY <1>5, Zenon
  <2>1. i = 1 /\ s[i] = b
    BY <1>3
  <2>2. \A j \in {1} : i < j => Version(s[i]) <= Version(s[j])
    BY <2>1
  <2> QED BY <1>3, <1>7, <2>1, <2>2, Zenon
<1>11. Session(s, k, sock, ts, b, bs, P)
  BY <1>8, <1>9, <1>10 DEF Session
<1> QED BY <1>3, <1>11 DEF Readable

(* One more message, for a change of the book.                             *)
LEMMA SessionGrows ==
    ASSUME NEW k, NEW sock \in Seq(Messages), NEW ts \in Quotes, NEW b \in Quotes, NEW bs,
           NEW P, NEW x \in Messages, NEW e \in Quotes, Readable(k, sock, ts, b, bs, P),
           x.topic = "ticker", \A old \in Quotes : k # "bybit" => Merge(k, old, x.quote) = e,
           k = "bybit" => Merge(k, b, x.quote) = e,
           Version(b) <= Version(e), NotAfter(P, {e})
    PROVE  Readable(k, Append(sock, x), ts, e, bs \cup {e}, P)
<1>1. PICK s \in [0 .. Len(sock) -> Quotes] : Session(s, k, sock, ts, b, bs, P)
  BY DEF Readable
<1>2. PICK n \in Nat : n = Len(sock)
  OBVIOUS
<1>3. PICK u : u = [i \in 0 .. n + 1 |-> IF i <= n THEN s[i] ELSE e]
  OBVIOUS
<1>4. PICK a : a = Append(sock, x)
  OBVIOUS
<1>5. a \in Seq(Messages) /\ Len(a) = n + 1 /\ a[n + 1] = x /\ \A i \in 1 .. n : a[i] = sock[i]
  BY <1>2, <1>4
<1>6. \A i \in 0 .. n : s[i] \in Quotes
  BY <1>1, <1>2
<1>7. u \in [0 .. Len(a) -> Quotes] /\ u[n + 1] = e /\ \A i \in 0 .. n : u[i] = s[i]
  BY <1>3, <1>5, <1>6
<1>8. \A i : i \in SocketTickers(a) <=> (i \in SocketTickers(sock) \/ i = n + 1)
  BY <1>2, <1>5 DEF SocketTickers
<1>9. SocketTickers(sock) \subseteq 1 .. n
  BY <1>2 DEF SocketTickers
<1>10. k = "bybit" => u[0] = ts /\ u[Len(a)] = e
  BY <1>1, <1>5, <1>7 DEF Session
<1>11. Merge(k, s[n], x.quote) = e
  <2>1. s[n] \in Quotes /\ (k = "bybit" => s[n] = b)
    BY <1>1, <1>2, <1>6 DEF Session
  <2> QED BY <2>1
<1>12. ASSUME NEW i \in 1 .. n + 1
       PROVE  u[i] = IF a[i].topic = "ticker" THEN Merge(k, u[i - 1], a[i].quote) ELSE u[i - 1]
  <2>1. CASE i = n + 1
    <3>1. i - 1 = n /\ u[i - 1] = s[n] /\ u[i] = e /\ a[i] = x
      BY <1>5, <1>7, <2>1
    <3> QED BY <1>11, <3>1
  <2>2. CASE i # n + 1
    <3>1. i \in 1 .. n /\ i - 1 \in 0 .. n
      BY <2>2
    <3>2. u[i] = s[i] /\ u[i - 1] = s[i - 1] /\ a[i] = sock[i]
      BY <1>5, <1>7, <3>1
    <3> QED BY <1>1, <1>2, <3>1, <3>2 DEF Session
  <2> QED BY <2>1, <2>2
<1>13. Version(b) \in Nat /\ Version(e) \in Nat /\ \A i \in 0 .. n : Version(u[i]) \in Nat
  BY <1>6, <1>7, VersionIsNat
<1>14. ASSUME NEW i \in SocketTickers(sock) PROVE u[i] \in bs /\ NotAfter(P, {u[i]}) /\ Version(u[i]) <= Version(e)
  <2>1. u[i] = s[i] /\ i \in 0 .. n
    BY <1>7, <1>9
  <2>2. s[i] \in bs /\ NotAfter(P, {s[i]}) /\ Version(s[i]) <= Version(b)
    BY <1>1 DEF Session, NotAfter
  <2> QED BY <1>13, <2>1, <2>2
<1>15. ASSUME NEW i \in SocketTickers(a)
       PROVE  /\ u[i] \in bs \cup {e}
              /\ NotAfter(P, {u[i]}) /\ NotAfter({u[i]}, {e})
              /\ \A j \in SocketTickers(a) : i < j => Version(u[i]) <= Version(u[j])
  <2>1. CASE i = n + 1
    <3>1. u[i] = e /\ NotAfter({e}, {e})
      BY <1>7, <1>13, <2>1 DEF NotAfter
    <3>2. \A j \in SocketTickers(a) : j <= i
      BY <1>8, <1>9, <2>1
    <3>3. SocketTickers(a) \subseteq Nat
      BY <1>8, <1>9
    <3>4. \A j \in SocketTickers(a) : ~ (i < j)
      BY <2>1, <3>2, <3>3
    <3> QED BY <3>1, <3>4
  <2>2. CASE i \in SocketTickers(sock)
    <3>1. u[i] \in bs /\ NotAfter(P, {u[i]}) /\ Version(u[i]) <= Version(e)
      BY <1>14, <2>2
    <3>2. ASSUME NEW j \in SocketTickers(a), i < j PROVE Version(u[i]) <= Version(u[j])
      <4>1. CASE j = n + 1
        BY <1>7, <3>1, <4>1
      <4>2. CASE j \in SocketTickers(sock)
        <5>1. u[i] = s[i] /\ u[j] = s[j]
          BY <1>7, <1>9, <2>2, <4>2
        <5>2. Version(s[i]) <= Version(s[j])
          BY <1>1, <2>2, <3>2, <4>2 DEF Session
        <5> QED BY <5>1, <5>2
      <4> QED BY <1>8, <4>1, <4>2
    <3> QED BY <3>1, <3>2 DEF NotAfter
  <2> QED BY <1>8, <1>15, <2>1, <2>2
<1>16. Session(u, k, a, ts, e, bs \cup {e}, P)
  BY <1>5, <1>10, <1>12, <1>15 DEF Session
<1> QED BY <1>4, <1>7, <1>16 DEF Readable

IsTail(r, sock) ==
    /\ r \in Seq(Messages)
    /\ Len(sock) \in Nat \ {0} /\ Len(r) = Len(sock) - 1
    /\ \A i \in 1 .. Len(sock) - 1 : r[i] = sock[i + 1]
    /\ \A i \in SocketTickers(r) : i \in 1 .. Len(sock) - 1 /\ i + 1 \in SocketTickers(sock)

(* What is left of the socket after a message.                             *)
LEMMA SocketTail ==
    ASSUME NEW sock \in Seq(Messages), sock # <<>>
    PROVE  IsTail(Tail(sock), sock) /\ Head(sock) = sock[1] /\ Head(sock) \in Messages
<1>1. PICK r : r = Tail(sock)
  OBVIOUS
<1>2. r \in Seq(Messages) /\ Len(sock) \in Nat \ {0} /\ Len(r) = Len(sock) - 1
  BY <1>1
<1>3. \A i \in 1 .. Len(sock) - 1 : r[i] = sock[i + 1]
  BY <1>1
<1>4. \A i \in SocketTickers(r) : i \in 1 .. Len(sock) - 1 /\ i + 1 \in SocketTickers(sock)
  BY <1>2, <1>3 DEF SocketTickers
<1>5. IsTail(r, sock)
  BY <1>2, <1>3, <1>4 DEF IsTail
<1>6. Head(sock) = sock[1] /\ Head(sock) \in Messages
  BY <1>2
<1> QED BY <1>1, <1>5, <1>6

(* The rest of a session once its first message is read.                   *)
LEMMA SessionShifts ==
    ASSUME NEW k, NEW sock \in Seq(Messages), sock # <<>>, NEW ts, NEW b, NEW bs, NEW P,
           NEW s \in [0 .. Len(sock) -> Quotes], Session(s, k, sock, ts, b, bs, P),
           NEW w, k = "bybit" => w = s[1],
           NEW R, \A i \in SocketTickers(sock) : i # 1 => NotAfter(R, {s[i]})
    PROVE  Readable(k, Tail(sock), w, b, bs, R)
<1>1. PICK r : r = Tail(sock)
  OBVIOUS
<1>2. IsTail(r, sock)
  BY <1>1, SocketTail
<1>3. PICK n \in Nat \ {0} : n = Len(sock)
  BY <1>2 DEF IsTail
<1>4. PICK u : u = [i \in 0 .. n - 1 |-> s[i + 1]]
  OBVIOUS
<1>5. \A i \in 0 .. n - 1 : u[i] = s[i + 1] /\ s[i + 1] \in Quotes
  BY <1>3, <1>4
<1>6. u \in [0 .. Len(r) -> Quotes] /\ Len(r) = n - 1
  BY <1>2, <1>3, <1>4, <1>5 DEF IsTail
<1>7. k = "bybit" => u[0] = w /\ u[Len(r)] = b
  <2>1. u[0] = s[1] /\ u[n - 1] = s[n]
    BY <1>3, <1>5
  <2> QED BY <1>3, <1>6, <2>1 DEF Session
<1>8. ASSUME NEW i \in 1 .. Len(r)
      PROVE  u[i] = IF r[i].topic = "ticker" THEN Merge(k, u[i - 1], r[i].quote) ELSE u[i - 1]
  <2>1. PICK j \in 1 .. n : j = i + 1
    BY <1>3, <1>6
  <2>2. u[i] = s[j] /\ u[i - 1] = s[j - 1] /\ r[i] = sock[j]
    BY <1>2, <1>3, <1>5, <1>6, <2>1 DEF IsTail
  <2> QED BY <1>1, <1>3, <2>1, <2>2 DEF Session
<1>9. ASSUME NEW i \in SocketTickers(r)
      PROVE  /\ u[i] \in bs
             /\ NotAfter(R, {u[i]}) /\ NotAfter({u[i]}, {b})
             /\ \A j \in SocketTickers(r) : i < j => Version(u[i]) <= Version(u[j])
  <2>1. i \in 1 .. n - 1 /\ i + 1 \in SocketTickers(sock) /\ u[i] = s[i + 1] /\ i + 1 # 1
    BY <1>2, <1>3, <1>5, <1>9 DEF IsTail
  <2>2. u[i] \in bs /\ NotAfter({u[i]}, {b})
    BY <2>1 DEF Session
  <2>3. NotAfter(R, {u[i]})
    BY <2>1
  <2>4. ASSUME NEW j \in SocketTickers(r), i < j PROVE Version(u[i]) <= Version(u[j])
    <3>1. j + 1 \in SocketTickers(sock) /\ u[j] = s[j + 1] /\ i + 1 < j + 1
      BY <1>2, <1>3, <1>5, <2>1, <2>4 DEF IsTail
    <3> QED BY <2>1, <3>1 DEF Session
  <2> QED BY <2>2, <2>3, <2>4
<1>10. Session(u, k, r, w, b, bs, R)
  BY <1>7, <1>8, <1>9 DEF Session
<1> QED BY <1>1, <1>6, <1>10 DEF Readable

Reading(k, sock, ts, b, bs, P, v, w) ==
    /\ sock \in Seq(Messages) /\ sock # <<>> /\ Head(sock).topic = "ticker"
    /\ Readable(k, sock, ts, b, bs, P)
    /\ v = Merge(k, ts, Head(sock).quote)
    /\ k = "bybit" => w = v

(* Reading a ticker publishes a book not older than what went before.      *)
LEMMA SessionReads ==
    ASSUME NEW k, NEW sock, NEW ts, NEW b, NEW bs, NEW P, NEW v, NEW w,
           Reading(k, sock, ts, b, bs, P, v, w)
    PROVE  /\ v \in bs /\ NotAfter(P, {v}) /\ NotAfter({v}, {b})
           /\ Readable(k, Tail(sock), w, b, bs, P \cup {v})
<1> USE DEF Reading
<1>1. PICK s \in [0 .. Len(sock) -> Quotes] : Session(s, k, sock, ts, b, bs, P)
  BY DEF Readable
<1>2. Head(sock) = sock[1] /\ Len(sock) \in Nat \ {0}
  BY SocketTail DEF IsTail
<1>3. 1 \in SocketTickers(sock)
  BY <1>2 DEF SocketTickers
<1>4. s[1] = v
  <2>1. 1 \in 1 .. Len(sock) /\ 1 - 1 = 0
    BY <1>2
  <2>2. s[1] = IF sock[1].topic = "ticker" THEN Merge(k, s[1 - 1], sock[1].quote) ELSE s[1 - 1]
    BY <1>1, <2>1 DEF Session
  <2>3. s[1] = Merge(k, s[0], sock[1].quote)
    BY <1>2, <2>1, <2>2
  <2>4. k = "bybit" => s[0] = ts
    BY <1>1 DEF Session
  <2> QED BY <1>2, <2>3, <2>4 DEF Merge
<1>5. v \in bs /\ NotAfter(P, {v}) /\ NotAfter({v}, {b})
  BY <1>1, <1>3, <1>4 DEF Session
<1>6. ASSUME NEW i \in SocketTickers(sock), i # 1 PROVE NotAfter(P \cup {v}, {s[i]})
  <2>1. i > 1
    BY <1>6 DEF SocketTickers
  <2>2. Version(s[1]) <= Version(s[i]) /\ NotAfter(P, {s[i]})
    BY <1>1, <1>3, <1>6, <2>1 DEF Session
  <2> QED BY <1>4, <2>2 DEF NotAfter
<1>7. Readable(k, Tail(sock), w, b, bs, P \cup {v})
  BY <1>1, <1>4, <1>6, SessionShifts
<1> QED BY <1>5, <1>7

(* Reading anything else leaves the session's quote as it is.              *)
LEMMA SessionSkips ==
    ASSUME NEW k, NEW sock \in Seq(Messages), sock # <<>>, NEW ts \in Quotes, NEW b, NEW bs, NEW P,
           Readable(k, sock, ts, b, bs, P), Head(sock).topic # "ticker"
    PROVE  Readable(k, Tail(sock), ts, b, bs, P)
<1>1. PICK s \in [0 .. Len(sock) -> Quotes] : Session(s, k, sock, ts, b, bs, P)
  BY DEF Readable
<1>2. Head(sock) = sock[1] /\ Len(sock) \in Nat \ {0}
  BY SocketTail DEF IsTail
<1>3. 1 \in 1 .. Len(sock) /\ 1 - 1 = 0
  BY <1>2
<1>4. s[1] = IF sock[1].topic = "ticker" THEN Merge(k, s[1 - 1], sock[1].quote) ELSE s[1 - 1]
  BY <1>1, <1>3 DEF Session
<1>5. s[1] = s[0]
  BY <1>2, <1>3, <1>4
<1>6. k = "bybit" => ts = s[1]
  BY <1>1, <1>5 DEF Session
<1>7. \A i \in SocketTickers(sock) : i # 1 => NotAfter(P, {s[i]})
  BY <1>1 DEF Session
<1> QED BY <1>1, <1>6, <1>7, SessionShifts

-----------------------------------------------------------------------------
(* What the steps are made of.                                             *)

(* A missing ticker and an item of another key.                            *)
LEMMA ConstantFacts ==
    /\ NoData \in Quotes /\ Version(NoData) = 0
    /\ Other \in Items /\ QuotedBy(Other) = {} /\ Other[1] # "ticker"
    /\ <<>> \in Seq(Items)
BY DEF NoData, Other, Quotes, Items, QuotedBy, Version

(* A ticker is published as the quote of the session, Bitget's with an     *)
(* order book; any other message as an item of another key or not at all.  *)
LEMMA PublishIs ==
    ASSUME connector \in Connectors, NEW topic, NEW quote, NEW v,
           v = Merge(connector, ticker_state, quote)
    PROVE  /\ topic = "ticker" => Publish(topic, quote) \in {<<<<"ticker", v>>>>, <<<<"ticker", v>>, Other>>}
           /\ topic # "ticker" => Publish(topic, quote) \in {<<>>, <<Other>>}
<1>1. connector \in {"bybit", "kucoin", "okx", "bitget", "hyperliquid", "paradex"}
  BY FeedAssumption
<1>2. CASE connector = "bybit"
  BY <1>2 DEF Publish, BybitPublish, Passed, Merge
<1>3. CASE connector = "kucoin"
  BY <1>3 DEF Publish, KucoinPublish, MergeMembers, Passed, Merge
<1>4. CASE connector = "okx"
  BY <1>4 DEF Publish, OkxPublish, Passed, Merge
<1>5. CASE connector = "bitget"
  BY <1>5 DEF Publish, BitgetPublish, Passed, Merge
<1>6. CASE connector = "hyperliquid"
  BY <1>6 DEF Publish, HyperliquidPublish, Passed, Merge
<1>7. CASE connector = "paradex"
  BY <1>7 DEF Publish, ParadexPublish, Passed, Merge
<1> QED BY <1>1, <1>2, <1>3, <1>4, <1>5, <1>6, <1>7

(* Sending none, one or two items.                                         *)
LEMMA JoinIsAppend ==
    ASSUME NEW c \in Seq(Items), NEW x \in Items, NEW y \in Items
    PROVE  /\ c \o <<>> = c
           /\ c \o <<x>> = Append(c, x)
           /\ c \o <<x, y>> = Append(Append(c, x), y)
OBVIOUS

(* Redis after part of a batch: the batch can be sent again.               *)
LEMMA AppliedPart ==
    ASSUME NEW batch \in Seq(Items), NEW S, S \subseteq DOMAIN batch
    PROVE  /\ Applied(batch, S) \in {redis} \cup Quoted(batch)
           /\ LastTicker(batch, Applied(batch, S)) = LastTicker(batch, redis)
<1>1. PICK I : I = S \cap Tickers(batch)
  OBVIOUS
<1>2. PICK a : a = Applied(batch, S)
  OBVIOUS
<1>3. a = IF I = {} THEN redis ELSE batch[Max(I)][2]
  BY <1>1, <1>2 DEF Applied
<1>4. CASE Tickers(batch) = {}
  <2>1. I = {}
    BY <1>1, <1>4
  <2> QED BY <1>2, <1>3, <2>1
<1>5. CASE Tickers(batch) # {}
  <2>1. LastTicker(batch, a) = LastTicker(batch, redis)
    BY <1>5 DEF LastTicker
  <2>2. ASSUME I # {} PROVE a \in Quoted(batch)
    <3>1. I \subseteq 1 .. Len(batch) /\ Len(batch) \in Nat
      BY <1>1, Positions
    <3>2. Max(I) \in I
      BY <2>2, <3>1, MaxExists
    <3>3. Max(I) \in Tickers(batch) /\ a = batch[Max(I)][2]
      BY <1>1, <1>3, <2>2, <3>2
    <3> QED BY <3>3 DEF Quoted
  <2> QED BY <1>2, <1>3, <2>1, <2>2
<1> QED BY <1>4, <1>5

(* Redis after the whole batch.                                            *)
LEMMA AppliedAll ==
    ASSUME NEW batch \in Seq(Items)
    PROVE  Applied(batch, DOMAIN batch) = LastTicker(batch, redis)
<1>1. DOMAIN batch \cap Tickers(batch) = Tickers(batch)
  BY DEF Tickers
<1> QED BY <1>1 DEF Applied, LastTicker

(* Whatever becomes of a flush, Redis and the buffer still hold the last   *)
(* ticker of the batch.                                                    *)
LEMMA FlushKeeps ==
    ASSUME NEW batch \in Seq(Items), Flush(batch)
    PROVE  /\ buffer' \in {<<>>, batch}
           /\ redis' \in {redis} \cup Quoted(batch)
           /\ LastTicker(buffer', redis') = LastTicker(batch, redis)
<1>1. CASE FlushOk(batch)
  <2>1. redis' = LastTicker(batch, redis) /\ buffer' = <<>>
    BY <1>1, AppliedAll DEF FlushOk
  <2>2. LastTicker(<<>>, redis') = redis'
    BY EmptyQuotes, NoneIsLast
  <2> QED BY <2>1, <2>2, LastIsQuoted
<1>2. CASE FlushErr(batch)
  BY <1>2, AppliedPart DEF FlushErr
<1>3. CASE FlushBreaks(batch)
  <2>1. PICK n \in 0 .. Len(batch) : redis' = Applied(batch, 1 .. n)
    BY <1>3 DEF FlushBreaks
  <2>2. 1 .. n \subseteq DOMAIN batch
    OBVIOUS
  <2> QED BY <1>3, <2>1, <2>2, AppliedPart DEF FlushBreaks
<1>4. CASE FlushOnBroken(batch)
  BY <1>4 DEF FlushOnBroken
<1> QED BY <1>1, <1>2, <1>3, <1>4 DEF Flush

(* Where the data is.                                                      *)
marketVars == <<connector, book, books>>
sessionVars == <<worker, socket, ticker_state>>
lineVars == <<channel, queue, taken, dropped>>

(* The parts of the invariant that a step which leaves them alone keeps.   *)
LEMMA SameLine ==
    ASSUME IInv, UNCHANGED <<book, lineVars>>
    PROVE  InOrder'
BY DEF IInv, InOrder, lineVars

(* A session that nothing overtakes.                                       *)
LEMMA SameSession ==
    ASSUME IInv, UNCHANGED <<marketVars, sessionVars>>,
           Past(taken, dropped, queue, channel)' \subseteq Past(taken, dropped, queue, channel)
    PROVE  SessionOK'
<1> SUFFICES ASSUME worker = "read"
             PROVE  Readable(connector, socket, ticker_state, book, books,
                             Past(taken, dropped, queue, channel)')
  BY DEF SessionOK, marketVars, sessionVars
<1>1. PICK P : P = Past(taken, dropped, queue, channel)
  OBVIOUS
<1>2. PICK R : R = Past(taken, dropped, queue, channel)'
  OBVIOUS
<1>3. Readable(connector, socket, ticker_state, book, books, P)
  BY <1>1 DEF IInv, SessionOK
<1>4. Readable(connector, socket, ticker_state, book, books, R)
  BY <1>1, <1>2, <1>3, SessionShrinks
<1> QED BY <1>2, <1>4

(* What is owed stays where it is.                                         *)
LEMMA SameOwed ==
    ASSUME IInv, UNCHANGED <<owed, taken, dropped, queue>>,
           writer' = "left" => writer = "left" \/ queue = <<>>
    PROVE  OwedKept'
<1>1. CASE writer' = "left" /\ writer # "left"
  <2>1. Quoted(queue) = {}
    BY <1>1, EmptyQuotes
  <2> QED BY <1>1, <2>1 DEF IInv, OwedKept, Holds
<1>2. CASE (writer' = "left") = (writer = "left")
  BY <1>2 DEF IInv, OwedKept, Holds
<1>3. CASE writer' # "left" /\ writer = "left"
  BY <1>3 DEF IInv, OwedKept, Holds, Kept
<1> QED BY <1>1, <1>2, <1>3

(* A step that moves no data.                                              *)
LEMMA QuietStep ==
    ASSUME IInv, UNCHANGED <<marketVars, socket, ticker_state, lineVars, buffer, redis, owed>>,
           worker' = "read" => worker = "read",
           full' => channel # <<>>,
           writer' \in {"drain", "left"} => Requested',
           writer' = "left" => writer = "left" \/ queue = <<>>
    PROVE  IInv'
<1>1. TypeOK'
  BY DEF IInv, TypeOK, marketVars, lineVars
<1>2. InOrder'
  BY SameLine DEF lineVars, marketVars
<1>3. Flow'
  BY DEF IInv, Flow, marketVars, lineVars
<1>4. SessionOK'
  <2>1. Past(taken, dropped, queue, channel)' = Past(taken, dropped, queue, channel)
    BY DEF lineVars
  <2> QED BY <2>1 DEF IInv, SessionOK, marketVars
<1>5. OwedKept'
  BY SameOwed DEF lineVars
<1> QED BY <1>1, <1>2, <1>3, <1>4, <1>5 DEF IInv

(* The steps of which that is true.                                        *)
LEMMA QuietSteps ==
    ASSUME IInv, CheckOk \/ CheckErr \/ CheckRefused \/ PollerNoRedis \/ BridgePushFull \/ WriterConnect
                   \/ WriterNoRedis \/ Shutdown \/ UNCHANGED vars
    PROVE  IInv'
<1> USE DEF exchangeVars, workerVars, pollerVars, bridgeVars, writerVars, mainVars, marketVars, lineVars
<1>0. (full => channel # <<>>) /\ (writer \in {"drain", "left"} => Requested)
  BY DEF IInv, Flow
<1>1. CASE CheckOk
  BY <1>0, <1>1, QuietStep DEF CheckOk, Requested
<1>2. CASE CheckErr
  BY <1>0, <1>2, QuietStep DEF CheckErr, Requested
<1>3. CASE CheckRefused
  BY <1>0, <1>3, QuietStep DEF CheckRefused, Requested
<1>4. CASE PollerNoRedis
  BY <1>0, <1>4, QuietStep DEF PollerNoRedis, Requested
<1>5. CASE BridgePushFull
  BY <1>0, <1>5, QuietStep DEF BridgePushFull, Requested
<1>6. CASE WriterConnect
  BY <1>0, <1>6, QuietStep DEF WriterConnect, Requested
<1>7. CASE WriterNoRedis
  BY <1>0, <1>7, QuietStep DEF WriterNoRedis, Requested
<1>8. CASE RunnerJoined
  BY <1>0, <1>8, QuietStep DEF RunnerJoined, Requested
<1>9. CASE BridgeJoined
  BY <1>0, <1>9, QuietStep DEF BridgeJoined, Requested
<1>10. CASE WriterJoined
  BY <1>0, <1>10, QuietStep DEF WriterJoined, Requested
<1>11. CASE Timeout
  BY <1>0, <1>11, QuietStep DEF Timeout, Requested
<1>12. CASE UNCHANGED vars
  BY <1>0, <1>12, QuietStep DEF vars, Requested
<1> QED BY <1>1, <1>2, <1>3, <1>4, <1>5, <1>6, <1>7, <1>8, <1>9, <1>10, <1>11, <1>12 DEF Shutdown

-----------------------------------------------------------------------------
(* The exchange and the worker.                                            *)

(* The book changes, with a message if there is a session.                 *)
LEMMA BookChangesStep ==
    ASSUME IInv, NEW i \in 1 .. 2, BookChanges(i)
    PROVE  IInv'
<1> USE DEF exchangeVars, workerVars, pollerVars, bridgeVars, writerVars, mainVars, lineVars
<1>0. TypeOK
  BY DEF IInv
<1>1. PICK b : b = book
  OBVIOUS
<1>2. PICK e : e = [b EXCEPT ![i] = @ + 1]
  OBVIOUS
<1>3. b \in [1 .. 2 -> Nat \ {0}] /\ b \in Quotes
  BY <1>0, <1>1 DEF TypeOK, Quotes
<1>4. e \in [1 .. 2 -> Nat \ {0}] /\ e \in Quotes /\ Version(b) <= Version(e)
  <2>1. e \in [1 .. 2 -> Nat \ {0}] /\ Version(b) <= Version(e)
    BY <1>2, <1>3, MergeChange
  <2> QED BY <2>1 DEF Quotes
<1>5. book' = e /\ books' = books \cup {e}
  BY <1>1, <1>2 DEF BookChanges
<1>6. PICK x : x = [topic |-> "ticker", quote |-> MessageAfter(i)]
  OBVIOUS
<1>7. MessageAfter(i) \in Quotes /\ (connector # "bybit" => MessageAfter(i) = e)
      /\ (connector = "bybit" => MergeFields(b, MessageAfter(i)) = e)
  BY <1>1, <1>2, <1>3, <1>4, MergeChange DEF MessageAfter
<1>8. x \in Messages /\ x.topic = "ticker" /\ x.quote = MessageAfter(i)
  BY <1>6, <1>7 DEF Messages
<1>9. socket' = (IF worker = "read" THEN Append(socket, x) ELSE socket)
  BY <1>6 DEF BookChanges
<1>10. UNCHANGED <<connector, worker, ticker_state, lineVars, buffer, redis, owed, full, writer, main>>
  BY DEF BookChanges
<1>11. /\ taken \in Quotes /\ dropped \in Quotes /\ ticker_state \in Quotes
       /\ queue \in Seq(Items) /\ channel \in Seq(Items) /\ socket \in Seq(Messages)
  BY <1>0 DEF TypeOK
<1>12. socket' \in Seq(Messages)
  BY <1>8, <1>9, <1>11
<1>13. TypeOK'
  BY <1>0, <1>4, <1>5, <1>10, <1>12 DEF TypeOK
<1>14. Ordered(taken, dropped, queue, channel, e)
  BY <1>1, <1>3, <1>4, <1>11, OrderedChange DEF IInv, InOrder
<1>15. InOrder'
  BY <1>5, <1>10, <1>14 DEF InOrder
<1>16. Flow'
  <2>1. redis' \in books' \cup {NoData}
    BY <1>5, <1>10 DEF IInv, Flow
  <2>2. (Quoted(channel) \cup Quoted(queue) \cup Quoted(buffer))' \subseteq books'
    BY <1>5, <1>10 DEF IInv, Flow
  <2>3. (full => channel # <<>>)' /\ (taken = LastTicker(buffer, redis))'
    BY <1>10 DEF IInv, Flow
  <2>4. (writer \in {"drain", "left"} => Requested)'
    BY <1>10 DEF IInv, Flow, Requested
  <2> QED BY <2>1, <2>2, <2>3, <2>4 DEF Flow
<1>17. SessionOK'
  <2>1. PICK P : P = Past(taken, dropped, queue, channel)
    OBVIOUS
  <2>2. P = Past(taken, dropped, queue, channel)'
    BY <1>10, <2>1
  <2>3. ASSUME worker = "read" PROVE Readable(connector, Append(socket, x), ticker_state, e, books \cup {e}, P)
    <3>1. Readable(connector, socket, ticker_state, b, books, P)
      BY <1>1, <2>1, <2>3 DEF IInv, SessionOK
    <3>2. NotAfter(P, {e})
      BY <1>14, <2>1 DEF Ordered
    <3>3. \A old \in Quotes : connector # "bybit" => Merge(connector, old, x.quote) = e
      BY <1>7, <1>8 DEF Merge
    <3>4. connector = "bybit" => Merge(connector, b, x.quote) = e
      BY <1>7, <1>8 DEF Merge
    <3> QED BY <1>3, <1>4, <1>8, <1>11, <3>1, <3>2, <3>3, <3>4, SessionGrows
  <2>4. (worker = "read" =>
        Readable(connector, socket, ticker_state, book, books, Past(taken, dropped, queue, channel)))'
    BY <1>5, <1>9, <1>10, <2>2, <2>3
  <2> QED BY <2>4 DEF SessionOK
<1>18. OwedKept'
  BY <1>10, SameOwed
<1> QED BY <1>13, <1>15, <1>16, <1>17, <1>18 DEF IInv

(* The session is over.                                                    *)
LEMMA SessionEnds ==
    ASSUME IInv, Disconnected \/ SessionErr
    PROVE  IInv'
<1> USE DEF exchangeVars, workerVars, pollerVars, bridgeVars, writerVars, mainVars, lineVars
<1>1. worker' = "connect" /\ ticker_state' = NoData /\ socket' = <<>>
  BY DEF Disconnected, SessionErr
<1>2. UNCHANGED <<connector, book, books, lineVars, buffer, redis, owed, full, writer, main>>
  BY DEF Disconnected, SessionErr
<1>3. TypeOK'
  <2>1. <<>> \in Seq(Messages)
    OBVIOUS
  <2> QED BY <1>1, <1>2, <2>1, ConstantFacts DEF IInv, TypeOK
<1>4. InOrder'
  BY <1>2, SameLine
<1>5. Flow'
  BY <1>2 DEF IInv, Flow, Requested
<1>6. SessionOK'
  BY <1>1 DEF SessionOK
<1>7. OwedKept'
  BY <1>2, SameOwed
<1> QED BY <1>3, <1>4, <1>5, <1>6, <1>7 DEF IInv

(* A new session starts from the book as it is.                            *)
LEMMA ConnectStep ==
    ASSUME IInv, Connect
    PROVE  IInv'
<1> USE DEF exchangeVars, workerVars, pollerVars, bridgeVars, writerVars, mainVars, lineVars
<1>1. UNCHANGED <<connector, book, books, ticker_state, lineVars, buffer, redis, owed, full, writer, main>>
  BY DEF Connect
<1>2. PICK other \in OtherTopics :
          socket' = <<[topic |-> "ticker", quote |-> book],
                      [topic |-> IF other \in Topics THEN other ELSE "ack", quote |-> NoData]>>
  BY DEF Connect
<1>3. PICK second : second = IF other \in Topics THEN other ELSE "ack"
  OBVIOUS
<1>4. second \in OtherTopics \cup {"ticker", "ack"} /\ second # "ticker"
  BY <1>3, FeedAssumption
<1>5. PICK b : b = book
  OBVIOUS
<1>6. /\ b \in [1 .. 2 -> Nat \ {0}] /\ b \in books /\ b \in Quotes
      /\ ticker_state \in Quotes
  BY <1>5 DEF IInv, TypeOK, Quotes
<1>7. PICK sock : sock = <<[topic |-> "ticker", quote |-> b], [topic |-> second, quote |-> NoData]>>
  OBVIOUS
<1>8. socket' = sock
  BY <1>2, <1>3, <1>5, <1>7
<1>9. /\ [topic |-> "ticker", quote |-> b] \in Messages
      /\ [topic |-> second, quote |-> NoData] \in Messages
  BY <1>4, <1>6, ConstantFacts DEF Messages
<1>10. /\ sock \in Seq(Messages) /\ Len(sock) = 2
       /\ sock[1] = [topic |-> "ticker", quote |-> b] /\ sock[2] = [topic |-> second, quote |-> NoData]
  BY <1>7, <1>9
<1>11. TypeOK'
  BY <1>1, <1>8, <1>10 DEF IInv, TypeOK
<1>12. PICK P : P = Past(taken, dropped, queue, channel)
  OBVIOUS
<1>13. P = Past(taken, dropped, queue, channel)'
  BY <1>1, <1>12
<1>14. NotAfter(P, {b})
  BY <1>5, <1>12 DEF IInv, InOrder, Ordered
<1>15. sock[1].topic = "ticker" /\ sock[1].quote = b /\ sock[2].topic # "ticker"
  BY <1>4, <1>10
<1>16. Readable(connector, sock, ticker_state, b, books, P)
  BY <1>6, <1>10, <1>14, <1>15, SessionStarts
<1>17. (worker = "read" =>
        Readable(connector, socket, ticker_state, book, books, Past(taken, dropped, queue, channel)))'
  BY <1>1, <1>5, <1>8, <1>13, <1>16
<1>18. SessionOK'
  BY <1>17 DEF SessionOK
<1>19. InOrder'
  BY <1>1, SameLine
<1>20. Flow'
  BY <1>1 DEF IInv, Flow, Requested
<1>21. OwedKept'
  BY <1>1, SameOwed
<1> QED BY <1>11, <1>18, <1>19, <1>20, <1>21 DEF IInv

(* An item of another key disturbs no order.                               *)
LEMMA OrderedOther ==
    ASSUME NEW t, NEW d, NEW b, NEW q \in Seq(Items), NEW c \in Seq(Items), Ordered(t, d, q, c, b)
    PROVE  Sent(Append(c, Other), t, d, q, c, Other, b) /\ QuotedBy(Other) = {}
<1>1. Other \in Items /\ QuotedBy(Other) = {}
  BY ConstantFacts
<1>2. NotAfter(Past(t, d, q, c), QuotedBy(Other)) /\ NotAfter(QuotedBy(Other), {b})
  BY <1>1 DEF NotAfter
<1>3. MaySend(t, d, q, c, Other, b)
  BY <1>1, <1>2 DEF MaySend
<1> QED BY <1>1, <1>3, OrderedSend

(* A step that adds to the channel, nothing else of the line changing.     *)
LEMMA FlowAfterSend ==
    ASSUME IInv, UNCHANGED <<books, queue, taken, dropped, buffer, redis, full, writer, main>>,
           channel' # <<>> \/ channel' = channel, Quoted(channel') \subseteq books
    PROVE  Flow'
BY DEF IInv, Flow, Requested

(* The worker reads a ticker.                                              *)
LEMMA ReadTicker ==
    ASSUME IInv, Read, Head(socket).topic = "ticker"
    PROVE  IInv'
<1> USE DEF exchangeVars, workerVars, pollerVars, bridgeVars, writerVars, mainVars
<1>1. UNCHANGED <<connector, book, books, worker, queue, taken, dropped, buffer, redis, owed, full, writer, main>>
  BY DEF Read
<1>2. worker = "read" /\ socket # <<>> /\ socket' = Tail(socket)
  BY DEF Read
<1>3. PICK m : m = Head(socket)
  OBVIOUS
<1>4. PICK out : out = Publish(m.topic, m.quote)
  OBVIOUS
<1>5. /\ channel' = channel \o out
      /\ ticker_state' = IF m.topic = "ticker" /\ connector \in {"bybit", "kucoin"}
                         THEN out[1][2] ELSE ticker_state
  BY <1>3, <1>4 DEF Read
<1>6. TypeOK
  BY DEF IInv
<1>7. /\ taken \in Quotes /\ dropped \in Quotes /\ ticker_state \in Quotes
      /\ queue \in Seq(Items) /\ channel \in Seq(Items) /\ socket \in Seq(Messages)
      /\ connector \in Connectors
  BY <1>6 DEF TypeOK
<1>8. m \in Messages
  BY <1>2, <1>3, <1>7, SocketTail
<1>9. m.quote \in Quotes /\ m.topic = "ticker"
  BY <1>3, <1>8 DEF Messages
<1>10. PICK v : v = Merge(connector, ticker_state, m.quote)
  OBVIOUS
<1>11. v \in Quotes
  BY <1>7, <1>9, <1>10, MergeIsQuote
<1>12. PICK tick : tick = <<"ticker", v>>
  OBVIOUS
<1>13. tick \in Items /\ QuotedBy(tick) = {v} /\ tick[2] = v
  BY <1>11, <1>12 DEF Items, QuotedBy
<1>14. out \in {<<tick>>, <<tick, Other>>}
  BY <1>4, <1>7, <1>9, <1>10, <1>12, PublishIs
<1>15. ticker_state' \in Quotes /\ (connector = "bybit" => ticker_state' = v)
  <2>1. out[1] = tick
    BY <1>14
  <2> QED BY <1>5, <1>7, <1>9, <1>11, <1>13, <2>1
<1>16. PICK P : P = Past(taken, dropped, queue, channel)
  OBVIOUS
<1>17. Readable(connector, socket, ticker_state, book, books, P)
  BY <1>2, <1>16 DEF IInv, SessionOK
<1>18. PICK w : w = ticker_state'
  OBVIOUS
<1>19. /\ v \in books /\ NotAfter(P, {v}) /\ NotAfter({v}, {book})
       /\ Readable(connector, Tail(socket), w, book, books, P \cup {v})
  <2>1. PICK k : k = connector
    OBVIOUS
  <2>2. PICK b : b = book
    OBVIOUS
  <2>3. Reading(k, socket, ticker_state, b, books, P, v, w)
    BY <1>2, <1>3, <1>7, <1>9, <1>10, <1>15, <1>17, <1>18, <2>1, <2>2 DEF Reading
  <2> QED BY <2>1, <2>2, <2>3, SessionReads
<1>20. PICK c : c = Append(channel, tick)
  OBVIOUS
<1>21. c \in Seq(Items) /\ c # <<>> /\ Quoted(c) = Quoted(channel) \cup {v}
  BY <1>7, <1>13, <1>20, QuotedAppend
<1>22. Ordered(taken, dropped, queue, channel, book)
  BY DEF IInv, InOrder
<1>23. Ordered(taken, dropped, queue, c, book) /\ Past(taken, dropped, queue, c) = P \cup {v}
  <2>1. MaySend(taken, dropped, queue, channel, tick, book)
    BY <1>7, <1>13, <1>16, <1>19, <1>22 DEF MaySend
  <2>2. Sent(c, taken, dropped, queue, channel, tick, book)
    BY <1>20, <2>1, OrderedSend
  <2> QED BY <1>13, <1>16, <2>2 DEF Sent
<1>24. PICK z : z = channel'
  OBVIOUS
<1>25. z = c \/ z = Append(c, Other)
  <2>1. Other \in Items
    BY ConstantFacts
  <2>2. /\ channel \o <<tick>> = Append(channel, tick)
        /\ channel \o <<tick, Other>> = Append(Append(channel, tick), Other)
    BY <1>7, <1>13, <2>1, JoinIsAppend
  <2> QED BY <1>5, <1>14, <1>20, <1>24, <2>2
<1>26. /\ z \in Seq(Items) /\ z # <<>> /\ Quoted(z) = Quoted(channel) \cup {v}
       /\ Ordered(taken, dropped, queue, z, book)
       /\ Past(taken, dropped, queue, z) = P \cup {v}
  <2>1. CASE z = c
    BY <1>21, <1>23, <2>1
  <2>2. CASE z = Append(c, Other)
    <3>1. Sent(z, taken, dropped, queue, c, Other, book) /\ QuotedBy(Other) = {}
      BY <1>7, <1>21, <1>23, <2>2, OrderedOther
    <3> QED BY <1>21, <1>23, <3>1 DEF Sent
  <2> QED BY <1>25, <2>1, <2>2
<1>27. TypeOK'
  <2>1. socket' \in Seq(Messages)
    BY <1>2, <1>7, SocketTail DEF IsTail
  <2> QED BY <1>1, <1>6, <1>15, <1>24, <1>26, <2>1 DEF TypeOK
<1>28. InOrder'
  BY <1>1, <1>24, <1>26 DEF InOrder
<1>29. Flow'
  <2>1. Quoted(channel') \subseteq books
    BY <1>19, <1>24, <1>26 DEF IInv, Flow
  <2> QED BY <1>1, <1>24, <1>26, <2>1, FlowAfterSend
<1>30. SessionOK'
  <2>1. (Readable(connector, socket, ticker_state, book, books, Past(taken, dropped, queue, channel)))'
    BY <1>1, <1>2, <1>18, <1>19, <1>24, <1>26
  <2> QED BY <2>1 DEF SessionOK
<1>31. OwedKept'
  BY <1>1, SameOwed
<1> QED BY <1>27, <1>28, <1>29, <1>30, <1>31 DEF IInv

(* The worker reads something else.                                        *)
LEMMA ReadOther ==
    ASSUME IInv, Read, Head(socket).topic # "ticker"
    PROVE  IInv'
<1> USE DEF exchangeVars, workerVars, pollerVars, bridgeVars, writerVars, mainVars
<1>1. UNCHANGED <<connector, book, books, worker, queue, taken, dropped, buffer, redis, owed, full, writer, main>>
  BY DEF Read
<1>2. worker = "read" /\ socket # <<>> /\ socket' = Tail(socket)
  BY DEF Read
<1>3. PICK m : m = Head(socket)
  OBVIOUS
<1>4. PICK out : out = Publish(m.topic, m.quote)
  OBVIOUS
<1>5. channel' = channel \o out /\ ticker_state' = ticker_state
  BY <1>3, <1>4 DEF Read
<1>6. TypeOK
  BY DEF IInv
<1>7. /\ ticker_state \in Quotes
      /\ queue \in Seq(Items) /\ channel \in Seq(Items) /\ socket \in Seq(Messages)
      /\ connector \in Connectors
  BY <1>6 DEF TypeOK
<1>8. out \in {<<>>, <<Other>>}
  BY <1>3, <1>4, <1>7, PublishIs
<1>9. PICK P : P = Past(taken, dropped, queue, channel)
  OBVIOUS
<1>10. Readable(connector, socket, ticker_state, book, books, P)
  BY <1>2, <1>9 DEF IInv, SessionOK
<1>11. Readable(connector, Tail(socket), ticker_state, book, books, P)
  BY <1>2, <1>7, <1>10, SessionSkips
<1>12. Ordered(taken, dropped, queue, channel, book)
  BY DEF IInv, InOrder
<1>13. PICK z : z = channel'
  OBVIOUS
<1>14. z = channel \/ z = Append(channel, Other)
  BY <1>5, <1>7, <1>8, <1>13, JoinIsAppend, ConstantFacts
<1>15. /\ z \in Seq(Items) /\ (z # <<>> \/ z = channel) /\ Quoted(z) = Quoted(channel)
       /\ Ordered(taken, dropped, queue, z, book)
       /\ Past(taken, dropped, queue, z) = P
  <2>1. CASE z = channel
    BY <1>7, <1>9, <1>12, <2>1
  <2>2. CASE z = Append(channel, Other)
    <3>1. Sent(z, taken, dropped, queue, channel, Other, book) /\ QuotedBy(Other) = {}
      BY <1>7, <1>12, <2>2, OrderedOther
    <3> QED BY <1>9, <3>1 DEF Sent
  <2> QED BY <1>14, <2>1, <2>2
<1>16. TypeOK'
  <2>1. socket' \in Seq(Messages)
    BY <1>2, <1>7, SocketTail DEF IsTail
  <2> QED BY <1>1, <1>5, <1>6, <1>13, <1>15, <2>1 DEF TypeOK
<1>17. InOrder'
  BY <1>1, <1>13, <1>15 DEF InOrder
<1>18. Flow'
  <2>1. Quoted(channel') \subseteq books
    BY <1>13, <1>15 DEF IInv, Flow
  <2> QED BY <1>1, <1>13, <1>15, <2>1, FlowAfterSend
<1>19. SessionOK'
  <2>1. (Readable(connector, socket, ticker_state, book, books, Past(taken, dropped, queue, channel)))'
    BY <1>1, <1>2, <1>5, <1>11, <1>13, <1>15
  <2> QED BY <2>1 DEF SessionOK
<1>20. OwedKept'
  BY <1>1, SameOwed
<1> QED BY <1>16, <1>17, <1>18, <1>19, <1>20 DEF IInv

(* The open-interest poller sends.                                         *)
LEMMA PollStep ==
    ASSUME IInv, Poll
    PROVE  IInv'
<1> USE DEF exchangeVars, workerVars, pollerVars, bridgeVars, writerVars, mainVars
<1>1. UNCHANGED <<connector, book, books, socket, ticker_state, worker, queue, taken, dropped, buffer, redis,
                  owed, full, writer, main>>
  BY DEF Poll
<1>2. PICK z : z = channel'
  OBVIOUS
<1>3. z = Append(channel, Other)
  BY <1>2 DEF Poll
<1>4. queue \in Seq(Items) /\ channel \in Seq(Items)
  BY DEF IInv, TypeOK
<1>5. Ordered(taken, dropped, queue, channel, book)
  BY DEF IInv, InOrder
<1>6. /\ z \in Seq(Items) /\ z # <<>> /\ Quoted(z) = Quoted(channel)
      /\ Ordered(taken, dropped, queue, z, book)
      /\ Past(taken, dropped, queue, z) = Past(taken, dropped, queue, channel)
  <2>1. Sent(z, taken, dropped, queue, channel, Other, book) /\ QuotedBy(Other) = {}
    BY <1>3, <1>4, <1>5, OrderedOther
  <2> QED BY <2>1 DEF Sent
<1>7. TypeOK'
  BY <1>1, <1>2, <1>6 DEF IInv, TypeOK
<1>8. InOrder'
  BY <1>1, <1>2, <1>6 DEF InOrder
<1>9. Flow'
  <2>1. Quoted(channel') \subseteq books
    BY <1>2, <1>6 DEF IInv, Flow
  <2> QED BY <1>1, <1>2, <1>6, <2>1, FlowAfterSend
<1>10. SessionOK'
  BY <1>1, <1>2, <1>6, SameSession DEF marketVars, sessionVars
<1>11. OwedKept'
  BY <1>1, SameOwed
<1> QED BY <1>7, <1>8, <1>9, <1>10, <1>11 DEF IInv

-----------------------------------------------------------------------------
(* The bridge and the writer.                                              *)

(* What is owed survives a push.                                           *)
LEMMA HoldsPush ==
    ASSUME NEW o \in Quotes, NEW t, NEW d, NEW q \in Seq(Items), NEW x \in Items, NEW w,
           Kept(o, Holds(t, d, q, w))
    PROVE  Kept(o, Holds(t, d, Append(q, x), w))
<1>1. Quoted(Append(q, x)) = Quoted(q) \cup QuotedBy(x)
  BY QuotedAppend
<1> QED BY <1>1 DEF Kept, Holds

(* What is owed survives a pop and a drop.                                 *)
LEMMA HoldsPop ==
    ASSUME NEW o \in Quotes, NEW t \in Quotes, NEW d \in Quotes, NEW q \in Seq(Items), q # <<>>, NEW w,
           NEW c \in Seq(Items), NEW b, Ordered(t, d, q, c, b), Kept(o, Holds(t, d, q, w))
    PROVE  /\ Kept(o, Holds(LastTicker(<<Head(q)>>, t), d, Tail(q), w))
           /\ Kept(o, Holds(t, LastTicker(<<Head(q)>>, d), Tail(q), w))
<1>1. PICK x : x = Head(q)
  OBVIOUS
<1>2. PICK r : r = Tail(q)
  OBVIOUS
<1>3. x \in Items /\ r \in Seq(Items)
  BY <1>1, <1>2, TickersOfTail
<1>4. Quoted(q) = QuotedBy(x) \cup Quoted(r)
  BY <1>1, <1>2, QuotedHeadTail
<1>5. PICK t2 : t2 = LastTicker(<<x>>, t)
  OBVIOUS
<1>6. PICK d2 : d2 = LastTicker(<<x>>, d)
  OBVIOUS
<1>7. /\ t2 \in {t} \cup QuotedBy(x) /\ QuotedBy(x) \subseteq {t2}
      /\ d2 \in {d} \cup QuotedBy(x) /\ QuotedBy(x) \subseteq {d2}
  BY <1>3, <1>5, <1>6, OneIsQuoted
<1>8. Version(t) <= Version(t2) /\ Version(d) <= Version(d2)
  BY <1>1, <1>5, <1>6, OrderedPop
<1>9. PICK y \in Holds(t, d, q, w) : Version(o) <= Version(y)
  BY DEF Kept
<1>10. y = t \/ y = d \/ (y \in QuotedBy(x) /\ w # "left") \/ (y \in Quoted(r) /\ w # "left")
  BY <1>4, <1>9 DEF Holds
<1>11. t2 \in Quotes /\ d2 \in Quotes
  BY <1>3, <1>7, QuotedAreQuotes
<1>12. /\ Version(o) \in Nat /\ Version(t) \in Nat /\ Version(d) \in Nat /\ Version(t2) \in Nat
       /\ Version(d2) \in Nat
  BY <1>11, VersionIsNat
<1>13. Kept(o, Holds(t2, d, r, w))
  <2>1. /\ t2 \in Holds(t2, d, r, w) /\ d \in Holds(t2, d, r, w)
        /\ (w # "left" => Quoted(r) \subseteq Holds(t2, d, r, w))
    BY DEF Holds
  <2>2. CASE y = t
    <3>1. Version(o) <= Version(t2)
      BY <1>8, <1>9, <1>12, <2>2
    <3> QED BY <2>1, <3>1 DEF Kept
  <2>3. CASE y = d
    BY <1>9, <2>1, <2>3 DEF Kept
  <2>4. CASE y \in QuotedBy(x)
    <3>1. y = t2
      BY <1>7, <2>4
    <3> QED BY <1>9, <2>1, <3>1 DEF Kept
  <2>5. CASE y \in Quoted(r) /\ w # "left"
    BY <1>9, <2>1, <2>5 DEF Kept
  <2> QED BY <1>10, <2>2, <2>3, <2>4, <2>5
<1>14. Kept(o, Holds(t, d2, r, w))
  <2>1. /\ t \in Holds(t, d2, r, w) /\ d2 \in Holds(t, d2, r, w)
        /\ (w # "left" => Quoted(r) \subseteq Holds(t, d2, r, w))
    BY DEF Holds
  <2>2. CASE y = t
    BY <1>9, <2>1, <2>2 DEF Kept
  <2>3. CASE y = d
    <3>1. Version(o) <= Version(d2)
      BY <1>8, <1>9, <1>12, <2>3
    <3> QED BY <2>1, <3>1 DEF Kept
  <2>4. CASE y \in QuotedBy(x)
    <3>1. y = d2
      BY <1>7, <2>4
    <3> QED BY <1>9, <2>1, <3>1 DEF Kept
  <2>5. CASE y \in Quoted(r) /\ w # "left"
    BY <1>9, <2>1, <2>5 DEF Kept
  <2> QED BY <1>10, <2>2, <2>3, <2>4, <2>5
<1> QED BY <1>1, <1>2, <1>5, <1>6, <1>13, <1>14

(* The bridge moves the head of the channel c behind q, with d dropped.    *)
BridgeTo(q, d) ==
    /\ q \in Seq(Items) /\ d \in Quotes
    /\ Ordered(taken, d, q, channel, book)
    /\ Past(taken, d, q, channel) \subseteq Past(taken, dropped, queue, channel)
    /\ Quoted(q) \subseteq books
    /\ Kept(owed, Holds(taken, d, q, writer))

(* A push of the head of the channel keeps the invariant.                  *)
LEMMA BridgeStep ==
    ASSUME IInv, NEW q, NEW d, BridgeTo(q, d), channel # <<>>,
           UNCHANGED <<marketVars, sessionVars, taken, buffer, redis, owed, writer, main>>,
           queue' = Append(q, Head(channel)), channel' = Tail(channel), dropped' = d, ~full'
    PROVE  IInv'
<1>1. /\ q \in Seq(Items) /\ d \in Quotes
      /\ Ordered(taken, d, q, channel, book)
      /\ Past(taken, d, q, channel) \subseteq Past(taken, dropped, queue, channel)
      /\ Quoted(q) \subseteq books
      /\ Kept(owed, Holds(taken, d, q, writer))
  BY DEF BridgeTo
<1>2. /\ channel \in Seq(Items) /\ owed \in Quotes
      /\ Quoted(channel) \subseteq books
  BY DEF IInv, TypeOK, Flow
<1>3. PICK c : c = Tail(channel)
  OBVIOUS
<1>4. PICK x : x = Head(channel)
  OBVIOUS
<1>5. PICK a : a = Append(q, x)
  OBVIOUS
<1>6. x \in Items /\ c \in Seq(Items) /\ Quoted(channel) = QuotedBy(x) \cup Quoted(c)
  BY <1>2, <1>3, <1>4, TickersOfTail, QuotedHeadTail
<1>7. a \in Seq(Items) /\ Quoted(a) = Quoted(q) \cup QuotedBy(x)
  BY <1>1, <1>5, <1>6, QuotedAppend
<1>8. queue' = a /\ channel' = c
  BY <1>3, <1>4, <1>5
<1>9. Ordered(taken, d, a, c, book) /\ Past(taken, d, a, c) = Past(taken, d, q, channel)
  BY <1>1, <1>2, <1>3, <1>4, <1>5, OrderedPush
<1>10. TypeOK'
  BY <1>1, <1>6, <1>7, <1>8 DEF IInv, TypeOK, marketVars, sessionVars
<1>11. InOrder'
  BY <1>8, <1>9 DEF InOrder, marketVars
<1>12. Flow'
  <2>1. Quoted(queue') \subseteq books /\ Quoted(channel') \subseteq books
    BY <1>1, <1>2, <1>6, <1>7, <1>8
  <2> QED BY <2>1 DEF IInv, Flow, marketVars, Requested
<1>13. SessionOK'
  <2>1. Past(taken, dropped, queue, channel)' \subseteq Past(taken, dropped, queue, channel)
    BY <1>1, <1>8, <1>9
  <2> QED BY <2>1, SameSession
<1>14. Kept(owed, Holds(taken, d, a, writer))
  BY <1>1, <1>2, <1>5, <1>6, HoldsPush
<1>15. OwedKept'
  BY <1>8, <1>14 DEF OwedKept
<1> QED BY <1>10, <1>11, <1>12, <1>13, <1>15 DEF IInv

(* The two ways in which the bridge pushes.                                *)
LEMMA BridgeSteps ==
    ASSUME IInv, BridgePush \/ BridgeDropAndPush
    PROVE  IInv'
<1> USE DEF exchangeVars, workerVars, pollerVars, bridgeVars, writerVars, mainVars, marketVars, sessionVars
<1>1. /\ queue \in Seq(Items) /\ channel \in Seq(Items) /\ dropped \in Quotes /\ taken \in Quotes
      /\ owed \in Quotes
  BY DEF IInv, TypeOK
<1>2. /\ Ordered(taken, dropped, queue, channel, book) /\ Quoted(queue) \subseteq books
      /\ Kept(owed, Holds(taken, dropped, queue, writer))
  BY DEF IInv, InOrder, Flow, OwedKept
<1>3. BridgeTo(queue, dropped)
  BY <1>1, <1>2 DEF BridgeTo
<1>4. CASE BridgePush
  BY <1>3, <1>4, BridgeStep DEF BridgePush
<1>5. CASE BridgeDropAndPush /\ queue = <<>>
  <2>1. channel # <<>>
    BY <1>5 DEF BridgeDropAndPush, IInv, Flow
  <2> QED BY <1>3, <1>5, <2>1, BridgeStep DEF BridgeDropAndPush
<1>6. CASE BridgeDropAndPush /\ queue # <<>>
  <2>1. channel # <<>>
    BY <1>6 DEF BridgeDropAndPush, IInv, Flow
  <2>2. PICK q : q = Tail(queue)
    OBVIOUS
  <2>3. PICK x : x = Head(queue)
    OBVIOUS
  <2>4. PICK d : d = LastTicker(<<x>>, dropped)
    OBVIOUS
  <2>5. x \in Items /\ q \in Seq(Items) /\ Quoted(queue) = QuotedBy(x) \cup Quoted(q)
    BY <1>1, <1>6, <2>2, <2>3, TickersOfTail, QuotedHeadTail
  <2>6. d \in Quotes
    BY <1>1, <2>4, <2>5, OneIsQuoted, QuotedAreQuotes
  <2>7. /\ Ordered(taken, d, q, channel, book)
        /\ Past(taken, d, q, channel) \subseteq Past(taken, dropped, queue, channel)
    BY <1>1, <1>2, <1>6, <2>2, <2>3, <2>4, OrderedPop
  <2>8. Kept(owed, Holds(taken, d, q, writer))
    BY <1>1, <1>2, <1>6, <2>2, <2>3, <2>4, HoldsPop
  <2>9. BridgeTo(q, d)
    BY <1>2, <2>5, <2>6, <2>7, <2>8 DEF BridgeTo
  <2>10. /\ queue' = Append(q, Head(channel)) /\ dropped' = d /\ channel' = Tail(channel) /\ ~full'
    BY <1>6, <2>2, <2>3, <2>4 DEF BridgeDropAndPush
  <2>11. UNCHANGED <<marketVars, sessionVars, taken, buffer, redis, owed, writer, main>>
    BY <1>6 DEF BridgeDropAndPush
  <2> QED BY <2>1, <2>9, <2>10, <2>11, BridgeStep
<1> QED BY <1>4, <1>5, <1>6

(* The writer has taken t, the last ticker of its batch, and left q.       *)
WriterTo(q, t, batch) ==
    /\ q \in Seq(Items) /\ t \in Quotes /\ batch \in Seq(Items)
    /\ Ordered(t, dropped, q, channel, book)
    /\ Past(t, dropped, q, channel) \subseteq Past(taken, dropped, queue, channel)
    /\ Quoted(q) \subseteq books /\ Quoted(batch) \subseteq books
    /\ t = LastTicker(batch, redis)
    /\ Kept(owed, Holds(t, dropped, q, writer))

(* The writer then flushes that batch or leaves it in its buffer.          *)
LEMMA WriterStep ==
    ASSUME IInv, NEW q, NEW t, NEW batch, WriterTo(q, t, batch),
           UNCHANGED <<marketVars, sessionVars, channel, dropped, full, owed, main>>,
           queue' = q, taken' = t,
           Flush(batch) \/ (buffer' = batch /\ redis' = redis),
           writer' \in {"drain", "left"} => Requested,
           writer' = "left" => writer = "left" \/ q = <<>>
    PROVE  IInv'
<1>1. /\ q \in Seq(Items) /\ t \in Quotes /\ batch \in Seq(Items)
      /\ Ordered(t, dropped, q, channel, book)
      /\ Past(t, dropped, q, channel) \subseteq Past(taken, dropped, queue, channel)
      /\ Quoted(q) \subseteq books /\ Quoted(batch) \subseteq books
      /\ t = LastTicker(batch, redis)
      /\ Kept(owed, Holds(t, dropped, q, writer))
  BY DEF WriterTo
<1>2. /\ buffer' \in {<<>>, batch}
      /\ redis' \in {redis} \cup Quoted(batch)
      /\ LastTicker(buffer', redis') = LastTicker(batch, redis)
  BY <1>1, FlushKeeps
<1>3. Quoted(buffer') \subseteq books /\ buffer' \in Seq(Items)
  BY <1>1, <1>2, EmptyQuotes, ConstantFacts
<1>4. redis \in books \cup {NoData} /\ books \subseteq Quotes
  BY DEF IInv, Flow, TypeOK
<1>5. redis' \in books \cup {NoData} /\ redis' \in Quotes
  BY <1>1, <1>2, <1>4, ConstantFacts
<1>6. TypeOK'
  BY <1>1, <1>3, <1>5 DEF IInv, TypeOK, marketVars, sessionVars
<1>7. InOrder'
  BY <1>1 DEF InOrder, marketVars
<1>8. Flow'
  <2>1. (Quoted(channel) \cup Quoted(queue) \cup Quoted(buffer))' \subseteq books'
    BY <1>1, <1>3 DEF IInv, Flow, marketVars
  <2>2. redis' \in books' \cup {NoData}
    BY <1>5 DEF marketVars
  <2>3. (taken = LastTicker(buffer, redis))'
    BY <1>1, <1>2
  <2>4. (full => channel # <<>>)'
    BY DEF IInv, Flow
  <2>5. (writer \in {"drain", "left"} => Requested)'
    BY DEF Requested
  <2> QED BY <2>1, <2>2, <2>3, <2>4, <2>5 DEF Flow
<1>9. SessionOK'
  <2>1. Past(taken, dropped, queue, channel)' \subseteq Past(taken, dropped, queue, channel)
    BY <1>1
  <2> QED BY <2>1, SameSession
<1>10. OwedKept'
  <2>1. PICK w : w = writer'
    OBVIOUS
  <2>2. Kept(owed, Holds(t, dropped, q, w))
    <3>1. CASE w = "left" /\ writer # "left"
      <4>1. Quoted(q) = {}
        BY <2>1, <3>1, EmptyQuotes
      <4> QED BY <1>1, <3>1, <4>1 DEF Holds
    <3>2. CASE (w = "left") = (writer = "left")
      BY <1>1, <3>2 DEF Holds
    <3>3. CASE w # "left" /\ writer = "left"
      BY <1>1, <3>3 DEF Holds, Kept
    <3> QED BY <3>1, <3>2, <3>3
  <2> QED BY <2>1, <2>2 DEF OwedKept
<1> QED BY <1>6, <1>7, <1>8, <1>9, <1>10 DEF IInv

(* What the writer has before it pops, and after.                          *)
LEMMA WriterHas ==
    ASSUME IInv
    PROVE  /\ WriterTo(queue, taken, buffer)
           /\ queue # <<>> => WriterTo(Tail(queue), LastTicker(<<Head(queue)>>, taken), Append(buffer, Head(queue)))
<1>1. /\ queue \in Seq(Items) /\ channel \in Seq(Items) /\ dropped \in Quotes /\ taken \in Quotes
      /\ owed \in Quotes /\ buffer \in Seq(Items)
  BY DEF IInv, TypeOK
<1>2. /\ Ordered(taken, dropped, queue, channel, book)
      /\ Quoted(queue) \subseteq books /\ Quoted(buffer) \subseteq books
      /\ taken = LastTicker(buffer, redis)
      /\ Kept(owed, Holds(taken, dropped, queue, writer))
  BY DEF IInv, InOrder, Flow, OwedKept
<1>3. WriterTo(queue, taken, buffer)
  BY <1>1, <1>2 DEF WriterTo
<1>4. ASSUME queue # <<>>
      PROVE  WriterTo(Tail(queue), LastTicker(<<Head(queue)>>, taken), Append(buffer, Head(queue)))
  <2>1. PICK q : q = Tail(queue)
    OBVIOUS
  <2>2. PICK x : x = Head(queue)
    OBVIOUS
  <2>3. PICK t : t = LastTicker(<<x>>, taken)
    OBVIOUS
  <2>4. PICK a : a = Append(buffer, x)
    OBVIOUS
  <2>5. x \in Items /\ q \in Seq(Items) /\ Quoted(queue) = QuotedBy(x) \cup Quoted(q)
    BY <1>1, <1>4, <2>1, <2>2, TickersOfTail, QuotedHeadTail
  <2>6. t \in Quotes
    BY <1>1, <2>3, <2>5, OneIsQuoted, QuotedAreQuotes
  <2>7. /\ Ordered(t, dropped, q, channel, book)
        /\ Past(t, dropped, q, channel) \subseteq Past(taken, dropped, queue, channel)
    BY <1>1, <1>2, <1>4, <2>1, <2>2, <2>3, OrderedPop
  <2>8. Kept(owed, Holds(t, dropped, q, writer))
    BY <1>1, <1>2, <1>4, <2>1, <2>2, <2>3, HoldsPop
  <2>9. a \in Seq(Items) /\ Quoted(a) = Quoted(buffer) \cup QuotedBy(x)
    BY <1>1, <2>4, <2>5, QuotedAppend
  <2>10. t = LastTicker(a, redis)
    BY <1>1, <1>2, <2>3, <2>4, <2>5, LastIsFold
  <2>11. Quoted(q) \subseteq books /\ Quoted(a) \subseteq books
    BY <1>2, <2>5, <2>9
  <2>12. WriterTo(q, t, a)
    BY <2>5, <2>6, <2>7, <2>8, <2>9, <2>10, <2>11 DEF WriterTo
  <2> QED BY <2>1, <2>2, <2>3, <2>4, <2>12
<1> QED BY <1>3, <1>4

(* The writer pops, in a tick and in the drain.                            *)
LEMMA PopSteps ==
    ASSUME IInv, TickPop \/ DrainPop
    PROVE  IInv'
<1> USE DEF exchangeVars, workerVars, pollerVars, bridgeVars, writerVars, mainVars, marketVars, sessionVars
<1>1. PICK q : q = Tail(queue)
  OBVIOUS
<1>2. PICK t : t = LastTicker(<<Head(queue)>>, taken)
  OBVIOUS
<1>3. PICK a : a = Append(buffer, Head(queue))
  OBVIOUS
<1>4. queue # <<>> /\ queue' = q /\ taken' = t /\ UNCHANGED <<full, dropped>>
  BY <1>1, <1>2 DEF TickPop, DrainPop, PopItem
<1>5. WriterTo(q, t, a)
  BY <1>1, <1>2, <1>3, <1>4, WriterHas
<1>6. UNCHANGED <<marketVars, sessionVars, channel, owed, main, writer>>
  BY DEF TickPop, DrainPop
<1>7. Flush(a) \/ (buffer' = a /\ redis' = redis)
  BY <1>3 DEF TickPop, DrainPop
<1>8. writer \in {"drain", "left"} => Requested
  BY DEF IInv, Flow
<1> QED BY <1>4, <1>5, <1>6, <1>7, <1>8, WriterStep

(* The writer flushes, in a tick and at the end of the drain.              *)
LEMMA FlushSteps ==
    ASSUME IInv, TickFlush \/ DrainEnd
    PROVE  IInv'
<1> USE DEF exchangeVars, workerVars, pollerVars, bridgeVars, writerVars, mainVars, marketVars, sessionVars
<1>1. WriterTo(queue, taken, buffer)
  BY WriterHas
<1>2. UNCHANGED <<marketVars, sessionVars, channel, owed, main, queue, taken, full, dropped>>
  BY DEF TickFlush, DrainEnd
<1>3. PICK a : a = buffer
  OBVIOUS
<1>4. Flush(a) \/ (buffer' = a /\ redis' = redis)
  BY <1>3 DEF TickFlush, DrainEnd
<1>5. writer' \in {"drain", "left"} => Requested
  BY DEF TickFlush, DrainEnd, IInv, Flow
<1>6. writer' = "left" => queue = <<>>
  BY DEF TickFlush, DrainEnd
<1>7. PICK q : q = queue
  OBVIOUS
<1>8. PICK t : t = taken
  OBVIOUS
<1> QED BY <1>1, <1>2, <1>3, <1>4, <1>5, <1>6, <1>7, <1>8, WriterStep

(* The signal: nothing is owed yet that the queue or the writer has not.   *)
LEMMA SignalStep ==
    ASSUME IInv, Signal
    PROVE  IInv'
<1> USE DEF exchangeVars, workerVars, pollerVars, bridgeVars, writerVars, mainVars, marketVars, sessionVars, lineVars
<1>1. UNCHANGED <<marketVars, sessionVars, lineVars, full, writer, buffer, redis>>
  BY DEF Signal
<1>2. PICK o : o = LastTicker(buffer \o queue, redis)
  OBVIOUS
<1>3. owed' = o /\ main = "running" /\ main' = "awaitRunner"
  BY <1>2 DEF Signal
<1>4. buffer \in Seq(Items) /\ queue \in Seq(Items) /\ taken \in Quotes
  BY DEF IInv, TypeOK
<1>5. writer # "left" /\ taken = LastTicker(buffer, redis)
  BY <1>3 DEF IInv, Flow, Requested
<1>6. o \in Quoted(queue) \/ o = taken
  BY <1>2, <1>4, <1>5, LastOfJoin
<1>7. o \in Quotes
  BY <1>4, <1>6, QuotedAreQuotes
<1>8. Kept(o, Holds(taken, dropped, queue, writer))
  <2>1. o \in Holds(taken, dropped, queue, writer)
    BY <1>5, <1>6 DEF Holds
  <2>2. Version(o) <= Version(o)
    BY <1>7, VersionIsNat
  <2> QED BY <2>1, <2>2 DEF Kept
<1>9. OwedKept'
  BY <1>1, <1>3, <1>8 DEF OwedKept
<1>10. TypeOK'
  BY <1>1, <1>3, <1>7 DEF IInv, TypeOK
<1>11. InOrder'
  BY <1>1, SameLine
<1>12. Flow'
  BY <1>1, <1>3 DEF IInv, Flow, Requested
<1>13. SessionOK'
  BY <1>1, SameSession
<1> QED BY <1>9, <1>10, <1>11, <1>12, <1>13 DEF IInv

-----------------------------------------------------------------------------
(* The theorems.                                                           *)

(* The initial state satisfies the inductive invariant.                    *)
LEMMA InitIInv == Init => IInv
<1> SUFFICES ASSUME Init PROVE IInv
  OBVIOUS
<1>1. book \in [1 .. 2 -> Nat \ {0}] /\ books = {book} /\ book \in Quotes
  BY DEF Init, Quotes
<1>2. TypeOK
  <2>1. <<>> \in Seq(Messages) /\ <<>> \in Seq(Items)
    OBVIOUS
  <2> QED BY <1>1, <2>1, ConstantFacts DEF Init, TypeOK
<1>3. InOrder
  <2>1. Past(NoData, NoData, <<>>, <<>>) = {NoData}
    BY EmptyQuotes DEF Past
  <2>2. Version(book) \in Nat
    BY <1>1, VersionIsNat
  <2>3. NotAfter({NoData}, {book})
    BY <2>2, ConstantFacts DEF NotAfter
  <2>4. Ordered(NoData, NoData, <<>>, <<>>, book)
    BY <2>1, <2>3, EmptyQuotes DEF Ordered, NotAfter
  <2> QED BY <2>4 DEF Init, InOrder
<1>4. Flow
  <2>1. LastTicker(<<>>, NoData) = NoData
    BY EmptyQuotes, NoneIsLast
  <2> QED BY <2>1, EmptyQuotes DEF Init, Flow
<1>5. SessionOK
  BY DEF Init, SessionOK
<1>6. OwedKept
  <2>1. NoData \in Holds(NoData, NoData, <<>>, "start") /\ Version(NoData) <= Version(NoData)
    BY ConstantFacts DEF Holds
  <2>2. Kept(NoData, Holds(NoData, NoData, <<>>, "start"))
    BY <2>1 DEF Kept
  <2> QED BY <2>2 DEF Init, OwedKept
<1> QED BY <1>2, <1>3, <1>4, <1>5, <1>6 DEF IInv

(* Every step of the exchange and of the process preserves it.             *)
LEMMA NextIInv == IInv /\ [Next]_vars => IInv'
<1> SUFFICES ASSUME IInv, [Next]_vars PROVE IInv'
  OBVIOUS
<1>1. CASE \E i \in 1 .. 2 : BookChanges(i)
  BY <1>1, BookChangesStep
<1>2. CASE Worker
  <2>1. CASE CheckOk \/ CheckErr \/ CheckRefused
    BY <2>1, QuietSteps
  <2>2. CASE Connect
    BY <2>2, ConnectStep
  <2>3. CASE Read
    BY <2>3, ReadTicker, ReadOther
  <2>4. CASE Disconnected \/ SessionErr
    BY <2>4, SessionEnds
  <2> QED BY <1>2, <2>1, <2>2, <2>3, <2>4 DEF Worker
<1>3. CASE PollerNoRedis \/ Poll
  BY <1>3, QuietSteps, PollStep
<1>4. CASE Bridge
  BY <1>4, QuietSteps, BridgeSteps DEF Bridge
<1>5. CASE Writer
  <2>1. CASE WriterConnect \/ WriterNoRedis
    BY <2>1, QuietSteps
  <2>2. CASE TickPop \/ DrainPop
    BY <2>2, PopSteps
  <2>3. CASE TickFlush \/ DrainEnd
    BY <2>3, FlushSteps
  <2> QED BY <1>5, <2>1, <2>2, <2>3 DEF Writer
<1>6. CASE Signal
  BY <1>6, SignalStep
<1>7. CASE Shutdown
  BY <1>7, QuietSteps
<1>8. CASE UNCHANGED vars
  BY <1>8, QuietSteps
<1> QED BY <1>1, <1>2, <1>3, <1>4, <1>5, <1>6, <1>7, <1>8 DEF Next

(* The tickers on their way are in the order in which the book changed,    *)
(* what is left of the session's socket merges to books the exchange had,  *)
(* and Redis with the buffer holds the last ticker the writer took.        *)
THEOREM InductiveInvariant == Spec => []IInv
BY InitIInv, NextIInv, PTL DEF Spec

(* However the merging of partial updates interleaves with disconnects,    *)
(* drops and repeated flushes, every ticker in the channel, the queue, the *)
(* writer's buffer or Redis is a book that the exchange really had.        *)
THEOREM PublishedStaysReal == Spec => []PublishedIsReal
<1>1. IInv => PublishedIsReal
  <2> SUFFICES ASSUME IInv PROVE PublishedIsReal
    OBVIOUS
  <2>1. /\ channel \in Seq(Items) /\ queue \in Seq(Items) /\ buffer \in Seq(Items)
        /\ Quoted(channel) \cup Quoted(queue) \cup Quoted(buffer) \subseteq books
        /\ redis \in books \cup {NoData}
    BY DEF IInv, TypeOK, Flow
  <2>2. PICK J : J = channel \o queue
    OBVIOUS
  <2>3. J \in Seq(Items) /\ Quoted(J) = Quoted(channel) \cup Quoted(queue)
    BY <2>1, <2>2, QuotedJoin
  <2>4. PICK F : F = J \o buffer
    OBVIOUS
  <2>5. F \in Seq(Items) /\ Quoted(F) = Quoted(J) \cup Quoted(buffer)
    BY <2>1, <2>3, <2>4, QuotedJoin
  <2>6. InFlight = F
    BY <2>2, <2>4 DEF InFlight
  <2>7. ASSUME NEW i \in DOMAIN F, F[i][1] = "ticker" PROVE F[i][2] \in books
    <3>1. i \in Tickers(F)
      BY <2>7 DEF Tickers
    <3>2. F[i][2] \in Quoted(F)
      BY <3>1 DEF Quoted
    <3> QED BY <2>1, <2>3, <2>5, <3>2
  <2> QED BY <2>1, <2>6, <2>7 DEF PublishedIsReal
<1> QED BY <1>1, InductiveInvariant, PTL

(* Whatever part of which flush Redis carried out, an empty buffer means   *)
(* that the key holds the newest ticker the writer popped.                 *)
THEOREM FlushedStaysNewest == Spec => []FlushedIsNewest
<1>1. IInv => FlushedIsNewest
  BY EmptyQuotes, NoneIsLast DEF IInv, Flow, FlushedIsNewest
<1> QED BY <1>1, InductiveInvariant, PTL

(* The larger of two numbers.                                              *)
LEMMA MaxOfTwo ==
    ASSUME NEW a \in Nat, NEW b \in Nat
    PROVE  a <= Max({a, b}) /\ b <= Max({a, b}) /\ Max({a, b}) \in {a, b}
<1>1. \E m \in {a, b} : \A y \in {a, b} : m >= y
  <2>1. CASE a >= b
    BY <2>1
  <2>2. CASE b >= a
    BY <2>2
  <2> QED BY <2>1, <2>2
<1>2. \A y \in {a, b} : Max({a, b}) >= y
  BY <1>1 DEF Max
<1>3. Max({a, b}) \in {a, b}
  BY <1>1 DEF Max
<1> QED BY <1>2, <1>3

(* When the writer has left with its buffer flushed, Redis holds what the  *)
(* queue had accepted when the flag was raised, or something newer, unless *)
(* the queue, full, dropped it or something newer.                         *)
THEOREM ShutdownKeeps == Spec => []ShutdownKeepsAccepted
<1>1. IInv => ShutdownKeepsAccepted
  <2> SUFFICES ASSUME IInv, writer = "left", buffer = <<>>
               PROVE  Version(owed) <= Max({Version(redis), Version(dropped)})
    BY DEF ShutdownKeepsAccepted
  <2>1. redis = taken
    BY EmptyQuotes, NoneIsLast DEF IInv, Flow
  <2>2. Kept(owed, {redis, dropped})
    BY <2>1 DEF IInv, OwedKept, Holds
  <2>3. Version(owed) <= Version(redis) \/ Version(owed) <= Version(dropped)
    BY <2>2 DEF Kept
  <2>4. Version(redis) \in Nat /\ Version(dropped) \in Nat /\ Version(owed) \in Nat
    BY VersionIsNat DEF IInv, TypeOK
  <2>5. PICK m : m = Max({Version(redis), Version(dropped)})
    OBVIOUS
  <2>6. Version(redis) <= m /\ Version(dropped) <= m /\ m \in {Version(redis), Version(dropped)}
    BY <2>4, <2>5, MaxOfTwo
  <2> QED BY <2>3, <2>4, <2>5, <2>6
<1> QED BY <1>1, InductiveInvariant, PTL
=============================================================================
