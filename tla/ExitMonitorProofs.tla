-------------------------- MODULE ExitMonitorProofs --------------------------
(***************************************************************************)
(* Proofs about how monitor_active_positions and check_exits close a       *)
(* trade, for legs of any size, any order books and any number of faults:  *)
(* a leg that stays open was left open by a call that failed, and without  *)
(* faults, races and repetitions each leg is closed exactly.               *)
(***************************************************************************)
EXTENDS ExitMonitor, TLAPS

Order == [live : BOOLEAN, left : 0 .. SIZE]

(* The paths in numbers: how many steps they have, and at which step a     *)
(* leg's exit order is cancelled and has been read, its limit order is     *)
(* placed and its market order sent.                                       *)
Length(p) ==
    CASE p = "none" -> 0 [] p = "poll" -> 2 [] p = "both" -> 1
      [] p \in {"force", "stop"} -> 13 [] p = "hedge_short" -> 7 [] p = "hedge_long" -> 6

Acts(p, leg) ==
    \/ p \in {"force", "stop"}
    \/ p = "hedge_short" /\ leg = "short"
    \/ p = "hedge_long" /\ leg = "long"

CancelAt(p, leg) == IF p \in {"hedge_short", "hedge_long"} THEN 2 ELSE IF leg = "long" THEN 1 ELSE 3
ReadAt(p, leg) == IF p = "hedge_long" THEN 2 ELSE CancelAt(p, leg) + 1
LimitAt(p, leg) ==
    CASE p = "force" -> (IF leg = "long" THEN 5 ELSE 8)
      [] p = "stop" -> (IF leg = "long" THEN 6 ELSE 9)
      [] p = "hedge_short" -> 4
      [] p = "hedge_long" -> 3
MarketAt(p, leg) ==
    CASE p = "force" -> (IF leg = "long" THEN 11 ELSE 12)
      [] p = "stop" -> (IF leg = "long" THEN 12 ELSE 13)
      [] p = "hedge_short" -> 7
      [] p = "hedge_long" -> 6

(* The path goes on after the trade was marked Exiting in it.              *)
PastMark ==
    \/ path = "stop" /\ at > 5
    \/ path \in {"hedge_short", "hedge_long"} /\ at > 1

TypeOK ==
    /\ pos \in [Legs -> Int]
    /\ exit \in [Legs -> Order] /\ limit \in [Legs -> Order]
    /\ stray \in [Legs -> Nat]
    /\ status \in {"Active", "Exiting"} /\ stop_loss_triggered \in BOOLEAN
    /\ path \in {"none", "poll", "both", "force", "stop", "hedge_short", "hedge_long"}
    /\ at \in 0 .. 13 /\ at <= Length(path)
    /\ saw \in SUBSET Legs
    /\ counted \in [Legs -> 0 .. SIZE]
    /\ chk \in {"done", "cancel_long", "cancel_short", "close"}
    /\ booked \in BOOLEAN /\ blocked \in BOOLEAN
    /\ faults \in Nat /\ raced \in BOOLEAN /\ again \in BOOLEAN

(* How the monitor's path, the status and check_exits go together.         *)
Control ==
    /\ status = "Active" => chk = "done" /\ ~booked
    /\ PastMark => chk = "done" /\ status = "Exiting"
    /\ path = "both" => saw = Legs
    /\ path = "hedge_short" => "long" \in saw
    /\ path = "hedge_long" => "short" \in saw
    /\ \A leg \in saw : exit[leg].left = 0
    /\ at # 0 /\ path = "force" /\ ~again => status = "Active"
    /\ at # 0 /\ status = "Exiting" /\ chk = "done" /\ faults = 0 => PastMark

(* What is left of a leg is never more than what is left of its exit       *)
(* order, than what has not been seen closed, and than what is left of the *)
(* limit order the monitor is about to look at.                            *)
Covered ==
    \A leg \in Legs :
        /\ pos[leg] <= exit[leg].left
        /\ pos[leg] <= Remaining(leg)
        /\ at # 0 /\ Acts(path, leg) /\ at = LimitAt(path, leg) + 1 => pos[leg] <= limit[leg].left

(* Without a failed call, at most the tolerated rest of a leg is open once *)
(* its market order has been sent, and of both when the exit is over or    *)
(* check_exits has started to book it.  Filled and hedged exits leave      *)
(* nothing.                                                                *)
Closed ==
    faults = 0 => \A leg \in Legs :
        /\ (\/ at # 0 /\ Acts(path, leg) /\ at > MarketAt(path, leg)
            \/ ExitOver \/ chk # "done" \/ booked) => pos[leg] <= DUST
        /\ ExitOver /\ path \in {"both", "hedge_short", "hedge_long"} => pos[leg] <= 0

(* How far the exit of a leg has come.                                     *)
Stage(leg) ==
    IF ExitOver \/ chk # "done" THEN "shut"
    ELSE IF at = 0 \/ ~Acts(path, leg) \/ at <= CancelAt(path, leg) THEN "open"
    ELSE IF at <= ReadAt(path, leg) THEN "cancelled"
    ELSE IF at <= LimitAt(path, leg) THEN "read"
    ELSE IF at = LimitAt(path, leg) + 1 THEN "look"
    ELSE IF at = LimitAt(path, leg) + 2 THEN "drop"
    ELSE IF at <= MarketAt(path, leg) THEN "rest"
    ELSE "shut"

(* An order that fills no further.                                         *)
Quiet(order) == ~(order.live /\ order.left > 0)

Clean == faults = 0 /\ ~raced /\ ~again

(* In a clean exit what is open of a leg is, at every stage, exactly what  *)
(* is left of the one order that is still to close it.                     *)
LegFits(leg, stage) ==
    /\ stage \in {"open", "cancelled"} => pos[leg] = exit[leg].left /\ Quiet(limit[leg])
    /\ stage \in {"open", "cancelled"} /\ at # 0 => counted[leg] = 0
    /\ stage \notin {"open", "shut"} => ~exit[leg].live
    /\ stage = "read" => pos[leg] = Remaining(leg) /\ Quiet(limit[leg])
    /\ stage = "look" => pos[leg] = limit[leg].left
    /\ stage = "drop" => pos[leg] = limit[leg].left /\ pos[leg] = Remaining(leg)
    /\ stage = "rest" => pos[leg] = Remaining(leg) /\ Quiet(limit[leg])
    /\ stage = "shut" => pos[leg] \in 0 .. DUST /\ Quiet(exit[leg]) /\ Quiet(limit[leg])

Exact ==
    Clean => \A leg \in Legs : stray[leg] = 0 /\ LegFits(leg, Stage(leg))

IInv == TypeOK /\ Control /\ Covered /\ Closed /\ Exact

-----------------------------------------------------------------------------
(* The paths, written out.                                                 *)

Kinds == {"cancel", "read", "limit", "look", "drop", "market", "mark", "poll"}
Calls == Kinds \X {"long", "short", "trade"}

LEMMA Joined ==
  ASSUME NEW s \in Seq(Calls), NEW t \in Seq(Calls)
  PROVE  /\ s \o t \in Seq(Calls) /\ Len(s \o t) = Len(s) + Len(t)
         /\ \A i \in 1 .. Len(s) + Len(t) :
               (s \o t)[i] = IF i <= Len(s) THEN s[i] ELSE t[i - Len(s)]
OBVIOUS

LEMMA AggressiveIs ==
  /\ Aggressive("long") \in Seq(Calls) /\ Len(Aggressive("long")) = 3
  /\ Aggressive("long")[1] = <<"limit", "long">>
  /\ Aggressive("long")[2] = <<"look", "long">>
  /\ Aggressive("long")[3] = <<"drop", "long">>
  /\ Aggressive("short") \in Seq(Calls) /\ Len(Aggressive("short")) = 3
  /\ Aggressive("short")[1] = <<"limit", "short">>
  /\ Aggressive("short")[2] = <<"look", "short">>
  /\ Aggressive("short")[3] = <<"drop", "short">>
<1>1. \A x, y, z \in Calls : <<x, y, z>> \in Seq(Calls)
  OBVIOUS
<1>2. \A what \in Kinds : <<what, "long">> \in Calls /\ <<what, "short">> \in Calls
  BY DEF Calls
<1>3. Aggressive("long") \in Seq(Calls) /\ Aggressive("short") \in Seq(Calls)
  BY <1>1, <1>2 DEF Aggressive, Kinds
<1> QED BY <1>3 DEF Aggressive

LEMMA AggressiveBothIs ==
  /\ AggressiveBoth \in Seq(Calls) /\ Len(AggressiveBoth) = 6
  /\ AggressiveBoth[1] = <<"limit", "long">>
  /\ AggressiveBoth[2] = <<"look", "long">>
  /\ AggressiveBoth[3] = <<"drop", "long">>
  /\ AggressiveBoth[4] = <<"limit", "short">>
  /\ AggressiveBoth[5] = <<"look", "short">>
  /\ AggressiveBoth[6] = <<"drop", "short">>
<1>1. /\ AggressiveBoth \in Seq(Calls) /\ Len(AggressiveBoth) = 6
      /\ \A i \in 1 .. 6 : AggressiveBoth[i] =
            IF i <= 3 THEN Aggressive("long")[i] ELSE Aggressive("short")[i - 3]
  BY AggressiveIs, Joined DEF AggressiveBoth
<1> QED BY <1>1, AggressiveIs

(* y is a, b, c and d one after the other.                                 *)
JoinOf(y, a, b, c, d) ==
    LET m == Len(a)
        n == m + Len(b)
        p == n + Len(c)
        q == p + Len(d)
    IN  /\ Len(y) = q
        /\ \A i \in 1 .. q : y[i] =
              IF i <= m THEN a[i] ELSE IF i <= n THEN b[i - m]
              ELSE IF i <= p THEN c[i - n] ELSE d[i - p]

LEMMA FourJoined ==
  ASSUME NEW a \in Seq(Calls), NEW b \in Seq(Calls), NEW c \in Seq(Calls), NEW d \in Seq(Calls)
  PROVE  JoinOf(((a \o b) \o c) \o d, a, b, c, d)
<1>1. PICK x : x = a \o b
  OBVIOUS
<1>2. /\ x \in Seq(Calls) /\ Len(x) = Len(a) + Len(b)
      /\ \A i \in 1 .. Len(a) + Len(b) : x[i] = IF i <= Len(a) THEN a[i] ELSE b[i - Len(a)]
  BY <1>1, Joined, Zenon
<1>3. PICK y : y = x \o c
  OBVIOUS
<1>4. /\ y \in Seq(Calls) /\ Len(y) = Len(x) + Len(c)
      /\ \A i \in 1 .. Len(x) + Len(c) : y[i] = IF i <= Len(x) THEN x[i] ELSE c[i - Len(x)]
  BY <1>2, <1>3, Joined, Zenon
<1>5. PICK z : z = y \o d
  OBVIOUS
<1>6. /\ z \in Seq(Calls) /\ Len(z) = Len(y) + Len(d)
      /\ \A i \in 1 .. Len(y) + Len(d) : z[i] = IF i <= Len(y) THEN y[i] ELSE d[i - Len(y)]
  BY <1>4, <1>5, Joined, Zenon
<1>7. Len(a) \in Nat /\ Len(b) \in Nat /\ Len(c) \in Nat /\ Len(d) \in Nat
  OBVIOUS
<1>8. JoinOf(z, a, b, c, d)
  BY <1>2, <1>4, <1>6, <1>7 DEF JoinOf
<1> QED BY <1>1, <1>3, <1>5, <1>8

LEMMA TuplesOfCalls ==
  /\ \A x \in Calls : <<x>> \in Seq(Calls)
  /\ \A x, y \in Calls : <<x, y>> \in Seq(Calls)
  /\ \A w, x, y, z \in Calls : <<w, x, y, z>> \in Seq(Calls)
OBVIOUS

LEMMA CallsOfLegs ==
  ASSUME NEW what \in Kinds
  PROVE  <<what, "long">> \in Calls /\ <<what, "short">> \in Calls /\ <<what, "trade">> \in Calls
BY DEF Calls

LEMMA PartsAre ==
  /\ CloseBoth \in Seq(Calls) /\ Len(CloseBoth) = 4
  /\ MarketBoth \in Seq(Calls) /\ Len(MarketBoth) = 2
  /\ Mark \in Seq(Calls) /\ Len(Mark) = 1
<1>1. "cancel" \in Kinds /\ "read" \in Kinds /\ "market" \in Kinds /\ "mark" \in Kinds
  BY DEF Kinds
<1>2. CloseBoth \in Seq(Calls)
  BY <1>1, TuplesOfCalls, CallsOfLegs DEF CloseBoth
<1>3. MarketBoth \in Seq(Calls) /\ Mark \in Seq(Calls)
  BY <1>1, TuplesOfCalls, CallsOfLegs DEF MarketBoth, Mark
<1>4. Len(CloseBoth) = 4 /\ Len(MarketBoth) = 2 /\ Len(Mark) = 1
  BY DEF CloseBoth, MarketBoth, Mark
<1> QED BY <1>2, <1>3, <1>4

LEMMA ForceSteps ==
  /\ Len(Steps("force")) = 13
  /\ Steps("force")[1] = <<"cancel", "long">>
  /\ Steps("force")[2] = <<"read", "long">>
  /\ Steps("force")[3] = <<"cancel", "short">>
  /\ Steps("force")[4] = <<"read", "short">>
  /\ Steps("force")[5] = <<"limit", "long">>
  /\ Steps("force")[6] = <<"look", "long">>
  /\ Steps("force")[7] = <<"drop", "long">>
  /\ Steps("force")[8] = <<"limit", "short">>
  /\ Steps("force")[9] = <<"look", "short">>
  /\ Steps("force")[10] = <<"drop", "short">>
  /\ Steps("force")[11] = <<"market", "long">>
  /\ Steps("force")[12] = <<"market", "short">>
  /\ Steps("force")[13] = <<"mark", "trade">>
<1>1. PICK y : y = ((CloseBoth \o AggressiveBoth) \o MarketBoth) \o Mark
  OBVIOUS
<1>2. y = Steps("force")
  BY <1>1 DEF Steps
<1>3. /\ CloseBoth \in Seq(Calls) /\ AggressiveBoth \in Seq(Calls)
      /\ MarketBoth \in Seq(Calls) /\ Mark \in Seq(Calls)
      /\ Len(CloseBoth) = 4 /\ Len(AggressiveBoth) = 6 /\ Len(MarketBoth) = 2 /\ Len(Mark) = 1
  BY PartsAre, AggressiveBothIs
<1>4. JoinOf(y, CloseBoth, AggressiveBoth, MarketBoth, Mark)
  BY <1>1, <1>3, FourJoined, Zenon
<1>5. Len(y) = 13 /\ \A i \in 1 .. 13 : y[i] =
         IF i <= 4 THEN CloseBoth[i] ELSE IF i <= 10 THEN AggressiveBoth[i - 4]
         ELSE IF i <= 12 THEN MarketBoth[i - 10] ELSE Mark[i - 12]
  BY <1>3, <1>4 DEF JoinOf
<1> QED BY <1>2, <1>5, AggressiveBothIs DEF CloseBoth, MarketBoth, Mark

LEMMA StopSteps ==
  /\ Len(Steps("stop")) = 13
  /\ Steps("stop")[1] = <<"cancel", "long">>
  /\ Steps("stop")[2] = <<"read", "long">>
  /\ Steps("stop")[3] = <<"cancel", "short">>
  /\ Steps("stop")[4] = <<"read", "short">>
  /\ Steps("stop")[5] = <<"mark", "trade">>
  /\ Steps("stop")[6] = <<"limit", "long">>
  /\ Steps("stop")[7] = <<"look", "long">>
  /\ Steps("stop")[8] = <<"drop", "long">>
  /\ Steps("stop")[9] = <<"limit", "short">>
  /\ Steps("stop")[10] = <<"look", "short">>
  /\ Steps("stop")[11] = <<"drop", "short">>
  /\ Steps("stop")[12] = <<"market", "long">>
  /\ Steps("stop")[13] = <<"market", "short">>
<1>1. PICK y : y = ((CloseBoth \o Mark) \o AggressiveBoth) \o MarketBoth
  OBVIOUS
<1>2. y = Steps("stop")
  BY <1>1 DEF Steps
<1>3. /\ CloseBoth \in Seq(Calls) /\ Mark \in Seq(Calls)
      /\ AggressiveBoth \in Seq(Calls) /\ MarketBoth \in Seq(Calls)
      /\ Len(CloseBoth) = 4 /\ Len(Mark) = 1 /\ Len(AggressiveBoth) = 6 /\ Len(MarketBoth) = 2
  BY PartsAre, AggressiveBothIs
<1>4. JoinOf(y, CloseBoth, Mark, AggressiveBoth, MarketBoth)
  BY <1>1, <1>3, FourJoined, Zenon
<1>5. Len(y) = 13 /\ \A i \in 1 .. 13 : y[i] =
         IF i <= 4 THEN CloseBoth[i] ELSE IF i <= 5 THEN Mark[i - 4]
         ELSE IF i <= 11 THEN AggressiveBoth[i - 5] ELSE MarketBoth[i - 11]
  BY <1>3, <1>4 DEF JoinOf
<1> QED BY <1>2, <1>5, AggressiveBothIs DEF CloseBoth, MarketBoth, Mark

LEMMA HedgeShortSteps ==
  /\ Len(Steps("hedge_short")) = 7
  /\ Steps("hedge_short")[1] = <<"mark", "trade">>
  /\ Steps("hedge_short")[2] = <<"cancel", "short">>
  /\ Steps("hedge_short")[3] = <<"read", "short">>
  /\ Steps("hedge_short")[4] = <<"limit", "short">>
  /\ Steps("hedge_short")[5] = <<"look", "short">>
  /\ Steps("hedge_short")[6] = <<"drop", "short">>
  /\ Steps("hedge_short")[7] = <<"market", "short">>
<1> DEFINE first == << <<"cancel", "short">>, <<"read", "short">> >>
           rest == Aggressive("short")
           last == << <<"market", "short">> >>
<1>1. PICK y : y = ((Mark \o first) \o rest) \o last
  OBVIOUS
<1>2. y = Steps("hedge_short")
  BY <1>1 DEF Steps
<1>3. /\ Mark \in Seq(Calls) /\ first \in Seq(Calls)
      /\ rest \in Seq(Calls) /\ last \in Seq(Calls)
      /\ Len(Mark) = 1 /\ Len(first) = 2 /\ Len(rest) = 3 /\ Len(last) = 1
  <2>1. first \in Seq(Calls) /\ last \in Seq(Calls)
    BY TuplesOfCalls, CallsOfLegs DEF Kinds
  <2>2. Len(first) = 2 /\ Len(last) = 1
    OBVIOUS
  <2> QED BY <2>1, <2>2, PartsAre, AggressiveIs
<1>4. JoinOf(y, Mark, first, rest, last)
  BY <1>1, <1>3, FourJoined, Zenon
<1> HIDE DEF first, rest, last
<1>5. Len(y) = 7 /\ \A i \in 1 .. 7 : y[i] =
         IF i <= 1 THEN Mark[i] ELSE IF i <= 3 THEN first[i - 1]
         ELSE IF i <= 6 THEN rest[i - 3] ELSE last[i - 6]
  BY <1>3, <1>4 DEF JoinOf
<1> QED BY <1>2, <1>5, AggressiveIs DEF Mark, first, rest, last

LEMMA HedgeLongSteps ==
  /\ Len(Steps("hedge_long")) = 6
  /\ Steps("hedge_long")[1] = <<"mark", "trade">>
  /\ Steps("hedge_long")[2] = <<"cancel", "long">>
  /\ Steps("hedge_long")[3] = <<"limit", "long">>
  /\ Steps("hedge_long")[4] = <<"look", "long">>
  /\ Steps("hedge_long")[5] = <<"drop", "long">>
  /\ Steps("hedge_long")[6] = <<"market", "long">>
<1> DEFINE first == << <<"cancel", "long">> >>
           rest == Aggressive("long")
           last == << <<"market", "long">> >>
<1>1. PICK y : y = ((Mark \o first) \o rest) \o last
  OBVIOUS
<1>2. y = Steps("hedge_long")
  BY <1>1 DEF Steps
<1>3. /\ Mark \in Seq(Calls) /\ first \in Seq(Calls)
      /\ rest \in Seq(Calls) /\ last \in Seq(Calls)
      /\ Len(Mark) = 1 /\ Len(first) = 1 /\ Len(rest) = 3 /\ Len(last) = 1
  <2>1. first \in Seq(Calls) /\ last \in Seq(Calls)
    BY TuplesOfCalls, CallsOfLegs DEF Kinds
  <2>2. Len(first) = 1 /\ Len(last) = 1
    OBVIOUS
  <2> QED BY <2>1, <2>2, PartsAre, AggressiveIs
<1>4. JoinOf(y, Mark, first, rest, last)
  BY <1>1, <1>3, FourJoined, Zenon
<1> HIDE DEF first, rest, last
<1>5. Len(y) = 6 /\ \A i \in 1 .. 6 : y[i] =
         IF i <= 1 THEN Mark[i] ELSE IF i <= 2 THEN first[i - 1]
         ELSE IF i <= 5 THEN rest[i - 2] ELSE last[i - 5]
  BY <1>3, <1>4 DEF JoinOf
<1> QED BY <1>2, <1>5, AggressiveIs DEF Mark, first, rest, last

LEMMA ShortSteps ==
  /\ Len(Steps("poll")) = 2
  /\ Steps("poll")[1] = <<"poll", "long">>
  /\ Steps("poll")[2] = <<"poll", "short">>
  /\ Len(Steps("both")) = 1
  /\ Steps("both")[1] = <<"mark", "trade">>
BY DEF Steps, Mark

(* Where in its path the monitor is when it does something.                *)
Position(what, leg) ==
    /\ Len(Steps(path)) = Length(path)
    /\ what = "poll" => path = "poll" /\ at = IF leg = "long" THEN 1 ELSE 2
    /\ what = "mark" => \/ path \in {"both", "hedge_short", "hedge_long"} /\ at = 1
                        \/ path = "force" /\ at = 13
                        \/ path = "stop" /\ at = 5
    /\ what \in {"cancel", "read", "limit", "look", "drop", "market"} => Acts(path, leg)
    /\ what = "cancel" => at = CancelAt(path, leg)
    /\ what = "read" => at = ReadAt(path, leg) /\ path # "hedge_long"
    /\ what = "limit" => at = LimitAt(path, leg)
    /\ what = "look" => at = LimitAt(path, leg) + 1
    /\ what = "drop" => at = LimitAt(path, leg) + 2
    /\ what = "market" => at = MarketAt(path, leg)

LEMMA Positions ==
  ASSUME TypeOK, NEW what, NEW leg, Doing(what, leg)
  PROVE  Position(what, leg)
<1> USE DEF Position, Length, Acts, CancelAt, ReadAt, LimitAt, MarketAt
<1>1. at \in 1 .. 13 /\ at <= Length(path) /\ Steps(path)[at] = <<what, leg>>
  BY DEF TypeOK, Doing
<1>2. CASE path = "poll"
  BY <1>1, <1>2, ShortSteps
<1>3. CASE path = "both"
  BY <1>1, <1>3, ShortSteps
<1>4. CASE path = "force"
  <2>1. \/ at = 1 \/ at = 2 \/ at = 3 \/ at = 4 \/ at = 5 \/ at = 6 \/ at = 7
        \/ at = 8 \/ at = 9 \/ at = 10 \/ at = 11 \/ at = 12 \/ at = 13
    BY <1>1, <1>4
  <2>2. CASE at = 1
    BY <1>1, <1>4, <2>2, ForceSteps
  <2>3. CASE at = 2
    BY <1>1, <1>4, <2>3, ForceSteps
  <2>4. CASE at = 3
    BY <1>1, <1>4, <2>4, ForceSteps
  <2>5. CASE at = 4
    BY <1>1, <1>4, <2>5, ForceSteps
  <2>6. CASE at = 5
    BY <1>1, <1>4, <2>6, ForceSteps
  <2>7. CASE at = 6
    BY <1>1, <1>4, <2>7, ForceSteps
  <2>8. CASE at = 7
    BY <1>1, <1>4, <2>8, ForceSteps
  <2>9. CASE at = 8
    BY <1>1, <1>4, <2>9, ForceSteps
  <2>10. CASE at = 9
    BY <1>1, <1>4, <2>10, ForceSteps
  <2>11. CASE at = 10
    BY <1>1, <1>4, <2>11, ForceSteps
  <2>12. CASE at = 11
    BY <1>1, <1>4, <2>12, ForceSteps
  <2>13. CASE at = 12
    BY <1>1, <1>4, <2>13, ForceSteps
  <2>14. CASE at = 13
    BY <1>1, <1>4, <2>14, ForceSteps
  <2> QED
    BY <2>1, <2>2, <2>3, <2>4, <2>5, <2>6, <2>7, <2>8, <2>9, <2>10, <2>11, <2>12, <2>13, <2>14
<1>5. CASE path = "stop"
  <2>1. \/ at = 1 \/ at = 2 \/ at = 3 \/ at = 4 \/ at = 5 \/ at = 6 \/ at = 7
        \/ at = 8 \/ at = 9 \/ at = 10 \/ at = 11 \/ at = 12 \/ at = 13
    BY <1>1, <1>5
  <2>2. CASE at = 1
    BY <1>1, <1>5, <2>2, StopSteps
  <2>3. CASE at = 2
    BY <1>1, <1>5, <2>3, StopSteps
  <2>4. CASE at = 3
    BY <1>1, <1>5, <2>4, StopSteps
  <2>5. CASE at = 4
    BY <1>1, <1>5, <2>5, StopSteps
  <2>6. CASE at = 5
    BY <1>1, <1>5, <2>6, StopSteps
  <2>7. CASE at = 6
    BY <1>1, <1>5, <2>7, StopSteps
  <2>8. CASE at = 7
    BY <1>1, <1>5, <2>8, StopSteps
  <2>9. CASE at = 8
    BY <1>1, <1>5, <2>9, StopSteps
  <2>10. CASE at = 9
    BY <1>1, <1>5, <2>10, StopSteps
  <2>11. CASE at = 10
    BY <1>1, <1>5, <2>11, StopSteps
  <2>12. CASE at = 11
    BY <1>1, <1>5, <2>12, StopSteps
  <2>13. CASE at = 12
    BY <1>1, <1>5, <2>13, StopSteps
  <2>14. CASE at = 13
    BY <1>1, <1>5, <2>14, StopSteps
  <2> QED
    BY <2>1, <2>2, <2>3, <2>4, <2>5, <2>6, <2>7, <2>8, <2>9, <2>10, <2>11, <2>12, <2>13, <2>14
<1>6. CASE path = "hedge_short"
  <2>1. \/ at = 1 \/ at = 2 \/ at = 3 \/ at = 4 \/ at = 5 \/ at = 6 \/ at = 7
    BY <1>1, <1>6
  <2>2. CASE at = 1
    BY <1>1, <1>6, <2>2, HedgeShortSteps
  <2>3. CASE at = 2
    BY <1>1, <1>6, <2>3, HedgeShortSteps
  <2>4. CASE at = 3
    BY <1>1, <1>6, <2>4, HedgeShortSteps
  <2>5. CASE at = 4
    BY <1>1, <1>6, <2>5, HedgeShortSteps
  <2>6. CASE at = 5
    BY <1>1, <1>6, <2>6, HedgeShortSteps
  <2>7. CASE at = 6
    BY <1>1, <1>6, <2>7, HedgeShortSteps
  <2>8. CASE at = 7
    BY <1>1, <1>6, <2>8, HedgeShortSteps
  <2> QED
    BY <2>1, <2>2, <2>3, <2>4, <2>5, <2>6, <2>7, <2>8
<1>7. CASE path = "hedge_long"
  <2>1. \/ at = 1 \/ at = 2 \/ at = 3 \/ at = 4 \/ at = 5 \/ at = 6
    BY <1>1, <1>7
  <2>2. CASE at = 1
    BY <1>1, <1>7, <2>2, HedgeLongSteps
  <2>3. CASE at = 2
    BY <1>1, <1>7, <2>3, HedgeLongSteps
  <2>4. CASE at = 3
    BY <1>1, <1>7, <2>4, HedgeLongSteps
  <2>5. CASE at = 4
    BY <1>1, <1>7, <2>5, HedgeLongSteps
  <2>6. CASE at = 5
    BY <1>1, <1>7, <2>6, HedgeLongSteps
  <2>7. CASE at = 6
    BY <1>1, <1>7, <2>7, HedgeLongSteps
  <2> QED
    BY <2>1, <2>2, <2>3, <2>4, <2>5, <2>6, <2>7
<1>8. CASE path = "none"
  BY <1>1, <1>8
<1> QED BY <1>2, <1>3, <1>4, <1>5, <1>6, <1>7, <1>8 DEF TypeOK

-----------------------------------------------------------------------------
(* Type correctness.                                                       *)

(* What cancel_order does to the exit orders: they keep what is left of    *)
(* them, none comes to life, and without a failure the one cancelled is    *)
(* dead.                                                                   *)
CancelEffect(leg) ==
    /\ exit' \in [Legs -> Order] /\ faults' \in Nat
    /\ \A l \in Legs : exit'[l].left = exit[l].left
    /\ \A l \in Legs : exit'[l].live => exit[l].live
    /\ \A l \in Legs \ {leg} : exit'[l] = exit[l]
    /\ faults' = 0 => faults = 0 /\ ~exit'[leg].live

LEMMA Cancels ==
  ASSUME exit \in [Legs -> Order], faults \in Nat, NEW leg \in Legs,
         \/ exit' = [exit EXCEPT ![leg].live = FALSE] /\ NoFail
         \/ exit[leg].live /\ Fail /\ UNCHANGED exit
  PROVE  CancelEffect(leg)
<1>1. CASE exit' = [exit EXCEPT ![leg].live = FALSE] /\ NoFail
  <2>1. exit' = [exit EXCEPT ![leg] = [exit[leg] EXCEPT !.live = FALSE]]
    BY <1>1
  <2>2. PICK o : o = [exit[leg] EXCEPT !.live = FALSE]
    OBVIOUS
  <2>3. exit[leg] \in Order
    OBVIOUS
  <2>4. o = [live |-> FALSE, left |-> exit[leg].left] /\ exit[leg].left \in 0 .. SIZE
    BY <2>2, <2>3 DEF Order
  <2>5. o \in Order /\ o.live = FALSE /\ o.left = exit[leg].left
    BY <2>4 DEF Order
  <2>6. exit'[leg] = o /\ \A l \in Legs \ {leg} : exit'[l] = exit[l]
    BY <2>1, <2>2
  <2>7. exit' \in [Legs -> Order]
    BY <2>1, <2>2, <2>5
  <2>8. \A l \in Legs : exit'[l].left = exit[l].left
    BY <2>5, <2>6
  <2>9. \A l \in Legs : exit'[l].live => exit[l].live
    BY <2>5, <2>6
  <2>10. ~exit'[leg].live /\ faults' = faults
    BY <1>1, <2>5, <2>6 DEF NoFail
  <2> QED BY <2>6, <2>7, <2>8, <2>9, <2>10 DEF CancelEffect
<1>2. CASE exit[leg].live /\ Fail /\ UNCHANGED exit
  BY <1>2 DEF CancelEffect, Fail
<1> QED BY <1>1, <1>2

LEMMA StepType ==
  ASSUME TypeOK, NEW what, NEW leg, Doing(what, leg), path' = path,
         Step(1) \/ Step(3) \/ at' = 0
  PROVE  at' \in 0 .. 13 /\ at' <= Length(path')
<1>1. Length(path) \in 0 .. 13
  BY DEF TypeOK, Length
<1>2. Len(Steps(path)) = Length(path)
  BY Positions DEF Position
<1>3. at \in 0 .. 13
  BY DEF TypeOK
<1>4. CASE at' = 0
  BY <1>1, <1>4
<1>5. CASE Step(1)
  BY <1>1, <1>2, <1>3, <1>5 DEF Step
<1>6. CASE Step(3)
  BY <1>1, <1>2, <1>3, <1>6 DEF Step
<1> QED BY <1>4, <1>5, <1>6

LEMMA TypesKept ==
  ASSUME TypeOK, [Next]_vars
  PROVE  TypeOK'
<1>0. ASSUME NEW what, NEW leg, Doing(what, leg), path' = path,
             Step(1) \/ Step(3) \/ at' = 0
      PROVE  at' \in 0 .. 13 /\ at' <= Length(path')
  BY <1>0, StepType
<1> USE ExitAssumption DEF TypeOK, Order
<1>1. CASE UNCHANGED vars
  BY <1>1 DEF vars, exchanges, trade, monitor, check, history, Length
<1>2. CASE StartRound
  BY <1>2 DEF StartRound, CheckStarts, exchanges, trade, history, Length
<1>3. CASE SkipRound
  BY <1>3 DEF SkipRound, CheckStarts, exchanges, trade, monitor, history, Length
<1>4. CASE MarkExiting
  <2>1. at' \in 0 .. 13 /\ at' <= Length(path')
    BY <1>0, <1>4, Zenon DEF MarkExiting
  <2> QED BY <1>4, <2>1 DEF MarkExiting, SetStatus, exchanges, trade, history
<1>5. ASSUME NEW leg \in Legs, Poll(leg) PROVE TypeOK'
  <2>1. saw' \in SUBSET Legs /\ faults' \in Nat
    BY <1>5 DEF Poll, Fail, NoFail
  <2>2. path' \in {"none", "poll", "both", "force", "stop", "hedge_short", "hedge_long"}
        /\ at' \in 0 .. 13 /\ at' <= Length(path') /\ again' \in BOOLEAN
    <3>1. CASE leg = "long"
      <4>1. Doing("poll", leg) /\ Step(1) /\ UNCHANGED <<path, again>>
        BY <1>5, <3>1, Zenon DEF Poll
      <4>2. at' \in 0 .. 13 /\ at' <= Length(path')
        BY <1>0, <4>1, Zenon
      <4> QED BY <4>1, <4>2
    <3>2. CASE leg # "long"
      <4>1. \/ \E p \in {"both", "force", "stop", "hedge_short", "hedge_long"} : Take(p)
            \/ path' = "none" /\ at' = 0 /\ again' = again
        BY <1>5, <3>2 DEF Poll, Decide
      <4>2. ASSUME NEW p \in {"both", "force", "stop", "hedge_short", "hedge_long"}, Take(p)
            PROVE  path' = p /\ at' = 1 /\ again' \in BOOLEAN /\ 1 <= Length(p)
        BY <4>2 DEF Take, Length
      <4>3. Length("none") = 0
        BY DEF Length
      <4> QED BY <4>1, <4>2, <4>3
    <3> QED BY <3>1, <3>2
  <2> QED BY <1>5, <2>1, <2>2 DEF Poll, exchanges, trade, check
<1>6. ASSUME NEW leg \in Legs, Cancel(leg) PROVE TypeOK'
  <2>1. at' \in 0 .. 13 /\ at' <= Length(path')
    BY <1>0, <1>6, Zenon DEF Cancel
  <2>2. exit' \in [Legs -> Order] /\ faults' \in Nat
    BY <1>6, Cancels DEF Cancel, CancelEffect
  <2>3. raced' \in BOOLEAN
    BY <1>6 DEF Cancel
  <2>4. UNCHANGED <<pos, limit, stray, trade, path, saw, counted, check, again>>
    BY <1>6, Zenon DEF Cancel
  <2> QED BY <2>1, <2>2, <2>3, <2>4 DEF trade, check
<1>7. ASSUME NEW leg \in Legs, Read(leg) PROVE TypeOK'
  <2>1. at' \in 0 .. 13 /\ at' <= Length(path')
    BY <1>0, <1>7, Zenon DEF Read
  <2>2. SIZE - exit[leg].left \in 0 .. SIZE
    BY <1>7
  <2> QED BY <1>7, <2>1, <2>2 DEF Read, Fail, NoFail, exchanges, trade, check
<1>8. ASSUME NEW leg \in Legs, NoLimit(leg) PROVE TypeOK'
  <2>1. at' \in 0 .. 13 /\ at' <= Length(path')
    BY <1>0, <1>8, Zenon DEF NoLimit
  <2> QED BY <1>8, <2>1 DEF NoLimit, exchanges, trade, check, history
<1>9. ASSUME NEW leg \in Legs, PlaceLimit(leg) PROVE TypeOK'
  <2>1. at' \in 0 .. 13 /\ at' <= Length(path')
    BY <1>0, <1>9, Zenon DEF PlaceLimit
  <2>2. Remaining(leg) \in 0 .. SIZE
    BY <1>9 DEF Remaining
  <2> QED BY <1>9, <2>1, <2>2 DEF PlaceLimit, trade, check, history
<1>10. ASSUME NEW leg \in Legs, LimitFails(leg) PROVE TypeOK'
  <2>1. at' \in 0 .. 13 /\ at' <= Length(path')
    BY <1>0, <1>10, Zenon DEF LimitFails
  <2>2. Remaining(leg) \in Nat
    BY <1>10 DEF Remaining
  <2> QED BY <1>10, <2>1, <2>2 DEF LimitFails, Fail, trade, check
<1>11. ASSUME NEW leg \in Legs, Look(leg) PROVE TypeOK'
  <2>1. at' \in 0 .. 13 /\ at' <= Length(path')
    BY <1>0, <1>11, Zenon DEF Look
  <2>2. SIZE - limit[leg].left \in 0 .. SIZE
    BY <1>11
  <2> QED BY <1>11, <2>1, <2>2 DEF Look, Fail, NoFail, exchanges, trade, check
<1>12. ASSUME NEW leg \in Legs, Drop(leg) PROVE TypeOK'
  <2>1. at' \in 0 .. 13 /\ at' <= Length(path')
    BY <1>0, <1>12, Zenon DEF Drop
  <2>2. NoOrder \in Order
    BY DEF NoOrder
  <2>3. limit[leg].left \in Nat
    BY <1>12
  <2>4. stray' \in [Legs -> Nat] /\ faults' \in Nat
    BY <1>12, <2>3 DEF Drop, Fail, NoFail
  <2>5. limit' \in [Legs -> Order]
    BY <1>12, <2>2 DEF Drop
  <2>6. UNCHANGED <<pos, exit, trade, path, saw, counted, check, raced, again>>
    BY <1>12, Zenon DEF Drop
  <2> QED BY <2>1, <2>4, <2>5, <2>6 DEF trade, check
<1>13. ASSUME NEW leg \in Legs, Market(leg) PROVE TypeOK'
  <2>1. at' \in 0 .. 13 /\ at' <= Length(path')
    BY <1>0, <1>13, Zenon DEF Market
  <2>2. Remaining(leg) \in 0 .. SIZE
    BY <1>13 DEF Remaining
  <2> QED BY <1>13, <2>1, <2>2 DEF Market, MarketSize, Fail, NoFail, trade, check
<1>14. ASSUME NEW leg \in Legs, ChkCancel(leg) PROVE TypeOK'
  <2>1. exit' \in [Legs -> Order] /\ faults' \in Nat
    BY <1>14, Cancels DEF ChkCancel, CancelEffect
  <2>2. chk' \in {"cancel_short", "close"}
    BY <1>14 DEF ChkCancel
  <2>3. UNCHANGED <<pos, limit, stray, trade, monitor, booked, blocked, raced, again>>
    BY <1>14 DEF ChkCancel
  <2> QED BY <2>1, <2>2, <2>3 DEF trade, monitor
<1>15. CASE ChkClose \/ ChkCloseErr
  <2>1. CASE ChkClose
    BY <2>1 DEF ChkClose, exchanges, trade, monitor, history
  <2>2. CASE ChkCloseErr
    BY <2>2 DEF ChkCloseErr, Fail, exchanges, trade, monitor
  <2> QED BY <1>15, <2>1, <2>2
<1>16. ASSUME NEW leg \in Legs, FillExit(leg) PROVE TypeOK'
  BY <1>16 DEF FillExit, trade, monitor, check, history, Length
<1>17. ASSUME NEW leg \in Legs, FillLimit(leg) PROVE TypeOK'
  BY <1>17 DEF FillLimit, trade, monitor, check, Length
<1>18. ASSUME NEW leg \in Legs, FillStray(leg) PROVE TypeOK'
  BY <1>18 DEF FillStray, trade, monitor, check, history, Length
<1> QED
  BY <1>1, <1>2, <1>3, <1>4, <1>5, <1>6, <1>7, <1>8, <1>9, <1>10, <1>11, <1>12, <1>13,
     <1>14, <1>15, <1>16, <1>17, <1>18 DEF Next, Monitor, Check, Exchange

-----------------------------------------------------------------------------
(* The steps of a path that come before its market orders.                 *)

(* They move on within the path, mark nothing and close nothing.           *)
Prepares ==
    /\ path \in {"force", "stop", "hedge_short", "hedge_long"}
    /\ at \in 1 .. 13 /\ at' \in 2 .. 13 /\ at < at'
    /\ \A l \in Legs : Acts(path, l) => at' <= MarketAt(path, l)
    /\ PastMark' <=> PastMark
    /\ UNCHANGED <<pos, trade, path, saw, chk, booked, again>>

LEMMA PreparesIs ==
  ASSUME TypeOK, NEW what, NEW leg \in Legs, Doing(what, leg), NEW n \in 1 .. 3, Step(n),
         what \in {"cancel", "read", "limit", "look", "drop"},
         n = 1 \/ what = "limit",
         UNCHANGED <<pos, trade, path, saw, chk, booked, again>>
  PROVE  Prepares /\ at' = at + n /\ Position(what, leg)
<1>1. Position(what, leg)
  BY Positions
<1>2. at \in 1 .. 13 /\ at' = IF at + n > Length(path) THEN 0 ELSE at + n
  BY <1>1 DEF TypeOK, Step, Doing, Position
<1>3. leg = "long" \/ leg = "short"
  BY DEF Legs
<1>4. path \in {"force", "stop", "hedge_short", "hedge_long"}
  BY <1>1 DEF Position, Acts
<1> USE DEF Position, Acts, Length, CancelAt, ReadAt, LimitAt, MarketAt, Legs, PastMark
<1>5. CASE path = "force"
  BY <1>1, <1>2, <1>3, <1>5 DEF Prepares
<1>6. CASE path = "stop"
  BY <1>1, <1>2, <1>3, <1>6 DEF Prepares
<1>7. CASE path = "hedge_short"
  BY <1>1, <1>2, <1>3, <1>7 DEF Prepares
<1>8. CASE path = "hedge_long"
  BY <1>1, <1>2, <1>3, <1>8 DEF Prepares
<1> QED BY <1>4, <1>5, <1>6, <1>7, <1>8

LEMMA PreparingKeeps ==
  ASSUME TypeOK, Control, Closed, Prepares,
         faults' = 0 => faults = 0, \A l \in Legs : exit'[l].left = exit[l].left
  PROVE  Control' /\ Closed'
<1>1. UNCHANGED <<status, path, saw, chk, booked, again>> /\ at # 0 /\ at' # 0
      /\ (PastMark' <=> PastMark)
  BY DEF Prepares, trade
<1>2. saw \in SUBSET Legs
  BY DEF TypeOK
<1>3. Control'
  BY <1>1, <1>2 DEF Control
<1>4. \A l \in Legs : pos'[l] = pos[l] /\ ~(Acts(path, l) /\ at' > MarketAt(path, l))
  <2>1. \A l \in Legs : Acts(path, l) => MarketAt(path, l) \in Nat
    BY DEF Acts, MarketAt
  <2> QED BY <2>1 DEF Prepares
<1>5. Closed'
  BY <1>1, <1>4 DEF Closed, ExitOver
<1> QED BY <1>3, <1>5

(* The stage that follows a leg's stage with a step of its own.            *)
StageAfter(what, n) ==
    CASE what = "cancel" -> (IF path = "hedge_long" THEN "read" ELSE "cancelled")
      [] what = "read" -> "read"
      [] what = "limit" -> (IF n = 1 THEN "look" ELSE "rest")
      [] what = "look" -> "drop"
      [] what = "drop" -> "rest"

StageBefore(what) ==
    CASE what = "cancel" -> "open"
      [] what = "read" -> "cancelled"
      [] what = "limit" -> "read"
      [] OTHER -> what

LEMMA StagesMove ==
  ASSUME TypeOK, NEW what \in {"cancel", "read", "limit", "look", "drop"}, NEW leg \in Legs,
         NEW n \in {1, 3}, n = 1 \/ what = "limit",
         Prepares, at' = at + n, Position(what, leg), chk = "done"
  PROVE  /\ Stage(leg) = StageBefore(what) /\ Stage(leg)' = StageAfter(what, n)
         /\ \A o \in Legs \ {leg} : Stage(o)' = Stage(o)
<1>1. /\ UNCHANGED <<status, path, chk>> /\ at \in 1 .. 13 /\ at' \in 2 .. 13
      /\ path \in {"force", "stop", "hedge_short", "hedge_long"}
  BY DEF Prepares, trade
<1>2. leg = "long" \/ leg = "short"
  BY DEF Legs
<1> USE DEF Stage, StageBefore, StageAfter, ExitOver,
            Position, Acts, CancelAt, ReadAt, LimitAt, MarketAt, Legs
<1>3. CASE path = "force"
  BY <1>1, <1>2, <1>3
<1>4. CASE path = "stop"
  BY <1>1, <1>2, <1>4
<1>5. CASE path = "hedge_short"
  BY <1>1, <1>2, <1>5
<1>6. CASE path = "hedge_long"
  BY <1>1, <1>2, <1>6
<1> QED BY <1>1, <1>3, <1>4, <1>5, <1>6

(* A preparing step keeps a clean exit exact if it does for its own leg    *)
(* and leaves the orders of the other leg alone.                           *)
LEMMA PreparingIsExact ==
  ASSUME IInv, NEW what \in {"cancel", "read", "limit", "look", "drop"}, NEW leg \in Legs,
         NEW n \in {1, 3}, n = 1 \/ what = "limit",
         Prepares, at' = at + n, Position(what, leg), chk = "done",
         Clean' => Clean,
         \A o \in Legs \ {leg} : /\ exit'[o] = exit[o] /\ limit'[o] = limit[o]
                                 /\ counted'[o] = counted[o] /\ stray'[o] = stray[o],
         Clean' /\ stray[leg] = 0 /\ LegFits(leg, StageBefore(what))
            => stray'[leg] = 0 /\ LegFits(leg, StageAfter(what, n))'
  PROVE  Exact'
<1>1. /\ Stage(leg) = StageBefore(what) /\ Stage(leg)' = StageAfter(what, n)
      /\ \A o \in Legs \ {leg} : Stage(o)' = Stage(o)
  BY StagesMove DEF IInv
<1>2. at # 0 /\ at' # 0 /\ pos' = pos /\ path' = path
  BY DEF Prepares
<1> SUFFICES ASSUME Clean', NEW l \in Legs
             PROVE  stray'[l] = 0 /\ LegFits(l, Stage(l))'
  BY DEF Exact
<1>3. \A k \in Legs : stray[k] = 0 /\ LegFits(k, Stage(k))
  BY DEF IInv, Exact
<1>4. CASE l = leg
  <2>1. LegFits(leg, StageAfter(what, n))'
    BY <1>1, <1>3
  <2>2. StageAfter(what, n)' = StageAfter(what, n)
    BY <1>2 DEF StageAfter
  <2> QED BY <1>1, <1>3, <1>4, <2>1, <2>2 DEF LegFits
<1>5. CASE l # leg
  <2>1. PICK a : a = Stage(l)
    OBVIOUS
  <2>2. LegFits(l, a) /\ Stage(l)' = a
    BY <1>1, <1>3, <1>5, <2>1
  <2>3. LegFits(l, a)'
    BY <1>2, <1>5, <2>2 DEF LegFits, Remaining
  <2> QED BY <1>3, <1>5, <2>2, <2>3 DEF LegFits
<1> QED BY <1>4, <1>5

(* While check_exits books the trade, a clean monitor gets no further than *)
(* the cancellations.                                                      *)
LEMMA BookedMonitorStops ==
  ASSUME TypeOK, Control, Prepares, Clean, chk # "done",
         NEW what, NEW leg \in Legs, Position(what, leg)
  PROVE  what \notin {"limit", "look", "drop"}
<1>1. path = "stop" /\ at <= 5
  BY DEF Control, Prepares, PastMark, Clean, TypeOK
<1> QED BY <1>1 DEF Position, LimitAt, TypeOK

LEMMA BookedStaysExact ==
  ASSUME IInv, UNCHANGED <<pos, limit, stray>>, chk # "done", chk' # "done", Clean' => Clean,
         \A l \in Legs : exit'[l].left = exit[l].left /\ (exit'[l].live => exit[l].live)
  PROVE  Exact'
<1> SUFFICES ASSUME Clean', NEW l \in Legs PROVE stray'[l] = 0 /\ LegFits(l, Stage(l))'
  BY DEF Exact
<1>1. Stage(l) = "shut" /\ Stage(l)' = "shut"
  BY DEF Stage
<1>2. stray[l] = 0 /\ LegFits(l, "shut")
  BY <1>1 DEF IInv, Exact
<1>3. pos[l] \in 0 .. DUST /\ Quiet(exit[l]) /\ Quiet(limit[l])
  BY <1>2 DEF LegFits
<1>4. Quiet(exit[l])'
  BY <1>3 DEF Quiet
<1> QED BY <1>1, <1>2, <1>3, <1>4 DEF LegFits

(* Only a limit order that is placed brings the monitor to a look.         *)
LEMMA NoLookAhead ==
  ASSUME TypeOK, NEW what \in {"cancel", "read", "limit", "look", "drop"}, NEW leg \in Legs,
         NEW n \in {1, 3}, n = 1 \/ what = "limit",
         Prepares, at' = at + n, Position(what, leg), NEW l \in Legs,
         Acts(path, l), at' = LimitAt(path, l) + 1
  PROVE  what = "limit" /\ n = 1 /\ l = leg
<1>1. /\ at \in 1 .. 13 /\ path \in {"force", "stop", "hedge_short", "hedge_long"}
  BY DEF Prepares
<1>2. (leg = "long" \/ leg = "short") /\ (l = "long" \/ l = "short")
  BY DEF Legs
<1> USE DEF Position, Acts, CancelAt, ReadAt, LimitAt
<1>3. CASE path = "force"
  BY <1>1, <1>2, <1>3
<1>4. CASE path = "stop"
  BY <1>1, <1>2, <1>4
<1>5. CASE path = "hedge_short"
  BY <1>1, <1>2, <1>5
<1>6. CASE path = "hedge_long"
  BY <1>1, <1>2, <1>6
<1> QED BY <1>1, <1>3, <1>4, <1>5, <1>6

LEMMA CancelStep ==
  ASSUME IInv, TypeOK', NEW leg \in Legs, Cancel(leg)
  PROVE  IInv'
<1>1. /\ Doing("cancel", leg) /\ Step(1)
      /\ UNCHANGED <<pos, limit, stray, trade, path, saw, counted, check, again>>
  BY Zenon DEF Cancel
<1>2. UNCHANGED <<chk, booked>>
  BY <1>1 DEF check
<1>3. Prepares /\ at' = at + 1 /\ Position("cancel", leg)
  BY <1>1, <1>2, PreparesIs DEF IInv
<1>4. CancelEffect(leg)
  BY Cancels DEF Cancel, IInv, TypeOK
<1>5. raced' = (raced \/ (path = "hedge_long" /\ exit[leg].left < SIZE))
  BY Zenon DEF Cancel
<1>6. Clean' => Clean
  BY <1>1, <1>4, <1>5 DEF Clean, CancelEffect
<1>7. Control' /\ Closed'
  BY <1>3, <1>4, PreparingKeeps DEF IInv, CancelEffect
<1>8. Covered'
  <2>1. \A l \in Legs : Acts(path, l) => at' # LimitAt(path, l) + 1
    BY <1>3, NoLookAhead DEF IInv
  <2> QED BY <1>1, <1>3, <1>4, <2>1 DEF IInv, Covered, CancelEffect, Remaining, Prepares
<1>9. Exact'
  <2>1. CASE chk # "done"
    BY <1>1, <1>2, <1>3, <1>4, <1>6, <2>1, BookedStaysExact DEF CancelEffect, Prepares
  <2>2. CASE chk = "done"
    <3>1. ASSUME Clean', stray[leg] = 0, LegFits(leg, "open")
          PROVE  stray'[leg] = 0 /\ LegFits(leg, StageAfter("cancel", 1))'
      <4>1. /\ pos[leg] = exit[leg].left /\ Quiet(limit[leg]) /\ counted[leg] = 0
            /\ exit[leg].left \in 0 .. SIZE
        BY <1>3, <3>1 DEF LegFits, Prepares, IInv, TypeOK, Order
      <4>2. ~exit'[leg].live /\ exit'[leg].left = exit[leg].left
        BY <1>4, <3>1 DEF CancelEffect, Clean
      <4>3. path = "hedge_long" => exit[leg].left = SIZE
        <5>1. ~(path = "hedge_long" /\ exit[leg].left < SIZE)
          BY <1>5, <3>1, Zenon DEF Clean
        <5> QED BY <4>1, <5>1, ExitAssumption
      <4>4. CASE path = "hedge_long"
        BY <1>1, <3>1, <4>1, <4>2, <4>3, <4>4, ExitAssumption
           DEF LegFits, StageAfter, Remaining, Quiet
      <4>5. CASE path # "hedge_long"
        BY <1>1, <3>1, <4>1, <4>2, <4>5 DEF LegFits, StageAfter, Quiet
      <4> QED BY <4>4, <4>5
    <3>2. StageBefore("cancel") = "open"
      BY DEF StageBefore
    <3>3. \A o \in Legs \ {leg} : /\ exit'[o] = exit[o] /\ limit'[o] = limit[o]
                                  /\ counted'[o] = counted[o] /\ stray'[o] = stray[o]
      BY <1>1, <1>4 DEF CancelEffect
    <3> QED BY <1>3, <1>6, <2>2, <3>1, <3>2, <3>3, PreparingIsExact
  <2> QED BY <2>1, <2>2
<1> QED BY <1>7, <1>8, <1>9 DEF IInv

LEMMA ReadStep ==
  ASSUME IInv, TypeOK', NEW leg \in Legs, Read(leg)
  PROVE  IInv'
<1>1. /\ Doing("read", leg) /\ Step(1)
      /\ UNCHANGED <<exchanges, trade, path, saw, check, raced, again>>
  BY Zenon DEF Read
<1>2. UNCHANGED <<pos, exit, limit, stray, chk, booked>>
  BY <1>1 DEF exchanges, check
<1>3. Prepares /\ at' = at + 1 /\ Position("read", leg)
  BY <1>1, <1>2, PreparesIs DEF IInv
<1>4. /\ exit \in [Legs -> Order] /\ counted \in [Legs -> 0 .. SIZE] /\ faults \in Nat
      /\ pos \in [Legs -> Int]
  BY DEF IInv, TypeOK
<1>5. /\ faults' = 0 => faults = 0 /\ counted'[leg] = SIZE - exit[leg].left
      /\ counted'[leg] \in {counted[leg], SIZE - exit[leg].left}
      /\ \A o \in Legs \ {leg} : counted'[o] = counted[o]
  BY <1>4 DEF Read, Fail, NoFail
<1>6. Clean' => Clean
  BY <1>1, <1>5 DEF Clean
<1>7. Control' /\ Closed'
  BY <1>2, <1>3, <1>5, PreparingKeeps DEF IInv
<1>8. Covered'
  <2>1. \A l \in Legs : Acts(path, l) => at' # LimitAt(path, l) + 1
    BY <1>3, NoLookAhead DEF IInv
  <2>2. exit[leg].left \in 0 .. SIZE
    BY <1>4 DEF Order
  <2>3. \A l \in Legs : pos[l] <= exit[l].left /\ pos[l] <= SIZE - counted[l]
    BY DEF IInv, Covered, Remaining
  <2>4. \A l \in Legs : pos[l] <= SIZE - counted'[l]
    BY <1>4, <1>5, <2>2, <2>3, ExitAssumption
  <2> QED BY <1>1, <1>2, <2>1, <2>3, <2>4 DEF Covered, Remaining
<1>9. Exact'
  <2>1. CASE chk # "done"
    BY <1>2, <1>3, <1>6, <2>1, BookedStaysExact DEF Prepares
  <2>2. CASE chk = "done"
    <3>1. ASSUME Clean', stray[leg] = 0, LegFits(leg, "cancelled")
          PROVE  stray'[leg] = 0 /\ LegFits(leg, StageAfter("read", 1))'
      <4>1. /\ pos[leg] = exit[leg].left /\ Quiet(limit[leg]) /\ ~exit[leg].live
            /\ exit[leg].left \in 0 .. SIZE
        BY <1>4, <3>1 DEF LegFits, Order
      <4>2. pos'[leg] = Remaining(leg)'
        BY <1>2, <1>5, <3>1, <4>1, ExitAssumption DEF Clean, Remaining
      <4>3. StageAfter("read", 1)' = "read"
        BY DEF StageAfter
      <4> QED BY <1>2, <3>1, <4>1, <4>2, <4>3 DEF LegFits, Quiet
    <3>2. StageBefore("read") = "cancelled"
      BY DEF StageBefore
    <3> QED BY <1>2, <1>3, <1>5, <1>6, <2>2, <3>1, <3>2, PreparingIsExact
  <2> QED BY <2>1, <2>2
<1> QED BY <1>7, <1>8, <1>9 DEF IInv

LEMMA NoLimitStep ==
  ASSUME IInv, TypeOK', NEW leg \in Legs, NoLimit(leg)
  PROVE  IInv'
<1>1. /\ Doing("limit", leg) /\ Step(3)
      /\ UNCHANGED <<exchanges, trade, path, saw, counted, check, history>>
  BY Zenon DEF NoLimit
<1>2. UNCHANGED <<pos, exit, limit, stray, chk, booked, faults, raced, again>>
  BY <1>1 DEF exchanges, check, history
<1>3. Prepares /\ at' = at + 3 /\ Position("limit", leg)
  BY <1>1, <1>2, PreparesIs DEF IInv
<1>4. Clean' => Clean
  BY <1>2 DEF Clean
<1>5. Control' /\ Closed'
  BY <1>2, <1>3, PreparingKeeps DEF IInv
<1>6. Covered'
  <2>1. \A l \in Legs : Acts(path, l) => at' # LimitAt(path, l) + 1
    BY <1>3, NoLookAhead DEF IInv
  <2> QED BY <1>1, <1>2, <2>1 DEF IInv, Covered, Remaining
<1>7. Exact'
  <2>1. CASE chk # "done"
    BY <1>2, <1>3, <1>4, <2>1, BookedStaysExact DEF Prepares
  <2>2. CASE chk = "done"
    <3>1. ASSUME Clean', stray[leg] = 0, LegFits(leg, "read")
          PROVE  stray'[leg] = 0 /\ LegFits(leg, StageAfter("limit", 3))'
      <4>1. StageAfter("limit", 3)' = "rest"
        BY DEF StageAfter
      <4> QED BY <1>1, <1>2, <3>1, <4>1 DEF LegFits, Quiet, Remaining
    <3>2. StageBefore("limit") = "read"
      BY DEF StageBefore
    <3> QED BY <1>1, <1>2, <1>3, <1>4, <2>2, <3>1, <3>2, PreparingIsExact
  <2> QED BY <2>1, <2>2
<1> QED BY <1>5, <1>6, <1>7 DEF IInv

LEMMA PlaceLimitStep ==
  ASSUME IInv, TypeOK', NEW leg \in Legs, PlaceLimit(leg)
  PROVE  IInv'
<1>1. /\ Doing("limit", leg) /\ Step(1)
      /\ limit' = [limit EXCEPT ![leg] = [live |-> TRUE, left |-> Remaining(leg)]]
      /\ UNCHANGED <<pos, exit, stray, trade, path, saw, counted, check, history>>
  BY Zenon DEF PlaceLimit
<1>2. UNCHANGED <<chk, booked, faults, raced, again>>
  BY <1>1 DEF check, history
<1>3. Prepares /\ at' = at + 1 /\ Position("limit", leg)
  BY <1>1, <1>2, PreparesIs DEF IInv
<1>4. limit'[leg].left = Remaining(leg) /\ \A o \in Legs \ {leg} : limit'[o] = limit[o]
  <2>1. limit \in [Legs -> Order]
    BY DEF IInv, TypeOK
  <2>2. limit'[leg] = [live |-> TRUE, left |-> Remaining(leg)]
    BY <1>1, <2>1
  <2>3. \A o \in Legs \ {leg} : limit'[o] = limit[o]
    BY <1>1, <2>1
  <2> QED BY <2>2, <2>3
<1>5. Clean' => Clean
  BY <1>2 DEF Clean
<1>6. Control' /\ Closed'
  BY <1>1, <1>2, <1>3, PreparingKeeps DEF IInv
<1>7. Covered'
  <2>1. \A l \in Legs : Acts(path, l) /\ at' = LimitAt(path, l) + 1 => l = leg
    BY <1>3, NoLookAhead DEF IInv
  <2>2. \A l \in Legs : pos[l] <= exit[l].left /\ pos[l] <= Remaining(l)
    BY DEF IInv, Covered
  <2> QED BY <1>1, <1>4, <2>1, <2>2 DEF Covered, Remaining
<1>8. Exact'
  <2>1. CASE chk # "done"
    BY <1>3, <1>5, <2>1, BookedMonitorStops DEF Exact, IInv
  <2>2. CASE chk = "done"
    <3>1. ASSUME Clean', stray[leg] = 0, LegFits(leg, "read")
          PROVE  stray'[leg] = 0 /\ LegFits(leg, StageAfter("limit", 1))'
      <4>1. StageAfter("limit", 1)' = "look"
        BY DEF StageAfter
      <4>2. pos[leg] = Remaining(leg) /\ ~exit[leg].live
        BY <3>1 DEF LegFits
      <4> QED BY <1>1, <1>4, <3>1, <4>1, <4>2 DEF LegFits
    <3>2. StageBefore("limit") = "read"
      BY DEF StageBefore
    <3> QED BY <1>1, <1>3, <1>4, <1>5, <2>2, <3>1, <3>2, PreparingIsExact
  <2> QED BY <2>1, <2>2
<1> QED BY <1>6, <1>7, <1>8 DEF IInv

LEMMA LimitFailsStep ==
  ASSUME IInv, TypeOK', NEW leg \in Legs, LimitFails(leg)
  PROVE  IInv'
<1>1. /\ Doing("limit", leg) /\ Step(3) /\ Fail
      /\ UNCHANGED <<pos, exit, limit, trade, path, saw, counted, check, raced, again>>
  BY Zenon DEF LimitFails
<1>2. UNCHANGED <<chk, booked>>
  BY <1>1 DEF check
<1>3. Prepares /\ at' = at + 3 /\ Position("limit", leg)
  BY <1>1, <1>2, PreparesIs DEF IInv
<1>4. faults' # 0
  BY <1>1 DEF Fail, IInv, TypeOK
<1>5. Control' /\ Closed'
  BY <1>1, <1>3, <1>4, PreparingKeeps DEF IInv
<1>6. Covered'
  <2>1. \A l \in Legs : Acts(path, l) => at' # LimitAt(path, l) + 1
    BY <1>3, NoLookAhead DEF IInv
  <2> QED BY <1>1, <2>1 DEF IInv, Covered, Remaining
<1>7. Exact'
  BY <1>4 DEF Exact, Clean
<1> QED BY <1>5, <1>6, <1>7 DEF IInv

(* In a hedge the other leg's exit order has filled.                       *)
LEMMA OtherLegDone ==
  ASSUME IInv, path \in {"hedge_short", "hedge_long"}, NEW leg \in Legs, Acts(path, leg),
         NEW o \in Legs, o # leg
  PROVE  /\ exit[o].left = 0 /\ pos[o] <= 0
         /\ Clean /\ at # 0 /\ chk = "done" =>
               pos[o] = 0 /\ Quiet(exit[o]) /\ Quiet(limit[o]) /\ stray[o] = 0
<1>1. o \in saw /\ ~Acts(path, o)
  BY DEF IInv, Control, Acts, Legs
<1>2. exit[o].left = 0
  BY <1>1 DEF IInv, Control
<1>3. pos[o] <= 0
  BY <1>2 DEF IInv, Covered
<1>4. ASSUME Clean, at # 0, chk = "done"
      PROVE  pos[o] = 0 /\ Quiet(exit[o]) /\ Quiet(limit[o]) /\ stray[o] = 0
  <2>1. Stage(o) = "open"
    BY <1>1, <1>4 DEF Stage, ExitOver
  <2>2. LegFits(o, "open") /\ stray[o] = 0
    BY <1>4, <2>1 DEF IInv, Exact
  <2> QED BY <1>2, <2>2 DEF LegFits, Quiet
<1> QED BY <1>2, <1>3, <1>4

(* The monitor comes to the end of a path that has marked the trade.       *)
LEMMA EndOfPath ==
  ASSUME IInv, TypeOK', PastMark, at' = 0, UNCHANGED <<trade, path, saw, chk, booked, again>>,
         \A l \in Legs : exit'[l].left = exit[l].left,
         faults' = 0 => \A l \in Legs : pos'[l] <= DUST /\ (path # "stop" => pos'[l] <= 0),
         Clean' => \A l \in Legs : /\ pos'[l] \in 0 .. DUST /\ stray'[l] = 0
                                   /\ Quiet(exit[l])' /\ Quiet(limit[l])'
  PROVE  Control' /\ Closed' /\ Exact'
<1>1. /\ UNCHANGED <<status, path, saw, chk, booked, again>>
      /\ status = "Exiting" /\ chk = "done" /\ saw \in SUBSET Legs
  BY DEF trade, IInv, Control, TypeOK
<1>2. ~PastMark'
  BY DEF PastMark
<1>3. Control'
  BY <1>1, <1>2 DEF IInv, Control
<1>4. Closed'
  BY <1>1 DEF Closed
<1>5. \A l \in Legs : Stage(l)' = "shut"
  BY <1>1 DEF Stage, ExitOver
<1>6. Exact'
  BY <1>5 DEF Exact, LegFits
<1> QED BY <1>3, <1>4, <1>6

LEMMA LookStep ==
  ASSUME IInv, TypeOK', NEW leg \in Legs, Look(leg)
  PROVE  IInv'
<1>1. /\ Doing("look", leg)
      /\ UNCHANGED <<exchanges, trade, path, saw, check, raced, again>>
  BY Zenon DEF Look
<1>2. UNCHANGED <<pos, exit, limit, stray, chk, booked>>
  BY <1>1 DEF exchanges, check
<1>3. Position("look", leg) /\ Acts(path, leg) /\ at = LimitAt(path, leg) + 1 /\ at # 0
  BY <1>1, Positions DEF Position, Doing, IInv
<1>4. /\ limit \in [Legs -> Order] /\ counted \in [Legs -> 0 .. SIZE] /\ faults \in Nat
      /\ pos \in [Legs -> Int]
  BY DEF IInv, TypeOK
<1>5. limit[leg].left \in 0 .. SIZE /\ pos[leg] <= limit[leg].left
  <2>1. limit[leg].left \in 0 .. SIZE
    BY <1>4 DEF Order
  <2> QED BY <1>3, <2>1 DEF IInv, Covered
<1>6. /\ faults' = 0 => faults = 0 /\ counted'[leg] = SIZE - limit[leg].left
      /\ counted'[leg] \in {counted[leg], SIZE - limit[leg].left}
      /\ \A o \in Legs \ {leg} : counted'[o] = counted[o]
  BY <1>4 DEF Look, Fail, NoFail
<1>7. Clean' => Clean
  BY <1>1, <1>6 DEF Clean
<1>8. \A l \in Legs : pos'[l] <= exit'[l].left /\ pos'[l] <= Remaining(l)'
  <2>1. \A l \in Legs : pos[l] <= exit[l].left /\ pos[l] <= SIZE - counted[l]
    BY DEF IInv, Covered, Remaining
  <2>2. \A l \in Legs : pos[l] <= SIZE - counted'[l]
    BY <1>4, <1>5, <1>6, <2>1, ExitAssumption
  <2> QED BY <1>2, <2>1, <2>2 DEF Remaining
<1>9. CASE Step(1)
  <2>1. Prepares /\ at' = at + 1
    BY <1>1, <1>2, <1>9, PreparesIs DEF IInv
  <2>2. Control' /\ Closed'
    BY <1>2, <1>6, <2>1, PreparingKeeps DEF IInv
  <2>3. Covered'
    <3>1. \A l \in Legs : Acts(path, l) => at' # LimitAt(path, l) + 1
      BY <1>3, <2>1, NoLookAhead DEF IInv
    <3> QED BY <1>1, <1>8, <3>1 DEF Covered
  <2>4. Exact'
    <3>1. CASE chk # "done"
      BY <1>3, <1>7, <2>1, <3>1, BookedMonitorStops DEF Exact, IInv
    <3>2. CASE chk = "done"
      <4>1. ASSUME Clean', stray[leg] = 0, LegFits(leg, "look")
            PROVE  stray'[leg] = 0 /\ LegFits(leg, StageAfter("look", 1))'
        <5>1. StageAfter("look", 1)' = "drop"
          BY DEF StageAfter
        <5>2. pos[leg] = limit[leg].left /\ ~exit[leg].live
          BY <4>1 DEF LegFits
        <5>3. pos'[leg] = Remaining(leg)'
          BY <1>2, <1>5, <1>6, <4>1, <5>2, ExitAssumption DEF Clean, Remaining
        <5> QED BY <1>2, <4>1, <5>1, <5>2, <5>3 DEF LegFits
      <4>2. StageBefore("look") = "look"
        BY DEF StageBefore
      <4> QED BY <1>2, <1>3, <1>6, <1>7, <2>1, <3>2, <4>1, <4>2, PreparingIsExact
    <3> QED BY <3>1, <3>2
  <2> QED BY <2>2, <2>3, <2>4 DEF IInv
<1>10. CASE limit[leg].left = 0 /\ path \in {"hedge_long", "hedge_short"} /\ at' = 0
  <2>1. PastMark /\ chk = "done"
    <3>1. PastMark
      BY <1>3, <1>10 DEF PastMark, LimitAt
    <3> QED BY <3>1 DEF IInv, Control
  <2>2. pos[leg] <= 0
    BY <1>5, <1>10
  <2>3. \A o \in Legs : pos'[o] <= 0 /\ pos'[o] <= DUST
    <3>1. \A o \in Legs : pos[o] <= 0 /\ pos[o] \in Int
      BY <1>3, <1>10, <2>2, OtherLegDone DEF IInv, TypeOK
    <3> QED BY <1>2, <3>1, ExitAssumption
  <2>4. ASSUME Clean'
        PROVE  \A l \in Legs : /\ pos'[l] \in 0 .. DUST /\ stray'[l] = 0
                               /\ Quiet(exit[l])' /\ Quiet(limit[l])'
    <3>1. Stage(leg) = "look"
      BY <1>3, <1>10, <2>1 DEF Stage, ExitOver, LimitAt, CancelAt, ReadAt, Acts
    <3>2. LegFits(leg, "look") /\ stray[leg] = 0
      BY <1>7, <2>4, <3>1 DEF IInv, Exact
    <3>3. pos[leg] = 0 /\ Quiet(exit[leg]) /\ Quiet(limit[leg])
      BY <1>10, <3>2 DEF LegFits, Quiet
    <3>4. \A o \in Legs \ {leg} : pos[o] = 0 /\ Quiet(exit[o]) /\ Quiet(limit[o]) /\ stray[o] = 0
      BY <1>3, <1>7, <1>10, <2>1, <2>4, OtherLegDone
    <3> QED BY <1>2, <3>2, <3>3, <3>4, ExitAssumption DEF Quiet
  <2>5. Control' /\ Closed' /\ Exact'
    BY <1>1, <1>2, <1>10, <2>1, <2>3, <2>4, EndOfPath
  <2>6. Covered'
    BY <1>8, <1>10 DEF Covered
  <2> QED BY <2>5, <2>6 DEF IInv
<1>11. Step(1) \/ (limit[leg].left = 0 /\ path \in {"hedge_long", "hedge_short"} /\ at' = 0)
  BY DEF Look
<1> QED BY <1>9, <1>10, <1>11

LEMMA DropStep ==
  ASSUME IInv, TypeOK', NEW leg \in Legs, Drop(leg)
  PROVE  IInv'
<1>1. /\ Doing("drop", leg) /\ Step(1) /\ limit' = [limit EXCEPT ![leg] = NoOrder]
      /\ UNCHANGED <<pos, exit, trade, path, saw, counted, check, raced, again>>
  BY Zenon DEF Drop
<1>2. UNCHANGED <<chk, booked>>
  BY <1>1 DEF check
<1>3. Prepares /\ at' = at + 1 /\ Position("drop", leg)
  BY <1>1, <1>2, PreparesIs DEF IInv
<1>4. limit'[leg] = NoOrder /\ \A o \in Legs \ {leg} : limit'[o] = limit[o]
  BY <1>1 DEF IInv, TypeOK
<1>5. /\ faults' = 0 => faults = 0 /\ stray' = stray
      /\ \A o \in Legs \ {leg} : stray'[o] = stray[o]
  BY DEF Drop, Fail, NoFail, IInv, TypeOK
<1>6. Clean' => Clean /\ stray' = stray
  BY <1>1, <1>5 DEF Clean
<1>7. Control' /\ Closed'
  BY <1>1, <1>3, <1>5, PreparingKeeps DEF IInv
<1>8. Covered'
  <2>1. \A l \in Legs : Acts(path, l) => at' # LimitAt(path, l) + 1
    BY <1>3, NoLookAhead DEF IInv
  <2> QED BY <1>1, <2>1 DEF IInv, Covered, Remaining
<1>9. Exact'
  <2>1. CASE chk # "done"
    BY <1>3, <1>6, <2>1, BookedMonitorStops DEF Exact, IInv
  <2>2. CASE chk = "done"
    <3>1. ASSUME Clean', stray[leg] = 0, LegFits(leg, "drop")
          PROVE  stray'[leg] = 0 /\ LegFits(leg, StageAfter("drop", 1))'
      <4>1. StageAfter("drop", 1)' = "rest"
        BY DEF StageAfter
      <4>2. pos[leg] = Remaining(leg) /\ ~exit[leg].live
        BY <3>1 DEF LegFits
      <4>3. Quiet(limit[leg])'
        BY <1>4 DEF Quiet, NoOrder
      <4> QED BY <1>1, <1>6, <3>1, <4>1, <4>2, <4>3 DEF LegFits, Remaining
    <3>2. StageBefore("drop") = "drop"
      BY DEF StageBefore
    <3> QED BY <1>1, <1>3, <1>4, <1>5, <1>6, <2>2, <3>1, <3>2, PreparingIsExact
  <2> QED BY <2>1, <2>2
<1> QED BY <1>7, <1>8, <1>9 DEF IInv

-----------------------------------------------------------------------------
(* The market orders.                                                      *)

LEMMA MarketMoves ==
  ASSUME TypeOK, NEW leg \in Legs, Position("market", leg), at # 0, Step(1), path' = path
  PROVE  \/ /\ at' = at + 1 /\ at' # 0 /\ path \in {"force", "stop"}
            /\ PastMark' <=> PastMark
            /\ PastMark \/ path = "force"
            /\ at' > MarketAt(path, leg)
            /\ \A l \in Legs : at' # LimitAt(path, l) + 1
            /\ \A o \in Legs \ {leg} : at' > MarketAt(path, o) => at > MarketAt(path, o)
         \/ /\ at' = 0 /\ PastMark
            /\ \/ path \in {"hedge_short", "hedge_long"}
               \/ path = "stop" /\ \A o \in Legs \ {leg} : at > MarketAt(path, o)
<1>1. at \in 1 .. 13 /\ at' = IF at + 1 > Length(path) THEN 0 ELSE at + 1
  BY DEF TypeOK, Step, Position
<1>2. leg = "long" \/ leg = "short"
  BY DEF Legs
<1>3. path \in {"force", "stop", "hedge_short", "hedge_long"}
  BY DEF Position, Acts
<1> USE DEF Position, Acts, Length, LimitAt, MarketAt, Legs, PastMark
<1>4. CASE path = "force"
  BY <1>1, <1>2, <1>4
<1>5. CASE path = "stop"
  BY <1>1, <1>2, <1>5
<1>6. CASE path = "hedge_short"
  BY <1>1, <1>2, <1>6
<1>7. CASE path = "hedge_long"
  BY <1>1, <1>2, <1>7
<1> QED BY <1>3, <1>4, <1>5, <1>6, <1>7

LEMMA MarketStages ==
  ASSUME TypeOK, NEW leg \in Legs, Position("market", leg), at # 0, chk = "done",
         Step(1), UNCHANGED <<path, status, chk>>
  PROVE  /\ Stage(leg) = "rest"
         /\ at' # 0 => Stage(leg)' = "shut" /\ \A o \in Legs \ {leg} : Stage(o)' = Stage(o)
         /\ at' = 0 /\ path = "stop" => \A o \in Legs \ {leg} : Stage(o) = "shut"
<1>1. at \in 1 .. 13 /\ at' = IF at + 1 > Length(path) THEN 0 ELSE at + 1
  BY DEF TypeOK, Step, Position
<1>2. leg = "long" \/ leg = "short"
  BY DEF Legs
<1>3. path \in {"force", "stop", "hedge_short", "hedge_long"}
  BY DEF Position, Acts
<1> USE DEF Stage, ExitOver, Position, Acts, Length, CancelAt, ReadAt, LimitAt, MarketAt, Legs
<1>4. CASE path = "force"
  BY <1>1, <1>2, <1>4
<1>5. CASE path = "stop"
  BY <1>1, <1>2, <1>5
<1>6. CASE path = "hedge_short"
  BY <1>1, <1>2, <1>6
<1>7. CASE path = "hedge_long"
  BY <1>1, <1>2, <1>7
<1> QED BY <1>3, <1>4, <1>5, <1>6, <1>7

LEMMA MarketStep ==
  ASSUME IInv, TypeOK', NEW leg \in Legs, Market(leg)
  PROVE  IInv'
<1>1. /\ Doing("market", leg) /\ Step(1)
      /\ UNCHANGED <<exit, limit, stray, trade, path, saw, counted, check, raced, again>>
  BY Zenon DEF Market
<1>2. UNCHANGED <<chk, booked, status>>
  BY <1>1 DEF check, trade
<1>3. Position("market", leg) /\ Acts(path, leg) /\ at = MarketAt(path, leg) /\ at # 0
  BY <1>1, Positions DEF Position, Doing, IInv
<1>4. /\ pos \in [Legs -> Int] /\ Remaining(leg) \in Nat /\ faults \in Nat
      /\ saw \in SUBSET Legs
  BY ExitAssumption DEF IInv, TypeOK, Remaining
<1>5. /\ pos' \in [Legs -> Int] /\ \A l \in Legs : pos'[l] <= pos[l]
      /\ \A o \in Legs \ {leg} : pos'[o] = pos[o]
      /\ faults' = 0 => /\ faults = 0
                        /\ \/ pos'[leg] = pos[leg] - Remaining(leg)
                           \/ pos'[leg] = pos[leg] /\ Remaining(leg) <= Tolerated("market")
  BY <1>4, ExitAssumption DEF Market, MarketSize, Fail, NoFail, Rest, Tolerated
<1>6. Clean' => Clean
  BY <1>1, <1>5 DEF Clean
<1>7. \A l \in Legs : pos[l] <= exit[l].left /\ pos[l] <= Remaining(l)
  BY DEF IInv, Covered
<1>d. /\ Tolerated("market") \in Nat /\ Tolerated("market") <= DUST
      /\ path \in {"hedge_short", "hedge_long"} => Tolerated("market") = 0
  BY ExitAssumption DEF Tolerated
<1>8. faults' = 0 => pos'[leg] <= Tolerated("market") /\ pos'[leg] <= DUST
  BY <1>4, <1>5, <1>7, <1>d, ExitAssumption
<1>9. \A l \in Legs : pos'[l] <= exit'[l].left /\ pos'[l] <= Remaining(l)'
  <2>1. \A l \in Legs : exit[l].left \in Int /\ SIZE - counted[l] \in Int
    BY ExitAssumption DEF IInv, TypeOK, Order
  <2> QED BY <1>1, <1>4, <1>5, <1>7, <2>1 DEF Remaining
<1>10. \A o \in Legs \ {leg} : pos'[o] = pos[o]
  BY <1>4, <1>5
<1>11. ASSUME Clean, chk = "done"
       PROVE  pos[leg] = Remaining(leg) /\ Quiet(exit[leg]) /\ Quiet(limit[leg]) /\ stray[leg] = 0
  <2>1. Stage(leg) = "rest"
    BY <1>1, <1>2, <1>3, <1>11, MarketStages DEF IInv
  <2>2. LegFits(leg, "rest") /\ stray[leg] = 0
    BY <1>11, <2>1 DEF IInv, Exact
  <2> QED BY <2>2 DEF LegFits, Quiet
<1>12. ASSUME Clean', chk = "done"
       PROVE  /\ pos'[leg] \in 0 .. DUST
              /\ Quiet(exit[leg])' /\ Quiet(limit[leg])' /\ stray'[leg] = 0
  <2>1. pos[leg] = Remaining(leg) /\ faults' = 0
    BY <1>6, <1>11, <1>12 DEF Clean
  <2>2. pos'[leg] \in 0 .. DUST
    BY <1>4, <1>5, <1>8, <2>1, ExitAssumption
  <2> QED BY <1>1, <1>6, <1>11, <1>12, <2>2 DEF Quiet
<1>13. CASE at' # 0
  <2>1. /\ at' = at + 1 /\ at' # 0 /\ path \in {"force", "stop"}
        /\ PastMark' <=> PastMark
        /\ PastMark \/ path = "force"
        /\ at' > MarketAt(path, leg)
        /\ \A l \in Legs : at' # LimitAt(path, l) + 1
        /\ \A o \in Legs \ {leg} : at' > MarketAt(path, o) => at > MarketAt(path, o)
    BY <1>1, <1>3, <1>13, MarketMoves DEF IInv
  <2>2. Control'
    BY <1>1, <1>2, <1>3, <1>4, <1>5, <2>1 DEF IInv, Control
  <2>3. Closed'
    <3> SUFFICES ASSUME faults' = 0, NEW l \in Legs, l # leg,
                        \/ Acts(path, l) /\ at' > MarketAt(path, l)
                        \/ chk # "done" \/ booked
                 PROVE  pos'[l] <= DUST
      BY <1>1, <1>2, <1>8, <2>1 DEF Closed, ExitOver
    <3> QED BY <1>3, <1>5, <2>1 DEF IInv, Closed
  <2>4. Covered'
    BY <1>1, <1>9, <2>1 DEF Covered
  <2>5. Exact'
    <3> SUFFICES ASSUME Clean', NEW l \in Legs PROVE stray'[l] = 0 /\ LegFits(l, Stage(l))'
      BY DEF Exact
    <3>1. chk = "done"
      BY <1>3, <1>6, <2>1 DEF IInv, Control, Clean, TypeOK
    <3>2. Stage(leg)' = "shut" /\ \A o \in Legs \ {leg} : Stage(o)' = Stage(o)
      BY <1>1, <1>2, <1>3, <1>13, <3>1, MarketStages DEF IInv
    <3>3. CASE l = leg
      BY <1>12, <3>1, <3>2, <3>3 DEF LegFits
    <3>4. CASE l # leg
      <4>1. PICK a : a = Stage(l)
        OBVIOUS
      <4>2. LegFits(l, a) /\ Stage(l)' = a /\ stray[l] = 0
        BY <1>6, <3>2, <3>4, <4>1 DEF IInv, Exact
      <4>3. LegFits(l, a)'
        BY <1>1, <1>3, <1>5, <2>1, <3>4, <4>2 DEF LegFits, Remaining
      <4> QED BY <1>1, <4>2, <4>3
    <3> QED BY <3>3, <3>4
  <2> QED BY <2>2, <2>3, <2>4, <2>5 DEF IInv
<1>14. CASE at' = 0
  <2>1. /\ PastMark
        /\ \/ path \in {"hedge_short", "hedge_long"}
           \/ path = "stop" /\ \A o \in Legs \ {leg} : at > MarketAt(path, o)
    <3>1. at \in Int
      BY DEF IInv, TypeOK
    <3> QED BY <1>1, <1>3, <1>14, <3>1, MarketMoves DEF IInv
  <2>2. chk = "done"
    BY <2>1 DEF IInv, Control
  <2>3. faults' = 0 => \A l \in Legs : pos'[l] <= DUST /\ (path # "stop" => pos'[l] <= 0)
    <3> SUFFICES ASSUME faults' = 0, NEW o \in Legs, o # leg
                 PROVE  pos[o] <= DUST /\ (path # "stop" => pos[o] <= 0)
      BY <1>8, <1>10, <1>d, <2>1
    <3>1. CASE path \in {"hedge_short", "hedge_long"}
      <4>1. pos[o] <= 0 /\ pos[o] \in Int
        BY <1>3, <1>4, <3>1, OtherLegDone
      <4> QED BY <4>1, ExitAssumption
    <3>2. CASE path = "stop" /\ at > MarketAt(path, o)
      BY <1>3, <1>5, <3>2 DEF IInv, Closed, Acts
    <3> QED BY <2>1, <3>1, <3>2
  <2>4. ASSUME Clean'
        PROVE  \A l \in Legs : /\ pos'[l] \in 0 .. DUST /\ stray'[l] = 0
                               /\ Quiet(exit[l])' /\ Quiet(limit[l])'
    <3> SUFFICES ASSUME NEW o \in Legs, o # leg
                 PROVE  pos[o] \in 0 .. DUST /\ Quiet(exit[o]) /\ Quiet(limit[o]) /\ stray[o] = 0
      BY <1>1, <1>5, <1>12, <2>2, <2>4 DEF Quiet
    <3>1. CASE path \in {"hedge_short", "hedge_long"}
      BY <1>3, <1>6, <2>2, <2>4, <3>1, OtherLegDone, ExitAssumption
    <3>2. CASE path = "stop"
      <4>1. Stage(o) = "shut"
        BY <1>1, <1>2, <1>3, <1>14, <2>2, <3>2, MarketStages DEF IInv
      <4>2. LegFits(o, "shut") /\ stray[o] = 0
        BY <1>6, <2>4, <4>1 DEF IInv, Exact
      <4> QED BY <4>2 DEF LegFits
    <3> QED BY <2>1, <3>1, <3>2
  <2>5. Control' /\ Closed' /\ Exact'
    BY <1>1, <1>2, <1>14, <2>1, <2>3, <2>4, EndOfPath
  <2>6. Covered'
    BY <1>9, <1>14 DEF Covered
  <2> QED BY <2>5, <2>6 DEF IInv
<1> QED BY <1>13, <1>14

-----------------------------------------------------------------------------
(* The status, the rounds and the polls.                                   *)

LEMMA MarkMoves ==
  ASSUME TypeOK, Position("mark", "trade"), at # 0, Step(1), path' = path
  PROVE  \/ at' = 0 /\ path \in {"both", "force"} /\ (path = "force" => at = 13)
         \/ /\ at' = at + 1 /\ path \in {"stop", "hedge_short", "hedge_long"}
            /\ at = IF path = "stop" THEN 5 ELSE 1
<1>1. at \in 1 .. 13 /\ at' = IF at + 1 > Length(path) THEN 0 ELSE at + 1
  BY DEF TypeOK, Step, Position
<1> QED BY <1>1 DEF Position, Length

LEMMA MarkExitingStep ==
  ASSUME IInv, TypeOK', MarkExiting
  PROVE  IInv'
<1>1. /\ Doing("mark", "trade")
      /\ UNCHANGED <<exchanges, path, saw, counted, chk, booked, history>>
  BY Zenon DEF MarkExiting
<1>2. UNCHANGED <<pos, exit, limit, stray, faults, raced, again>>
  BY <1>1 DEF exchanges, history
<1>3. Position("mark", "trade") /\ at # 0 /\ at \in 1 .. 13
  BY <1>1, Positions DEF Doing, IInv, TypeOK
<1>4. Clean' => Clean
  BY <1>2 DEF Clean
<1>5. saw \in SUBSET Legs
  BY DEF IInv, TypeOK
<1>6. CASE chk # "done"
  <2>1. UNCHANGED <<status, at>>
    BY <1>6 DEF MarkExiting, trade
  <2>2. Control' /\ Covered' /\ Closed'
    <3>1. PastMark' <=> PastMark
      BY <1>1, <2>1 DEF PastMark
    <3>2. Control'
      BY <1>1, <1>2, <1>5, <2>1, <3>1 DEF IInv, Control
    <3>3. Covered'
      BY <1>1, <1>2, <2>1 DEF IInv, Covered, Remaining
    <3>4. Closed'
      BY <1>1, <1>2, <2>1 DEF IInv, Closed, ExitOver
    <3> QED BY <3>2, <3>3, <3>4
  <2>3. Exact'
    BY <1>1, <1>2, <1>3, <1>4, <1>6, <2>1, BookedStaysExact
  <2> QED BY <2>2, <2>3 DEF IInv
<1>7. CASE chk = "done"
  <2>1. status' = "Exiting" /\ Step(1) /\ chk' = "done"
    BY <1>1, <1>7 DEF MarkExiting, SetStatus
  <2>2. CASE at' = 0
    <3>1. path \in {"both", "force"} /\ (path = "force" => at = 13)
      BY <1>1, <1>3, <2>1, <2>2, MarkMoves DEF IInv
    <3>2. ~PastMark'
      BY <2>2 DEF PastMark
    <3>3. Control'
      BY <1>1, <1>2, <1>5, <2>1, <2>2, <3>2 DEF IInv, Control
    <3>4. Covered'
      BY <1>1, <1>2, <2>2 DEF IInv, Covered, Remaining
    <3>5. ASSUME faults = 0, NEW l \in Legs
          PROVE  pos[l] <= DUST /\ (path # "force" => pos[l] <= 0)
      <4>1. CASE path = "both"
        <5>1. pos[l] <= 0 /\ pos[l] \in Int
          BY <4>1 DEF IInv, TypeOK, Control, Covered
        <5> QED BY <5>1, ExitAssumption
      <4>2. CASE path = "force"
        BY <1>3, <3>1, <3>5, <4>2 DEF IInv, Closed, Acts, MarketAt, Legs
      <4> QED BY <3>1, <4>1, <4>2
    <3>6. Closed'
      BY <1>1, <1>2, <3>1, <3>5 DEF Closed
    <3>7. ASSUME Clean, NEW l \in Legs
          PROVE  pos[l] \in 0 .. DUST /\ Quiet(exit[l]) /\ Quiet(limit[l]) /\ stray[l] = 0
      <4>1. CASE path = "both"
        <5>1. Stage(l) = "open"
          BY <1>3, <1>7, <4>1 DEF Stage, ExitOver, Acts
        <5>2. LegFits(l, "open") /\ stray[l] = 0
          BY <3>7, <5>1 DEF IInv, Exact
        <5>3. exit[l].left = 0
          BY <4>1 DEF IInv, Control
        <5> QED BY <5>2, <5>3, ExitAssumption DEF LegFits, Quiet
      <4>2. CASE path = "force"
        <5>1. Stage(l) = "shut"
          BY <1>3, <1>7, <3>1, <4>2
             DEF Stage, ExitOver, Acts, CancelAt, ReadAt, LimitAt, MarketAt, Legs
        <5>2. LegFits(l, "shut") /\ stray[l] = 0
          BY <3>7, <5>1 DEF IInv, Exact
        <5> QED BY <5>2 DEF LegFits
      <4> QED BY <3>1, <4>1, <4>2
    <3>8. Exact'
      <4>1. \A l \in Legs : Stage(l)' = "shut"
        BY <2>1, <2>2 DEF Stage, ExitOver
      <4> QED BY <1>2, <1>4, <3>7, <4>1 DEF Exact, LegFits, Quiet
    <3> QED BY <3>3, <3>4, <3>6, <3>8 DEF IInv
  <2>3. CASE at' # 0
    <3>1. /\ at' = at + 1 /\ path \in {"stop", "hedge_short", "hedge_long"}
          /\ at = IF path = "stop" THEN 5 ELSE 1
      BY <1>1, <1>3, <2>1, <2>3, MarkMoves DEF IInv
    <3>2. PastMark'
      BY <1>1, <3>1 DEF PastMark
    <3>3. Control'
      BY <1>1, <1>2, <1>5, <2>1, <3>1, <3>2 DEF IInv, Control
    <3>4. \A l \in Legs : ~(Acts(path, l) /\ at' > MarketAt(path, l))
                          /\ ~(Acts(path, l) /\ at' = LimitAt(path, l) + 1)
      BY <3>1 DEF Acts, MarketAt, LimitAt, Legs
    <3>5. Covered'
      BY <1>1, <1>2, <3>4 DEF IInv, Covered, Remaining
    <3>6. Closed'
      BY <1>1, <1>2, <2>1, <2>3, <3>4 DEF IInv, Closed, ExitOver
    <3>7. \A l \in Legs : Stage(l)' = Stage(l)
      <4> USE DEF Stage, ExitOver, Acts, CancelAt, ReadAt, LimitAt, MarketAt, Legs
      <4>1. CASE path = "stop"
        BY <1>1, <1>7, <2>1, <3>1, <4>1
      <4>2. CASE path = "hedge_short"
        BY <1>1, <1>7, <2>1, <3>1, <4>2
      <4>3. CASE path = "hedge_long"
        BY <1>1, <1>7, <2>1, <3>1, <4>3
      <4> QED BY <3>1, <4>1, <4>2, <4>3
    <3>8. Exact'
      <4> SUFFICES ASSUME Clean', NEW l \in Legs PROVE stray'[l] = 0 /\ LegFits(l, Stage(l))'
        BY DEF Exact
      <4>1. PICK a : a = Stage(l)
        OBVIOUS
      <4>2. LegFits(l, a) /\ Stage(l)' = a /\ stray[l] = 0
        BY <1>4, <3>7, <4>1 DEF IInv, Exact
      <4>3. LegFits(l, a)'
        BY <1>1, <1>2, <1>3, <2>3, <4>2 DEF LegFits, Remaining
      <4> QED BY <1>2, <4>2, <4>3
    <3> QED BY <3>3, <3>5, <3>6, <3>8 DEF IInv
  <2> QED BY <2>2, <2>3
<1> QED BY <1>6, <1>7

LEMMA RoundStep ==
  ASSUME IInv, TypeOK', StartRound \/ SkipRound
  PROVE  IInv'
<1>1. /\ at = 0 /\ chk = "done" /\ CheckStarts
      /\ UNCHANGED <<exchanges, trade, booked, blocked, history>>
  BY Zenon DEF StartRound, SkipRound
<1>2. UNCHANGED <<pos, exit, limit, stray, status, booked, faults, raced, again>>
  BY <1>1 DEF exchanges, trade, history
<1>3. \/ path' = "poll" /\ at' = 1 /\ saw' = {} /\ counted' = [l \in Legs |-> 0]
      \/ UNCHANGED <<path, at, saw, counted>>
  BY DEF StartRound, SkipRound, monitor
<1>4. chk' = IF status = "Exiting" THEN "cancel_long" ELSE "done"
  BY <1>1 DEF CheckStarts
<1>5. ~PastMark' /\ saw \in SUBSET Legs /\ status \in {"Active", "Exiting"}
  BY <1>1, <1>3 DEF PastMark, IInv, TypeOK
<1>6. Clean' => Clean
  BY <1>2 DEF Clean
<1>7. Control'
  BY <1>1, <1>2, <1>3, <1>4, <1>5 DEF IInv, Control
<1>8. Covered'
  <2>1. \A l \in Legs : pos[l] <= exit[l].left /\ pos[l] <= Remaining(l)
    BY DEF IInv, Covered
  <2>2. \A l \in Legs : pos[l] \in Int /\ exit[l].left \in 0 .. SIZE
    BY DEF IInv, TypeOK, Order
  <2>3. \A l \in Legs : pos[l] <= Remaining(l)'
    BY <1>3, <2>1, <2>2, ExitAssumption DEF Remaining
  <2>4. \A l \in Legs : ~(at' # 0 /\ Acts(path, l)')
    BY <1>1, <1>3 DEF Acts
  <2> QED BY <1>2, <2>1, <2>3, <2>4 DEF Covered
<1>9. Closed'
  <2>1. \A l \in Legs : ~(at' # 0 /\ Acts(path, l)')
    BY <1>1, <1>3 DEF Acts
  <2> QED BY <1>1, <1>2, <1>3, <1>4, <2>1 DEF IInv, Closed, ExitOver
<1>10. Exact'
  <2> SUFFICES ASSUME Clean', NEW l \in Legs PROVE stray'[l] = 0 /\ LegFits(l, Stage(l))'
    BY DEF Exact
  <2>1. PICK a : a = Stage(l)
    OBVIOUS
  <2>2. LegFits(l, a) /\ stray[l] = 0
    BY <1>6, <2>1 DEF IInv, Exact
  <2>3. a \in {"open", "shut"} /\ Stage(l)' = a
    <3>1. CASE status = "Exiting"
      BY <1>1, <1>4, <2>1, <3>1 DEF Stage, ExitOver
    <3>2. CASE status # "Exiting"
      BY <1>1, <1>2, <1>3, <1>4, <2>1, <3>2 DEF Stage, ExitOver, Acts
    <3> QED BY <3>1, <3>2
  <2>4. at' # 0 => counted'[l] = 0
    BY <1>1, <1>3
  <2>5. LegFits(l, a)'
    BY <1>2, <2>2, <2>3, <2>4 DEF LegFits, Quiet
  <2> QED BY <1>2, <2>2, <2>3, <2>5
<1> QED BY <1>7, <1>8, <1>9, <1>10 DEF IInv

(* What a poll leads to.                                                   *)
LEMMA PollMoves ==
  ASSUME IInv, TypeOK', NEW leg \in Legs, Poll(leg)
  PROVE  /\ path = "poll" /\ at # 0
         /\ \A l \in saw' : exit[l].left = 0
         /\ faults' = 0 => faults = 0
         /\ again => again'
         /\ path' = "both" => saw' = Legs
         /\ path' = "hedge_short" => "long" \in saw'
         /\ path' = "hedge_long" => "short" \in saw'
         /\ path' = "force" /\ ~again' => status = "Active"
         /\ at' = 1 \/ (path' \in {"poll", "none"} /\ at' \in {0, 2})
<1>1. Doing("poll", leg) /\ path = "poll" /\ at # 0 /\ (leg = "long" => at = 1)
  <2>1. Doing("poll", leg)
    BY Zenon DEF Poll
  <2> QED BY <2>1, Positions DEF Position, Doing, IInv
<1>2. faults \in Nat /\ saw \in SUBSET Legs /\ again \in BOOLEAN /\ status \in {"Active", "Exiting"}
  BY DEF IInv, TypeOK
<1>3. \A l \in saw' : exit[l].left = 0
  <2>1. \A l \in saw : exit[l].left = 0
    BY DEF IInv, Control
  <2>2. saw' = saw \/ (saw' = saw \cup {leg} /\ exit[leg].left = 0)
    BY DEF Poll, SeenFilled
  <2> QED BY <2>1, <2>2
<1>4. faults' = 0 => faults = 0
  BY <1>2 DEF Poll, Fail, NoFail
<1>5. CASE leg = "long"
  <2>1. Step(1) /\ UNCHANGED <<path, again>>
    BY <1>5 DEF Poll
  <2>2. at' = 2
    BY <1>1, <1>5, <2>1, ShortSteps DEF Step
  <2> QED BY <1>1, <1>3, <1>4, <2>1, <2>2
<1>6. CASE leg # "long"
  <2>1. Decide(saw')
    BY <1>6 DEF Poll
  <2>2. ASSUME NEW p, Take(p)
        PROVE  /\ path' = p /\ at' = 1 /\ (again => again')
               /\ p = "force" /\ ~again' => status = "Active"
    BY <1>2, <2>2 DEF Take
  <2>3. CASE saw' = Legs /\ Take("both")
    BY <1>1, <1>3, <1>4, <2>2, <2>3
  <2>4. CASE saw' = {"long"} /\ Take("hedge_short")
    BY <1>1, <1>3, <1>4, <2>2, <2>4
  <2>5. CASE saw' = {"short"} /\ Take("hedge_long")
    BY <1>1, <1>3, <1>4, <2>2, <2>5
  <2>6. CASE saw' = {} /\ Take("force")
    BY <1>1, <1>3, <1>4, <2>2, <2>6
  <2>7. CASE saw' = {} /\ Take("stop")
    BY <1>1, <1>3, <1>4, <2>2, <2>7
  <2>8. CASE path' = "none" /\ at' = 0 /\ UNCHANGED again
    BY <1>1, <1>3, <1>4, <2>8
  <2> QED BY <2>1, <2>3, <2>4, <2>5, <2>6, <2>7, <2>8 DEF Decide
<1> QED BY <1>5, <1>6

LEMMA PollStep ==
  ASSUME IInv, TypeOK', NEW leg \in Legs, Poll(leg)
  PROVE  IInv'
<1>1. UNCHANGED <<exchanges, trade, counted, check, raced>>
  BY Zenon DEF Poll
<1>2. UNCHANGED <<pos, exit, limit, stray, status, chk, booked>>
  BY <1>1 DEF exchanges, trade, check
<1>3. /\ path = "poll" /\ at # 0
      /\ \A l \in saw' : exit[l].left = 0
      /\ faults' = 0 => faults = 0
      /\ path' = "both" => saw' = Legs
      /\ path' = "hedge_short" => "long" \in saw'
      /\ path' = "hedge_long" => "short" \in saw'
      /\ path' = "force" /\ ~again' => status = "Active"
      /\ at' = 1 \/ (path' \in {"poll", "none"} /\ at' \in {0, 2})
  BY PollMoves, Zenon
<1>4. again => again'
  BY PollMoves, Zenon
<1>5. Clean' => Clean
  BY <1>1, <1>3, <1>4 DEF Clean
<1>6. ~PastMark /\ ~PastMark' /\ status \in {"Active", "Exiting"}
  BY <1>3 DEF PastMark, IInv, TypeOK
<1>7. status = "Exiting" /\ chk = "done" => faults # 0
  BY <1>3, <1>6 DEF IInv, Control
<1>8. Control'
  <2>1. saw' \in SUBSET Legs
    BY DEF TypeOK
  <2> QED BY <1>2, <1>3, <1>6, <1>7, <2>1 DEF IInv, Control
<1>9. \A l \in Legs : /\ ~(at' # 0 /\ Acts(path, l)' /\ at' = LimitAt(path, l)' + 1)
                      /\ ~(at' # 0 /\ Acts(path, l)' /\ at' > MarketAt(path, l)')
  BY <1>3 DEF Acts, LimitAt, MarketAt, Legs
<1>10. Covered'
  BY <1>1, <1>2, <1>9 DEF IInv, Covered, Remaining
<1>11. Closed'
  BY <1>2, <1>3, <1>6, <1>7, <1>9 DEF IInv, Closed, ExitOver
<1>12. Exact'
  <2>1. CASE chk # "done"
    BY <1>2, <1>5, <2>1, BookedStaysExact
  <2>2. CASE chk = "done"
    <3> SUFFICES ASSUME Clean', NEW l \in Legs PROVE stray'[l] = 0 /\ LegFits(l, Stage(l))'
      BY DEF Exact
    <3>1. status = "Active"
      BY <1>5, <1>6, <1>7, <2>2 DEF Clean
    <3>2. Stage(l) = "open"
      BY <1>3, <2>2, <3>1 DEF Stage, ExitOver, Acts
    <3>3. at' = 1 => 1 <= CancelAt(path, l)'
      BY DEF CancelAt
    <3>4. Stage(l)' = "open"
      BY <1>2, <1>3, <2>2, <3>1, <3>3 DEF Stage, ExitOver, Acts
    <3>5. LegFits(l, "open") /\ stray[l] = 0
      BY <1>5, <3>2 DEF IInv, Exact
    <3>6. counted[l] = 0
      BY <1>3, <3>5 DEF LegFits
    <3> QED BY <1>1, <1>2, <3>4, <3>5, <3>6 DEF LegFits, Quiet
  <2> QED BY <2>1, <2>2
<1> QED BY <1>8, <1>10, <1>11, <1>12 DEF IInv

-----------------------------------------------------------------------------
(* check_exits.                                                            *)

LEMMA ChkCancelStep ==
  ASSUME IInv, TypeOK', NEW leg \in Legs, ChkCancel(leg)
  PROVE  IInv'
<1>1. UNCHANGED <<pos, limit, stray, trade, monitor, booked, blocked, raced, again>>
  BY Zenon DEF ChkCancel
<1>2. UNCHANGED <<status, path, at, saw, counted>> /\ chk # "done" /\ chk' # "done"
  BY <1>1 DEF ChkCancel, trade, monitor
<1>3. CancelEffect(leg)
  BY Cancels DEF ChkCancel, IInv, TypeOK
<1>4. /\ faults' = 0 => faults = 0
      /\ \A l \in Legs : exit'[l].left = exit[l].left /\ (exit'[l].live => exit[l].live)
  BY <1>3 DEF CancelEffect
<1>5. Clean' => Clean
  BY <1>1, <1>4 DEF Clean
<1>6. (PastMark' <=> PastMark) /\ saw \in SUBSET Legs
  BY <1>2 DEF PastMark, IInv, TypeOK
<1>7. Control'
  BY <1>1, <1>2, <1>4, <1>6 DEF IInv, Control
<1>8. Covered'
  BY <1>1, <1>2, <1>4 DEF IInv, Covered, Remaining
<1>9. Closed'
  BY <1>1, <1>2, <1>4 DEF IInv, Closed, ExitOver
<1>10. Exact'
  BY <1>1, <1>2, <1>4, <1>5, BookedStaysExact
<1> QED BY <1>7, <1>8, <1>9, <1>10 DEF IInv

LEMMA ChkCloseStep ==
  ASSUME IInv, TypeOK', ChkClose \/ ChkCloseErr
  PROVE  IInv'
<1>1. /\ chk = "close" /\ booked' = TRUE
      /\ UNCHANGED <<exchanges, trade, monitor, raced, again>>
  BY DEF ChkClose, ChkCloseErr, history
<1>2. UNCHANGED <<pos, exit, limit, stray, status, path, at, saw, counted>>
  BY <1>1 DEF exchanges, trade, monitor
<1>3. (chk' = chk /\ faults' = faults) \/ (chk' = "done" /\ faults' # 0)
  BY DEF ChkClose, ChkCloseErr, history, Fail, IInv, TypeOK
<1>4. /\ (PastMark' <=> PastMark) /\ ~PastMark /\ status = "Exiting" /\ saw \in SUBSET Legs
  BY <1>1, <1>2 DEF PastMark, IInv, TypeOK, Control
<1>5. Control'
  BY <1>1, <1>2, <1>3, <1>4 DEF IInv, Control
<1>6. Covered'
  BY <1>2 DEF IInv, Covered, Remaining
<1>7. Closed'
  BY <1>1, <1>2, <1>3 DEF IInv, Closed, ExitOver
<1>8. Exact'
  <2>1. CASE faults' # 0
    BY <2>1 DEF Exact, Clean
  <2>2. CASE faults' = 0
    <3>1. (Clean' => Clean) /\ chk' # "done"
      BY <1>1, <1>3, <2>2 DEF Clean
    <3> QED BY <1>1, <1>2, <3>1, BookedStaysExact
  <2> QED BY <2>1, <2>2
<1> QED BY <1>5, <1>6, <1>7, <1>8 DEF IInv

-----------------------------------------------------------------------------
(* The exchanges.                                                          *)

(* A fill closes one contract of its leg; the two programs do not move.    *)
LEMMA FillsKeep ==
  ASSUME IInv, TypeOK', NEW leg \in Legs, pos' = [pos EXCEPT ![leg] = @ - 1],
         UNCHANGED <<status, path, at, saw, counted, chk, booked, faults, again>>,
         \A l \in saw : exit'[l].left = 0
  PROVE  /\ Control' /\ Closed'
         /\ pos'[leg] = pos[leg] - 1 /\ \A o \in Legs \ {leg} : pos'[o] = pos[o]
         /\ \A l \in Legs : pos'[l] <= Remaining(l)' /\ Stage(l)' = Stage(l)
<1>1. pos \in [Legs -> Int] /\ saw \in SUBSET Legs
  BY DEF IInv, TypeOK
<1>2. pos'[leg] = pos[leg] - 1 /\ \A o \in Legs \ {leg} : pos'[o] = pos[o]
  BY <1>1
<1>3. PastMark' <=> PastMark
  BY DEF PastMark
<1>4. Control'
  BY <1>1, <1>3 DEF IInv, Control
<1>5. \A l \in Legs : (pos[l] <= 0 => pos'[l] <= 0) /\ (pos[l] <= DUST => pos'[l] <= DUST)
  BY <1>1, <1>2, ExitAssumption
<1>6. Closed'
  BY <1>5 DEF IInv, Closed, ExitOver
<1>7. \A l \in Legs : pos'[l] <= Remaining(l)'
  <2>1. \A l \in Legs : pos[l] <= SIZE - counted[l] /\ counted[l] \in Int
    BY DEF IInv, Covered, Remaining, TypeOK
  <2> QED BY <1>1, <1>2, <2>1, ExitAssumption DEF Remaining
<1>8. \A l \in Legs : Stage(l)' = Stage(l)
  BY DEF Stage, ExitOver
<1> QED BY <1>2, <1>4, <1>6, <1>7, <1>8

(* One order of a leg fills by one.                                        *)
LEMMA OneLess ==
  ASSUME NEW o, NEW f \in [Legs -> Order], NEW leg \in Legs, f[leg].left > 0,
         o = [f EXCEPT ![leg].left = @ - 1]
  PROVE  /\ o[leg].left = f[leg].left - 1 /\ (o[leg].live <=> f[leg].live)
         /\ \A l \in Legs \ {leg} : o[l] = f[l]
<1>1. PICK q : q = [f[leg] EXCEPT !.left = @ - 1]
  OBVIOUS
<1>2. f[leg] \in Order
  OBVIOUS
<1>3. q.left = f[leg].left - 1
  BY <1>1, <1>2 DEF Order
<1>4. q.live <=> f[leg].live
  BY <1>1, <1>2 DEF Order
<1>5. o[leg] = q /\ \A l \in Legs \ {leg} : o[l] = f[l]
  BY <1>1
<1> QED BY <1>3, <1>4, <1>5

LEMMA FillExitStep ==
  ASSUME IInv, TypeOK', NEW leg \in Legs, FillExit(leg)
  PROVE  IInv'
<1>1. /\ exit[leg].live /\ exit[leg].left > 0
      /\ exit' = [exit EXCEPT ![leg].left = @ - 1] /\ pos' = [pos EXCEPT ![leg] = @ - 1]
      /\ UNCHANGED <<limit, stray, trade, monitor, check, history>>
  BY Zenon DEF FillExit
<1>2. UNCHANGED <<status, path, at, saw, counted, chk, booked, faults, raced, again>>
  BY <1>1 DEF trade, monitor, check, history
<1>3. /\ exit \in [Legs -> Order] /\ saw \in SUBSET Legs /\ pos \in [Legs -> Int]
      /\ limit \in [Legs -> Order]
  BY DEF IInv, TypeOK
<1>4. /\ exit'[leg].left = exit[leg].left - 1
      /\ \A l \in Legs \ {leg} : exit'[l] = exit[l]
  BY <1>1, <1>3, OneLess
<1>5. \A l \in saw : exit'[l].left = 0
  BY <1>1, <1>3, <1>4 DEF IInv, Control
<1>6. /\ Control' /\ Closed'
      /\ pos'[leg] = pos[leg] - 1 /\ \A o \in Legs \ {leg} : pos'[o] = pos[o]
      /\ \A l \in Legs : pos'[l] <= Remaining(l)' /\ Stage(l)' = Stage(l)
  BY <1>1, <1>2, <1>5, FillsKeep
<1>7. Clean' => Clean
  BY <1>2 DEF Clean
<1>8. \A l \in Legs : exit[l].left \in Int /\ limit[l].left \in Int
  BY <1>3 DEF Order
<1>9. Covered'
  <2>1. \A l \in Legs : pos'[l] <= exit'[l].left
    BY <1>3, <1>4, <1>6, <1>8 DEF IInv, Covered
  <2>2. \A l \in Legs : pos[l] <= limit[l].left => pos'[l] <= limit'[l].left
    BY <1>1, <1>3, <1>6, <1>8
  <2> QED BY <1>2, <1>6, <2>1, <2>2 DEF IInv, Covered
<1>10. Exact'
  <2> SUFFICES ASSUME Clean', NEW l \in Legs PROVE stray'[l] = 0 /\ LegFits(l, Stage(l))'
    BY DEF Exact
  <2>1. PICK a : a = Stage(l)
    OBVIOUS
  <2>2. LegFits(l, a) /\ Stage(l)' = a /\ stray[l] = 0
    BY <1>6, <1>7, <2>1 DEF IInv, Exact
  <2>3. CASE l = leg
    <3>1. a = "open"
      BY <1>1, <2>2, <2>3 DEF LegFits, Quiet
    <3>2. pos'[l] = exit'[l].left /\ Quiet(limit[l])' /\ (at' # 0 => counted'[l] = 0)
      BY <1>1, <1>2, <1>4, <1>6, <2>2, <2>3, <3>1 DEF LegFits, Quiet
    <3>3. LegFits(l, a)'
      BY <3>1, <3>2 DEF LegFits
    <3> QED BY <1>1, <2>2, <3>3
  <2>4. CASE l # leg
    <3>1. LegFits(l, a)'
      BY <1>1, <1>2, <1>4, <1>6, <2>2, <2>4 DEF LegFits, Remaining, Quiet
    <3> QED BY <1>1, <2>2, <3>1
  <2> QED BY <2>3, <2>4
<1> QED BY <1>6, <1>9, <1>10 DEF IInv

LEMMA FillLimitStep ==
  ASSUME IInv, TypeOK', NEW leg \in Legs, FillLimit(leg)
  PROVE  IInv'
<1>1. /\ limit[leg].live /\ limit[leg].left > 0
      /\ limit' = [limit EXCEPT ![leg].left = @ - 1] /\ pos' = [pos EXCEPT ![leg] = @ - 1]
      /\ UNCHANGED <<exit, stray, trade, monitor, check, faults, again>>
  BY Zenon DEF FillLimit
<1>2. raced' = (raced \/ ~Doing("look", leg))
  BY Zenon DEF FillLimit
<1>3. UNCHANGED <<status, path, at, saw, counted, chk, booked, faults, again>>
  BY <1>1 DEF trade, monitor, check
<1>4. /\ exit \in [Legs -> Order] /\ saw \in SUBSET Legs /\ pos \in [Legs -> Int]
      /\ limit \in [Legs -> Order]
  BY DEF IInv, TypeOK
<1>5. /\ limit'[leg].left = limit[leg].left - 1
      /\ \A l \in Legs \ {leg} : limit'[l] = limit[l]
  BY <1>1, <1>4, OneLess
<1>6. \A l \in saw : exit'[l].left = 0
  BY <1>1 DEF IInv, Control
<1>7. /\ Control' /\ Closed'
      /\ pos'[leg] = pos[leg] - 1 /\ \A o \in Legs \ {leg} : pos'[o] = pos[o]
      /\ \A l \in Legs : pos'[l] <= Remaining(l)' /\ Stage(l)' = Stage(l)
  BY <1>1, <1>3, <1>6, FillsKeep
<1>8. Clean' => Clean /\ Doing("look", leg)
  BY <1>2, <1>3, Zenon DEF Clean
<1>9. \A l \in Legs : exit[l].left \in Int /\ limit[l].left \in Int
  BY <1>4 DEF Order
<1>10. Covered'
  <2>1. \A l \in Legs : pos'[l] <= exit'[l].left
    BY <1>1, <1>4, <1>7, <1>9 DEF IInv, Covered
  <2>2. \A l \in Legs : pos[l] <= limit[l].left => pos'[l] <= limit'[l].left
    BY <1>4, <1>5, <1>7, <1>9
  <2> QED BY <1>3, <1>7, <2>1, <2>2 DEF IInv, Covered
<1>11. Exact'
  <2> SUFFICES ASSUME Clean', NEW l \in Legs PROVE stray'[l] = 0 /\ LegFits(l, Stage(l))'
    BY DEF Exact
  <2>1. PICK a : a = Stage(l)
    OBVIOUS
  <2>2. LegFits(l, a) /\ Stage(l)' = a /\ stray[l] = 0
    BY <1>7, <1>8, <2>1 DEF IInv, Exact
  <2>3. CASE l = leg
    <3>1. a = "look"
      <4>1. Position("look", leg) /\ at # 0
        BY <1>8, Positions DEF Doing, IInv
      <4>2. Acts(path, leg) /\ at = LimitAt(path, leg) + 1 /\ at \in 1 .. 13
        BY <4>1 DEF Position, IInv, TypeOK
      <4>3. a \in {"look", "shut"}
        <5>1. leg = "long" \/ leg = "short"
          BY DEF Legs
        <5>2. path \in {"force", "stop", "hedge_short", "hedge_long"}
          BY <4>2 DEF Acts
        <5> QED BY <2>1, <2>3, <4>2, <5>1, <5>2 DEF Stage, ExitOver, Acts, CancelAt, ReadAt, LimitAt
      <4> QED BY <1>1, <2>2, <2>3, <4>3 DEF LegFits, Quiet
    <3>2. pos'[l] = limit'[l].left /\ ~exit'[l].live
      BY <1>1, <1>5, <1>7, <2>2, <2>3, <3>1 DEF LegFits
    <3>3. LegFits(l, a)'
      BY <3>1, <3>2 DEF LegFits
    <3> QED BY <1>1, <2>2, <3>3
  <2>4. CASE l # leg
    <3>1. LegFits(l, a)'
      BY <1>1, <1>3, <1>5, <1>7, <2>2, <2>4 DEF LegFits, Remaining, Quiet
    <3> QED BY <1>1, <2>2, <3>1
  <2> QED BY <2>3, <2>4
<1> QED BY <1>7, <1>10, <1>11 DEF IInv

LEMMA FillStrayStep ==
  ASSUME IInv, TypeOK', NEW leg \in Legs, FillStray(leg)
  PROVE  IInv'
<1>1. /\ stray[leg] > 0 /\ pos' = [pos EXCEPT ![leg] = @ - 1]
      /\ UNCHANGED <<exit, limit, trade, monitor, check, history>>
  BY Zenon DEF FillStray
<1>2. UNCHANGED <<status, path, at, saw, counted, chk, booked, faults, raced, again>>
  BY <1>1 DEF trade, monitor, check, history
<1>3. pos \in [Legs -> Int] /\ exit \in [Legs -> Order] /\ limit \in [Legs -> Order]
  BY DEF IInv, TypeOK
<1>4. \A l \in saw : exit'[l].left = 0
  BY <1>1 DEF IInv, Control
<1>5. /\ Control' /\ Closed'
      /\ pos'[leg] = pos[leg] - 1 /\ \A o \in Legs \ {leg} : pos'[o] = pos[o]
      /\ \A l \in Legs : pos'[l] <= Remaining(l)'
  BY <1>1, <1>2, <1>4, FillsKeep
<1>6. \A l \in Legs : exit[l].left \in Int /\ limit[l].left \in Int
  BY <1>3 DEF Order
<1>7. Covered'
  <2>1. \A l \in Legs : pos'[l] <= exit'[l].left
    BY <1>1, <1>3, <1>5, <1>6 DEF IInv, Covered
  <2>2. \A l \in Legs : pos[l] <= limit[l].left => pos'[l] <= limit'[l].left
    BY <1>1, <1>3, <1>5, <1>6
  <2> QED BY <1>2, <1>5, <2>1, <2>2 DEF IInv, Covered
<1>8. Exact'
  <2>1. ~Clean
    BY <1>1 DEF IInv, Exact
  <2> QED BY <1>2, <2>1 DEF Exact, Clean
<1> QED BY <1>5, <1>7, <1>8 DEF IInv

-----------------------------------------------------------------------------
(* The theorems.                                                           *)

LEMMA InitIInv ==
  Init => IInv
<1> SUFFICES ASSUME Init PROVE IInv
  OBVIOUS
<1>1. /\ \A l \in Legs : /\ pos[l] = SIZE /\ exit[l] = [live |-> TRUE, left |-> SIZE]
                         /\ limit[l] = NoOrder /\ stray[l] = 0 /\ counted[l] = 0
      /\ status = "Active" /\ path = "none" /\ at = 0 /\ saw = {} /\ chk = "done" /\ ~booked
  BY DEF Init
<1>2. TypeOK
  <2>1. [live |-> TRUE, left |-> SIZE] \in Order /\ NoOrder \in Order
    BY ExitAssumption DEF Order, NoOrder
  <2>2. /\ exit \in [Legs -> Order] /\ limit \in [Legs -> Order]
    BY <2>1 DEF Init
  <2>3. pos \in [Legs -> Int] /\ stray \in [Legs -> Nat] /\ counted \in [Legs -> 0 .. SIZE]
    BY ExitAssumption DEF Init
  <2>4. /\ stop_loss_triggered \in BOOLEAN /\ booked \in BOOLEAN /\ blocked \in BOOLEAN
        /\ raced \in BOOLEAN /\ again \in BOOLEAN
    BY Zenon DEF Init
  <2>5. faults \in Nat
    BY DEF Init
  <2>6. at \in 0 .. 13 /\ at <= Length(path)
    BY <1>1 DEF Length
  <2> QED BY <1>1, <2>2, <2>3, <2>4, <2>5, <2>6 DEF TypeOK
<1>3. Control
  BY <1>1 DEF Control, PastMark
<1>4. Covered
  BY <1>1, ExitAssumption DEF Covered, Remaining
<1>5. Closed
  BY <1>1 DEF Closed, ExitOver
<1>6. Exact
  <2>1. \A l \in Legs : Stage(l) = "open"
    BY <1>1 DEF Stage, ExitOver
  <2> QED BY <1>1, <2>1 DEF Exact, LegFits, Quiet, NoOrder
<1> QED BY <1>2, <1>3, <1>4, <1>5, <1>6 DEF IInv

LEMMA StutterIInv ==
  ASSUME IInv, TypeOK', UNCHANGED vars
  PROVE  IInv'
<1>1. UNCHANGED <<pos, exit, limit, stray, status, path, at, saw, counted, chk, booked,
                  faults, raced, again>>
  BY DEF vars, exchanges, trade, monitor, check, history
<1>2. Control'
  BY <1>1 DEF IInv, Control, PastMark
<1>3. Covered'
  BY <1>1 DEF IInv, Covered, Remaining
<1>4. Closed'
  BY <1>1 DEF IInv, Closed, ExitOver
<1>5. Exact'
  <2>1. Clean' => Clean
    BY <1>1 DEF Clean
  <2> SUFFICES ASSUME Clean', NEW l \in Legs PROVE stray'[l] = 0 /\ LegFits(l, Stage(l))'
    BY DEF Exact
  <2>2. PICK a : a = Stage(l)
    OBVIOUS
  <2>3. LegFits(l, a) /\ stray[l] = 0
    BY <2>1, <2>2 DEF IInv, Exact
  <2>4. Stage(l)' = a
    BY <1>1, <2>2 DEF Stage, ExitOver
  <2>5. LegFits(l, a)'
    BY <1>1, <2>3 DEF LegFits, Remaining
  <2> QED BY <1>1, <2>3, <2>4, <2>5
<1> QED BY <1>2, <1>3, <1>4, <1>5 DEF IInv

LEMMA NextIInv ==
  ASSUME IInv, [Next]_vars
  PROVE  IInv'
<1>1. TypeOK'
  BY TypesKept DEF IInv
<1>2. CASE UNCHANGED vars
  BY <1>1, <1>2, StutterIInv
<1>3. CASE Monitor
  BY <1>1, <1>3, RoundStep, MarkExitingStep, PollStep, CancelStep, ReadStep, NoLimitStep,
     PlaceLimitStep, LimitFailsStep, LookStep, DropStep, MarketStep DEF Monitor
<1>4. CASE Check
  BY <1>1, <1>4, ChkCancelStep, ChkCloseStep DEF Check
<1>5. CASE Exchange
  BY <1>1, <1>5, FillExitStep, FillLimitStep, FillStrayStep DEF Exchange
<1> QED BY <1>2, <1>3, <1>4, <1>5 DEF Next

(* At every step of monitor_active_positions and check_exits the           *)
(* positions, the orders and what has been counted fit together as IInv    *)
(* says, whichever calls fail and whenever the orders fill.                *)
THEOREM InductiveInvariant == Spec => []IInv
<1>1. Init => IInv
  BY InitIInv
<1>2. IInv /\ [Next]_vars => IInv'
  BY NextIInv
<1> QED BY <1>1, <1>2, PTL DEF Spec

(* For legs of any size, any tolerated rest and any number of failing      *)
(* calls: a leg that is open by more than that rest when the monitor has   *)
(* left an Exiting trade, or when close_trade has booked it, was left open *)
(* by a call that failed.                                                  *)
THEOREM OnlyFailuresLeaveLegsOpen == Spec => []OpenLegMeansFailure
<1>1. IInv => OpenLegMeansFailure
  <2> SUFFICES ASSUME IInv, ExitOver \/ booked, NEW leg \in Legs, pos[leg] > DUST
               PROVE  faults > 0
    BY DEF OpenLegMeansFailure
  <2>1. faults \in Nat /\ pos[leg] \in Int
    BY DEF IInv, TypeOK
  <2>2. faults # 0
    BY <2>1, ExitAssumption DEF IInv, Closed
  <2> QED BY <2>1, <2>2
<1> QED BY <1>1, InductiveInvariant, PTL

(* Without a failing call, a fill after the last look and a second forced  *)
(* exit, the exit, limit and market orders of the four ways out of a trade *)
(* never close more than is open; filled and hedged exits close each leg   *)
(* exactly, forced and stopped ones all but the tolerated rest.            *)
THEOREM CleanExitsAreExact == Spec => []CleanExitIsExact
<1>1. IInv => CleanExitIsExact
  <2> SUFFICES ASSUME IInv, Clean, NEW leg \in Legs
               PROVE  pos[leg] >= 0 /\ (ExitOver => pos[leg] <= LeftOpen)
    BY DEF CleanExitIsExact, Clean
  <2>1. LegFits(leg, Stage(leg))
    BY DEF IInv, Exact
  <2>2. /\ exit[leg].left \in 0 .. SIZE /\ limit[leg].left \in 0 .. SIZE
        /\ Remaining(leg) \in 0 .. SIZE
    BY ExitAssumption DEF IInv, TypeOK, Order, Remaining
  <2>3. Stage(leg) \in {"open", "cancelled", "read", "look", "drop", "rest", "shut"}
    BY DEF Stage
  <2>4. pos[leg] >= 0
    BY <2>1, <2>2, <2>3, ExitAssumption DEF LegFits
  <2>5. ASSUME ExitOver PROVE pos[leg] <= LeftOpen
    BY <2>5 DEF IInv, Closed, Clean, LeftOpen
  <2> QED BY <2>4, <2>5
<1> QED BY <1>1, InductiveInvariant, PTL
=============================================================================
