------------------------- MODULE MarketOrderProofs -------------------------
(***************************************************************************)
(* Proofs about the two routines that retry market orders on every doubt.  *)
(*                                                                         *)
(* MarketHedge: for every MAX_RETRIES and every TARGET, a hedge reported   *)
(* as done is never short of its target, the exposure of the retry policy  *)
(* is bounded, and the routine implements HedgeContract, which             *)
(* EntryExecutor takes for granted.                                        *)
(*                                                                         *)
(* EmergencyClose: for every number of retries, every size and every step, *)
(* the close never sends more than one size, and its rounding, per attempt *)
(* and an Ok is backed by orders for the leg but less than a step.         *)
(***************************************************************************)
EXTENDS MarketHedge, EmergencyClose, TLAPS

(* What is verified is held, an order never asks for more than is missing  *)
(* from the verified fills, and Ok is returned for a complete one.         *)
Believed ==
    /\ total_filled + (IF pc = "verify" THEN order.filled ELSE 0) <= position
    /\ pc = "verify" => order.qty + total_filled <= TARGET
    /\ pc = "ok" => total_filled >= TARGET

IInv == TypeOK /\ Believed /\ ExposureBounded

USE RetriesAssumption, TargetAssumption

-----------------------------------------------------------------------------
(* Arithmetic of the exposure bound: one more attempt is one more target.  *)
LEMMA OneMoreAttempt ==
    ASSUME NEW a \in Nat
    PROVE  (a + 1) * TARGET = a * TARGET + TARGET
  OBVIOUS

LEMMA AttemptsBounded ==
    ASSUME NEW a \in Nat, a <= MAX_RETRIES
    PROVE  a * TARGET <= MAX_RETRIES * TARGET
<1>1. PICK d \in Nat : MAX_RETRIES = a + d
  <2>1. MAX_RETRIES - a \in Nat /\ MAX_RETRIES = a + (MAX_RETRIES - a)
    OBVIOUS
  <2> QED BY <2>1
<1>2. MAX_RETRIES * TARGET = a * TARGET + d * TARGET
  BY <1>1
<1>3. d * TARGET \in Nat
  OBVIOUS
<1> QED BY <1>2, <1>3

(* The initial state satisfies the inductive invariant.                    *)
LEMMA InitIInv == Init => IInv
  BY DEF Init, IInv, TypeOK, Believed, ExposureBounded, NoOrder, Sent, Remaining

(* Every step of the routine and of the exchange preserves it.             *)
LEMMA NextIInv == IInv /\ [Next]_vars => IInv'
<1> SUFFICES ASSUME IInv, [Next]_vars PROVE IInv'
  OBVIOUS
<1> USE DEF IInv
<1>t. TypeOK'
  <2> USE DEF TypeOK, Believed, Remaining
  <2>1. CASE PlaceAccepted BY <2>1 DEF PlaceAccepted
  <2>2. CASE PlaceRejected BY <2>2 DEF PlaceRejected, NextAttempt
  <2>3. CASE PlaceReplyLost BY <2>3 DEF PlaceReplyLost, NextAttempt
  <2>4. CASE VerifyOk BY <2>4 DEF VerifyOk, NextAttempt
  <2>5. CASE VerifyFailed BY <2>5 DEF VerifyFailed, NextAttempt
  <2>6. CASE ExchangeFills BY <2>6 DEF ExchangeFills
  <2>7. CASE ExchangeFillsLate BY <2>7 DEF ExchangeFillsLate
  <2>8. CASE ExchangeExpires BY <2>8 DEF ExchangeExpires
  <2>9. CASE UNCHANGED vars BY <2>9 DEF vars
  <2> QED BY <2>1, <2>2, <2>3, <2>4, <2>5, <2>6, <2>7, <2>8, <2>9
          DEF Next, Routine, Exchange
<1>b. Believed'
  <2> USE DEF TypeOK, Believed, Remaining
  <2>1. CASE PlaceAccepted BY <2>1 DEF PlaceAccepted
  <2>2. CASE PlaceRejected BY <2>2 DEF PlaceRejected, NextAttempt
  <2>3. CASE PlaceReplyLost BY <2>3 DEF PlaceReplyLost, NextAttempt
  <2>4. CASE VerifyOk BY <2>4 DEF VerifyOk, NextAttempt
  <2>5. CASE VerifyFailed BY <2>5 DEF VerifyFailed, NextAttempt
  <2>6. CASE ExchangeFills BY <2>6 DEF ExchangeFills
  <2>7. CASE ExchangeFillsLate BY <2>7 DEF ExchangeFillsLate
  <2>8. CASE ExchangeExpires BY <2>8 DEF ExchangeExpires
  <2>9. CASE UNCHANGED vars BY <2>9 DEF vars
  <2> QED BY <2>1, <2>2, <2>3, <2>4, <2>5, <2>6, <2>7, <2>8, <2>9
          DEF Next, Routine, Exchange
<1>e. ExposureBounded'
  <2>0. (attempt - 1) * TARGET \in Nat /\ attempt * TARGET = (attempt - 1) * TARGET + TARGET
    <3>1. attempt - 1 \in Nat
      BY DEF TypeOK
    <3> QED BY <3>1, OneMoreAttempt DEF TypeOK
  <2> DEFINE below == (attempt - 1) * TARGET
             upto == attempt * TARGET
  <2> HIDE DEF below, upto
  <2>a. below \in Nat /\ upto = below + TARGET
    BY <2>0 DEF below, upto
  <2>b. (pc = "attempt" => position + late + Remaining <= below)
        /\ (pc # "attempt" => position + late + Remaining <= upto)
    BY DEF ExposureBounded, Sent, below, upto
  <2>c. ASSUME position' + late' + Remaining' <= upto,
               \/ pc' # "attempt" /\ attempt' = attempt
               \/ pc' = "attempt" /\ attempt' = attempt + 1
        PROVE  ExposureBounded'
    <3>1. CASE pc' # "attempt" /\ attempt' = attempt
      BY <3>1, <2>c DEF ExposureBounded, Sent, upto
    <3>2. CASE attempt' = attempt + 1 /\ pc' = "attempt"
      <4>1. attempt' - 1 = attempt
        BY <3>2 DEF TypeOK
      <4> QED BY <3>2, <4>1, <2>c DEF ExposureBounded, Sent, upto
    <3> QED BY <2>c, <3>1, <3>2
  <2>d. ASSUME UNCHANGED <<pc, attempt>>,
               position' + late' + Remaining' <= position + late + Remaining
        PROVE  ExposureBounded'
    <3>1. Sent' = Sent
      BY <2>d DEF Sent
    <3>2. CASE pc = "attempt"
      BY <2>d, <2>a, <2>b, <3>2, <1>t DEF ExposureBounded, Sent, below, TypeOK, Remaining
    <3>3. CASE pc # "attempt"
      BY <2>d, <2>a, <2>b, <3>3, <1>t DEF ExposureBounded, Sent, upto, TypeOK, Remaining
    <3> QED BY <3>2, <3>3
  <2> USE DEF TypeOK, Believed, Remaining
  <2>1. CASE PlaceAccepted BY <2>1, <2>a, <2>b, <2>c DEF PlaceAccepted
  <2>2. CASE PlaceRejected BY <2>2, <2>a, <2>b, <2>c DEF PlaceRejected, NextAttempt
  <2>3. CASE PlaceReplyLost BY <2>3, <2>a, <2>b, <2>c DEF PlaceReplyLost, NextAttempt
  <2>4. CASE VerifyOk BY <2>4, <2>a, <2>b, <2>c DEF VerifyOk, NextAttempt
  <2>5. CASE VerifyFailed BY <2>5, <2>a, <2>b, <2>c DEF VerifyFailed, NextAttempt
  <2>6. CASE ExchangeFills BY <2>6, <2>d DEF ExchangeFills
  <2>7. CASE ExchangeFillsLate BY <2>7, <2>d DEF ExchangeFillsLate
  <2>8. CASE ExchangeExpires BY <2>8, <2>d DEF ExchangeExpires
  <2>9. CASE UNCHANGED vars BY <2>9, <2>d DEF vars
  <2> QED BY <2>1, <2>2, <2>3, <2>4, <2>5, <2>6, <2>7, <2>8, <2>9
          DEF Next, Routine, Exchange
<1> QED BY <1>t, <1>b, <1>e

(* The inductive invariant holds throughout place_market_order_with_retry. *)
THEOREM InductiveInvariant == Spec => []IInv
  BY InitIInv, NextIInv, PTL DEF Spec

(* The variables of place_market_order_with_retry keep their types: its    *)
(* loop counter stays in range and it never believes in more than the      *)
(* target.                                                                 *)
THEOREM TypeCorrect == Spec => []TypeOK
<1>1. IInv => TypeOK
  BY DEF IInv
<1> QED BY <1>1, InductiveInvariant, PTL

(* An Ok of place_market_order_with_retry means the whole target is held,  *)
(* for every number of retries and every target quantity.                  *)
THEOREM HedgeIsComplete == Spec => []NeverUnderHedged
<1>1. IInv => NeverUnderHedged
  BY DEF IInv, TypeOK, Believed, NeverUnderHedged
<1> QED BY <1>1, InductiveInvariant, PTL

(* The quantity that place_market_order_with_retry may acquire is at most  *)
(* one target per attempt already made.                                    *)
THEOREM ExposureIsBounded == Spec => []ExposureBounded
<1>1. IInv => ExposureBounded
  BY DEF IInv
<1> QED BY <1>1, InductiveInvariant, PTL

-----------------------------------------------------------------------------
(* No state holds more than one target per retry.                          *)
WithinLimit == position <= MAX_RETRIES * TARGET

LEMMA PositionBounded == IInv => WithinLimit
<1> SUFFICES ASSUME IInv PROVE WithinLimit
  OBVIOUS
<1>1. Sent \in Nat /\ Sent <= MAX_RETRIES
  BY DEF IInv, TypeOK, Sent
<1>2. Sent * TARGET <= MAX_RETRIES * TARGET
  BY <1>1, AttemptsBounded
<1>3. Sent * TARGET \in Nat /\ MAX_RETRIES * TARGET \in Nat
  BY <1>1
<1> HIDE DEF Sent
<1>4. position + late + Remaining <= Sent * TARGET
  BY DEF IInv, ExposureBounded
<1>5. position \in Nat /\ late \in Nat /\ Remaining \in Nat
  BY DEF IInv, TypeOK, Remaining
<1> DEFINE s == Sent * TARGET
           m == MAX_RETRIES * TARGET
<1> HIDE DEF s, m
<1>6. s \in Nat /\ m \in Nat /\ s <= m /\ position + late + Remaining <= s
  BY <1>2, <1>3, <1>4 DEF s, m
<1>7. position <= m
  BY <1>5, <1>6
<1> QED BY <1>7 DEF m, WithinLimit

(* place_market_order_with_retry implements the contract EntryExecutor     *)
(* relies on: what it holds only grows, within the limit, and Ok is        *)
(* reported once and only for a complete hedge.                            *)
THEOREM HedgeImplementsContract == Spec => ContractSpec
<1>1. Init => Contract!Init
  BY DEF Init, Contract!Init
<1>2. IInv /\ IInv' /\ WithinLimit' /\ [Next]_vars => [Contract!Next]_Contract!hedgeVars
  <2> SUFFICES ASSUME IInv, IInv', WithinLimit', [Next]_vars
               PROVE  [Contract!Next]_Contract!hedgeVars
    OBVIOUS
  <2> DEFINE limit == MAX_RETRIES * TARGET
  <2>l. limit \in Nat /\ position' <= limit
    BY DEF WithinLimit
  <2>t. position \in Nat /\ position' \in Nat
    BY DEF IInv, TypeOK
  <2>g. ASSUME UNCHANGED pc, position' >= position
        PROVE  [Contract!Next]_Contract!hedgeVars
    BY <2>g, <2>l, <2>t DEF Contract!Next, Contract!Acquire, Contract!hedgeVars
  <2> USE DEF Contract!Next, Contract!Acquire, Contract!ReportOk, Contract!ReportErr,
              Contract!hedgeVars
  <2>1. CASE PlaceAccepted
    <3>1. pc = "attempt" /\ pc' = "verify" /\ position' >= position
      BY <2>1, <2>t DEF PlaceAccepted, IInv, TypeOK
    <3> QED BY <3>1, <2>l, <2>t
  <2>2. CASE PlaceRejected BY <2>2 DEF PlaceRejected, NextAttempt
  <2>3. CASE PlaceReplyLost BY <2>3 DEF PlaceReplyLost, NextAttempt
  <2>4. CASE VerifyOk
    <3>1. pc = "verify" /\ position' = position
      BY <2>4 DEF VerifyOk
    <3>2. pc' \in {"attempt", "err"} \/ (pc' = "ok" /\ position >= TARGET)
      BY <2>4 DEF VerifyOk, NextAttempt, IInv, TypeOK, Believed
    <3> QED BY <3>1, <3>2
  <2>5. CASE VerifyFailed BY <2>5 DEF VerifyFailed, NextAttempt
  <2>6. CASE ExchangeFills BY <2>6, <2>g, <2>t DEF ExchangeFills
  <2>7. CASE ExchangeFillsLate BY <2>7, <2>g, <2>t DEF ExchangeFillsLate
  <2>8. CASE ExchangeExpires BY <2>8, <2>g, <2>t DEF ExchangeExpires
  <2>9. CASE UNCHANGED vars BY <2>9 DEF vars
  <2> QED BY <2>1, <2>2, <2>3, <2>4, <2>5, <2>6, <2>7, <2>8, <2>9
          DEF Next, Routine, Exchange
<1> QED BY <1>1, <1>2, PositionBounded, InductiveInvariant, PTL DEF Spec, ContractSpec, Contract!Spec

-----------------------------------------------------------------------------
(* EmergencyClose: the close of a leg that could not be hedged.            *)
USE CloseAssumption

CloseTypeOK ==
    /\ phase \in {"full", "half1", "half2", "ok", "err"}
    /\ step \in {"place", "verify"}
    /\ attempts \in Nat
    /\ placed_order \in [qty : Nat, filled : Nat] /\ placed_order.filled <= placed_order.qty
    /\ abandoned \in Nat /\ closed \in Nat /\ expired \in Nat

(* An attempt that is about to be made is one of those allowed.            *)
AttemptsLeft ==
    Running =>
        /\ attempts <= MaxRetries
        /\ step = "place" => attempts < MaxRetries

(* What a quotient is: the largest multiple that fits.                     *)
LEMMA Quotient ==
    ASSUME NEW a \in Nat, NEW d \in Nat \ {0}
    PROVE  a \div d \in Nat /\ d * (a \div d) <= a /\ a < d * (a \div d) + d
  OBVIOUS

(* Rounding to a step adds at most half a step and drops less than half a  *)
(* step and one unit, for the whole size and for half of it.               *)
LEMMA Rounded ==
    /\ FullQuantity \in Nat /\ HalfQuantity \in Nat
    /\ 2 * STEP * FullQuantity <= 2 * SIZE + STEP
    /\ 2 * SIZE + STEP < 2 * STEP * FullQuantity + 2 * STEP
    /\ 2 * STEP * HalfQuantity <= SIZE + STEP
    /\ SIZE + STEP < 2 * STEP * HalfQuantity + 2 * STEP
<1>1. 2 * SIZE + STEP \in Nat /\ SIZE + STEP \in Nat /\ 2 * STEP \in Nat \ {0}
  OBVIOUS
<1> QED BY <1>1, Quotient DEF FullQuantity, HalfQuantity

(* What the attempts with the full size and with each half can send.       *)
FullMost == FULL_RETRIES * FullQuantity
HalfMost == HALF_RETRIES * HalfQuantity

LEMMA Halves == FullMost \in Nat /\ HalfMost \in Nat
  BY Rounded DEF FullMost, HalfMost

(* What the calls of place_with_retry that have ended can have sent.       *)
SentBefore ==
    CASE phase = "full" -> 0
      [] phase = "half1" -> FullMost
      [] phase = "half2" -> FullMost + HalfMost
      [] OTHER -> FullMost + HalfMost + HalfMost

(* The bound in the middle of the close: the quantity of each attempt made *)
(* by the call under way, on top of those of the calls before.             *)
SentSoFar ==
    Taken <= SentBefore + (IF Running THEN attempts * Quantity ELSE 0)

CloseIInv == CloseTypeOK /\ AttemptsLeft /\ SentSoFar

LEMMA Product ==
    ASSUME NEW a \in Nat, NEW m \in Nat, NEW q \in Nat, a <= m
    PROVE  /\ a * q \in Nat /\ m * q \in Nat
           /\ (a + 1) * q = a * q + q
           /\ a * q <= m * q
<1>1. PICK d \in Nat : m = a + d
  <2>1. m - a \in Nat /\ m = a + (m - a)
    OBVIOUS
  <2> QED BY <2>1
<1>2. m * q = a * q + d * q /\ d * q \in Nat /\ a * q \in Nat
  BY <1>1
<1> QED BY <1>2

(* What the call of place_with_retry under way may send in all.            *)
Allowance == SentBefore + MaxRetries * Quantity

(* The call under way stays within its allowance, and the allowances of    *)
(* the calls follow one another up to the bound.                           *)
LEMMA AllowanceOfCall ==
    ASSUME CloseTypeOK, AttemptsLeft, Running
    PROVE  /\ SentBefore \in Nat /\ Quantity \in Nat /\ MaxRetries \in Nat
           /\ attempts * Quantity \in Nat /\ Allowance \in Nat
           /\ (attempts + 1) * Quantity = attempts * Quantity + Quantity
           /\ SentBefore + attempts * Quantity <= Allowance
           /\ step = "place" =>
                SentBefore + attempts * Quantity + Quantity <= Allowance
<1>1. SentBefore \in Nat /\ Quantity \in Nat /\ MaxRetries \in Nat
  BY Halves, Rounded DEF CloseTypeOK, SentBefore, Quantity, MaxRetries, Running
<1>2. attempts \in Nat /\ attempts <= MaxRetries
  BY DEF CloseTypeOK, AttemptsLeft
<1>3. /\ attempts * Quantity \in Nat /\ MaxRetries * Quantity \in Nat
      /\ (attempts + 1) * Quantity = attempts * Quantity + Quantity
      /\ attempts * Quantity <= MaxRetries * Quantity
  BY <1>1, <1>2, Product
<1>4. ASSUME step = "place"
      PROVE  attempts * Quantity + Quantity <= MaxRetries * Quantity
  <2>1. attempts + 1 \in Nat /\ attempts + 1 <= MaxRetries
    BY <1>1, <1>2, <1>4 DEF AttemptsLeft
  <2>2. (attempts + 1) * Quantity <= MaxRetries * Quantity
    BY <1>1, <2>1, Product
  <2> QED BY <1>3, <2>2
<1>5. PICK p \in Nat : p = attempts * Quantity
  BY <1>3
<1>6. PICK m \in Nat : m = MaxRetries * Quantity
  BY <1>3
<1>7. p <= m /\ (step = "place" => p + Quantity <= m) /\ Allowance = SentBefore + m
  BY <1>3, <1>4, <1>5, <1>6 DEF Allowance
<1>8. Allowance \in Nat /\ SentBefore + p <= Allowance
      /\ (step = "place" => SentBefore + p + Quantity <= Allowance)
  BY <1>1, <1>7
<1> QED BY <1>1, <1>3, <1>5, <1>8

(* The calls in their order: the allowance of one is spent before the      *)
(* next, and the last one's ends at the bound.                             *)
LEMMA CallReturns ==
    ASSUME CloseTypeOK, CloseTypeOK', Running,
           Taken' <= Allowance, attempts' = 0,
           \/ phase = "full" /\ phase' \in {"half1", "ok", "err"}
           \/ phase = "half1" /\ phase' \in {"half2", "err"}
           \/ phase = "half2" /\ phase' \in {"ok", "err"}
    PROVE  AttemptsLeft' /\ SentSoFar'
<1>1. AttemptsLeft'
  BY DEF AttemptsLeft, MaxRetries, Running
<1>2. PICK f \in Nat : f = FullMost
  BY Halves
<1>3. PICK h \in Nat : h = HalfMost
  BY Halves
<1>5. /\ phase = "full" => Allowance = f
      /\ phase = "half1" => Allowance = f + h
      /\ phase = "half2" => Allowance = f + h + h
  BY <1>2, <1>3 DEF Allowance, SentBefore, MaxRetries, Quantity, FullMost, HalfMost
<1>6. /\ phase' = "half1" => SentBefore' = f
      /\ phase' = "half2" => SentBefore' = f + h
      /\ phase' \in {"ok", "err"} => SentBefore' = f + h + h
  BY <1>2, <1>3 DEF SentBefore
<1>7. Taken' \in Nat
  BY DEF CloseTypeOK, Taken, Exposure, Unfilled
<1>8. Taken' <= SentBefore' /\ SentBefore' \in Nat
  BY <1>5, <1>6, <1>7
<1>9. Running' => attempts' * Quantity' = 0
  BY Rounded DEF Quantity, Running
<1>10. SentSoFar'
  BY <1>8, <1>9 DEF SentSoFar
<1> QED BY <1>1, <1>10

LEMMA InitCloseIInv == CloseInit => CloseIInv
<1> SUFFICES ASSUME CloseInit PROVE CloseIInv
  OBVIOUS
<1>1. CloseTypeOK /\ Taken = 0
  BY DEF CloseInit, NoCloseOrder, CloseTypeOK, Taken, Exposure, Unfilled
<1>2. AttemptsLeft
  BY DEF CloseInit, AttemptsLeft, MaxRetries
<1>3. SentSoFar
  <2>1. SentBefore = 0 /\ attempts * Quantity = 0
    BY Rounded DEF CloseInit, SentBefore, Quantity
  <2> QED BY <1>1, <2>1 DEF SentSoFar
<1> QED BY <1>1, <1>2, <1>3 DEF CloseIInv

(* The exchange moves quantity between what it has executed and what it    *)
(* still may: the exposure stays.                                          *)
LEMMA ExchangeKeepsCloseIInv ==
    ASSUME CloseIInv, CloseTypeOK', UNCHANGED <<phase, step, attempts>>, Taken' = Taken
    PROVE  CloseIInv'
<1>1. AttemptsLeft'
  BY DEF CloseIInv, AttemptsLeft, Running, MaxRetries
<1>2. SentSoFar'
  <2>1. SentBefore' = SentBefore /\ Quantity' = Quantity /\ Running' = Running
    BY DEF SentBefore, Quantity, Running
  <2> QED BY <2>1 DEF CloseIInv, SentSoFar
<1> QED BY <1>1, <1>2 DEF CloseIInv

LEMMA NextCloseIInv == CloseIInv /\ [CloseNext]_closeVars => CloseIInv'
<1> SUFFICES ASSUME CloseIInv, [CloseNext]_closeVars PROVE CloseIInv'
  OBVIOUS
<1>t. CloseTypeOK /\ AttemptsLeft /\ SentSoFar
  BY DEF CloseIInv
<1>n. Taken \in Nat
  BY <1>t DEF CloseTypeOK, Taken, Exposure, Unfilled
<1>a. ASSUME Running
      PROVE  /\ SentBefore \in Nat /\ Quantity \in Nat /\ Allowance \in Nat
             /\ Taken <= Allowance
             /\ step = "place" => Taken + Quantity <= Allowance
  <2>1. PICK p \in Nat : p = attempts * Quantity
    BY <1>t, <1>a, AllowanceOfCall
  <2>2. /\ SentBefore \in Nat /\ Quantity \in Nat /\ Allowance \in Nat
        /\ SentBefore + p <= Allowance
        /\ step = "place" => SentBefore + p + Quantity <= Allowance
    BY <1>t, <1>a, <2>1, AllowanceOfCall
  <2>3. Taken <= SentBefore + p
    BY <1>t, <1>a, <2>1 DEF SentSoFar
  <2> QED BY <1>n, <2>2, <2>3
<1>m. ASSUME Running, step = "place", CloseTypeOK', phase' = phase, attempts' = attempts + 1,
             Taken' <= Taken + Quantity,
             attempts' <= MaxRetries, step' = "place" => attempts' < MaxRetries
      PROVE  CloseIInv'
  <2>1. /\ SentBefore' = SentBefore /\ Quantity' = Quantity
        /\ MaxRetries' = MaxRetries /\ Running'
    BY <1>m DEF SentBefore, Quantity, MaxRetries, Running
  <2>2. AttemptsLeft'
    BY <1>m, <2>1 DEF AttemptsLeft
  <2>3. PICK p \in Nat : p = attempts * Quantity
    BY <1>t, <1>m, AllowanceOfCall
  <2>4. attempts' * Quantity' = p + Quantity
    BY <1>t, <1>m, <2>1, <2>3, AllowanceOfCall
  <2>5. Taken <= SentBefore + p
    BY <1>t, <1>m, <2>3 DEF SentSoFar
  <2>6. Taken' \in Nat /\ SentBefore \in Nat /\ Quantity \in Nat
    BY <1>m, <1>a DEF CloseTypeOK, Taken, Exposure, Unfilled
  <2>7. Taken' <= SentBefore + (p + Quantity)
    BY <1>m, <1>n, <2>5, <2>6
  <2>8. SentSoFar'
    BY <2>1, <2>4, <2>7 DEF SentSoFar
  <2> QED BY <1>m, <2>2, <2>8 DEF CloseIInv
<1>1. CASE CloseAccepted
  <2>1. Running /\ step = "place" /\ phase' = phase /\ attempts' = attempts + 1 /\ step' = "verify"
    BY <1>1 DEF CloseAccepted
  <2>2. PICK n \in 0 .. Quantity :
            /\ placed_order' = [qty |-> Quantity, filled |-> n]
            /\ closed' = closed + n /\ abandoned' = abandoned + Unfilled
            /\ expired' = expired
    BY <1>1 DEF CloseAccepted
  <2>3. Quantity \in Nat
    BY <1>a, <2>1
  <2>4. CloseTypeOK'
    BY <1>t, <2>1, <2>2, <2>3 DEF CloseTypeOK, Unfilled
  <2>5. Unfilled' = Quantity - n
    BY <2>2 DEF Unfilled
  <2>6. Taken' = Taken + Quantity
    <3>1. Unfilled \in Nat /\ closed \in Nat /\ abandoned \in Nat /\ expired \in Nat
      BY <1>t DEF CloseTypeOK, Unfilled
    <3> QED BY <2>2, <2>3, <2>5, <3>1 DEF Taken, Exposure
  <2>7. attempts' <= MaxRetries
    BY <1>t, <2>1 DEF AttemptsLeft, CloseTypeOK, MaxRetries
  <2>8. Taken' <= Taken + Quantity
    BY <1>n, <2>3, <2>6
  <2> QED BY <1>m, <2>1, <2>4, <2>7, <2>8
<1>2. CASE CloseFailed
  <2>1. Running /\ step = "place" /\ UNCHANGED <<placed_order, closed, expired>>
    BY <1>2 DEF CloseFailed
  <2>2. PICK took \in {0, Quantity} : abandoned' = abandoned + took
    BY <1>2 DEF CloseFailed
  <2>3. Quantity \in Nat /\ took \in Nat /\ took <= Quantity
    BY <1>a, <2>1, <2>2
  <2>4. Taken' = Taken + took
    <3>1. /\ Unfilled \in Nat /\ closed \in Nat /\ abandoned \in Nat /\ expired \in Nat
          /\ Unfilled' = Unfilled
      BY <1>t, <2>1 DEF CloseTypeOK, Unfilled
    <3> QED BY <2>1, <2>2, <2>3, <3>1 DEF Taken, Exposure
  <2>5. Taken' <= Taken + Quantity
    BY <1>n, <2>3, <2>4
  <2>6. CASE attempts + 1 < MaxRetries
    <3>1. attempts' = attempts + 1 /\ UNCHANGED <<phase, step>>
      BY <1>2, <2>6 DEF CloseFailed
    <3>2. CloseTypeOK'
      BY <1>t, <2>1, <2>2, <2>3, <3>1 DEF CloseTypeOK
    <3>3. MaxRetries \in Nat /\ attempts \in Nat
      BY <1>t DEF CloseTypeOK, MaxRetries
    <3> QED BY <1>m, <2>1, <2>5, <2>6, <3>1, <3>2, <3>3
  <2>7. CASE ~(attempts + 1 < MaxRetries)
    <3>1. attempts' = 0 /\ step' = "place"
      BY <1>2, <2>7 DEF CloseFailed, ReturnErr, ReturnQuantityLimit
    <3>2. phase' = "err" \/ (phase = "full" /\ phase' = "half1")
      BY <1>2, <2>7 DEF CloseFailed, ReturnErr, ReturnQuantityLimit
    <3>3. CloseTypeOK'
      BY <1>t, <2>1, <2>2, <2>3, <3>1, <3>2 DEF CloseTypeOK
    <3>4. Taken' <= Allowance
      <4>1. Taken + Quantity <= Allowance /\ Allowance \in Nat
        BY <1>a, <2>1
      <4> QED BY <1>n, <2>3, <2>4, <4>1
    <3>5. \/ phase = "full" /\ phase' \in {"half1", "ok", "err"}
          \/ phase = "half1" /\ phase' \in {"half2", "err"}
          \/ phase = "half2" /\ phase' \in {"ok", "err"}
      BY <2>1, <3>2 DEF Running
    <3> QED BY <1>t, <2>1, <3>1, <3>3, <3>4, <3>5, CallReturns DEF CloseIInv
  <2> QED BY <2>6, <2>7
<1>v. ASSUME Running, UNCHANGED <<placed_order, abandoned, closed, expired>>, ReturnOk
      PROVE  CloseIInv'
  <2>1. Taken' = Taken
    BY <1>v DEF Taken, Exposure, Unfilled
  <2>2. attempts' = 0 /\ step' = "place" /\ phase' = IF phase = "half1" THEN "half2" ELSE "ok"
    BY <1>v DEF ReturnOk
  <2>3. CloseTypeOK'
    BY <1>t, <1>v, <2>2 DEF CloseTypeOK
  <2>4. Taken' <= Allowance
    BY <1>a, <1>v, <2>1
  <2>5. \/ phase = "full" /\ phase' \in {"half1", "ok", "err"}
        \/ phase = "half1" /\ phase' \in {"half2", "err"}
        \/ phase = "half2" /\ phase' \in {"ok", "err"}
    BY <1>v, <2>2 DEF Running
  <2> QED BY <1>t, <1>v, <2>2, <2>3, <2>4, <2>5, CallReturns DEF CloseIInv
<1>3. CASE VerifyFilled
  BY <1>3, <1>v DEF VerifyFilled
<1>4. CASE VerifyNotFilled
  <2>1. CASE attempts < MaxRetries
    <3>1. /\ Running /\ step' = "place"
          /\ UNCHANGED <<phase, attempts, placed_order, abandoned, closed, expired>>
      BY <1>4, <2>1 DEF VerifyNotFilled, Retry
    <3>2. CloseTypeOK'
      BY <1>t, <3>1 DEF CloseTypeOK
    <3>3. AttemptsLeft'
      BY <1>t, <2>1, <3>1 DEF AttemptsLeft, MaxRetries, Running
    <3>4. /\ Taken' = Taken /\ SentBefore' = SentBefore
          /\ Quantity' = Quantity /\ Running' = Running
      BY <3>1 DEF Taken, Exposure, Unfilled, SentBefore, Quantity, Running
    <3>5. SentSoFar'
      BY <1>t, <3>1, <3>4 DEF SentSoFar
    <3> QED BY <3>2, <3>3, <3>5 DEF CloseIInv
  <2>2. CASE ~(attempts < MaxRetries)
    BY <1>4, <2>2, <1>v DEF VerifyNotFilled
  <2> QED BY <2>1, <2>2
<1>5. CASE CloseFills
  <2>1. /\ Unfilled > 0 /\ closed' = closed + 1
        /\ placed_order' = [placed_order EXCEPT !.filled = @ + 1]
        /\ UNCHANGED <<phase, step, attempts, abandoned, expired>>
    BY <1>5 DEF CloseFills
  <2>2. CloseTypeOK' /\ Taken' = Taken
    BY <1>t, <2>1 DEF CloseTypeOK, Taken, Exposure, Unfilled
  <2> QED BY <2>1, <2>2, ExchangeKeepsCloseIInv
<1>6. CASE CloseFillsLate
  <2>1. /\ abandoned > 0 /\ abandoned' = abandoned - 1 /\ closed' = closed + 1
        /\ UNCHANGED <<phase, step, attempts, placed_order, expired>>
    BY <1>6 DEF CloseFillsLate
  <2>2. CloseTypeOK' /\ Taken' = Taken
    BY <1>t, <2>1 DEF CloseTypeOK, Taken, Exposure, Unfilled
  <2> QED BY <2>1, <2>2, ExchangeKeepsCloseIInv
<1>7. CASE CloseExpires
  <2>1. CASE /\ Unfilled > 0
             /\ placed_order' = [placed_order EXCEPT !.qty = placed_order.filled]
             /\ expired' = expired + Unfilled
             /\ UNCHANGED <<phase, step, attempts, abandoned, closed>>
    <3>1. CloseTypeOK' /\ Taken' = Taken
      BY <1>t, <2>1 DEF CloseTypeOK, Taken, Exposure, Unfilled
    <3> QED BY <2>1, <3>1, ExchangeKeepsCloseIInv
  <2>2. CASE \E n \in 1 .. abandoned :
             /\ abandoned' = abandoned - n /\ expired' = expired + n
             /\ UNCHANGED <<phase, step, attempts, placed_order, closed>>
    <3>1. CloseTypeOK' /\ Taken' = Taken
      BY <1>t, <2>2 DEF CloseTypeOK, Taken, Exposure, Unfilled
    <3> QED BY <2>2, <3>1, ExchangeKeepsCloseIInv
  <2> QED BY <1>7, <2>1, <2>2 DEF CloseExpires
<1>8. CASE UNCHANGED closeVars
  <2>1. UNCHANGED <<phase, step, attempts, placed_order, abandoned, closed, expired>>
    BY <1>8 DEF closeVars
  <2>2. CloseTypeOK' /\ Taken' = Taken
    BY <1>t, <2>1 DEF CloseTypeOK, Taken, Exposure, Unfilled
  <2> QED BY <2>1, <2>2, ExchangeKeepsCloseIInv
<1> QED BY <1>1, <1>2, <1>3, <1>4, <1>5, <1>6, <1>7, <1>8
        DEF CloseNext, CloseRoutine, CloseExchange

(* The attempts' quantities, in units: what rounding can add to a size.    *)
LEMMA MostInUnits ==
    2 * STEP * (FullMost + HalfMost + HalfMost)
        <= FULL_RETRIES * (2 * SIZE + STEP) + 2 * HALF_RETRIES * (SIZE + STEP)
<1>1. PICK u \in Nat : u = 2 * STEP * FullQuantity
  BY Rounded
<1>2. PICK v \in Nat : v = 2 * STEP * HalfQuantity
  BY Rounded
<1>3. PICK a \in Nat : a = 2 * SIZE + STEP
  OBVIOUS
<1>4. PICK b \in Nat : b = SIZE + STEP
  OBVIOUS
<1>5. u <= a /\ v <= b
  BY <1>1, <1>2, <1>3, <1>4, Rounded
<1>6. u * FULL_RETRIES <= a * FULL_RETRIES
  BY <1>5, Product
<1>7. v * HALF_RETRIES <= b * HALF_RETRIES
  BY <1>5, Product
<1>8. 2 * STEP * FullMost = u * FULL_RETRIES
  BY <1>1, Rounded DEF FullMost
<1>9. 2 * STEP * HalfMost = v * HALF_RETRIES
  BY <1>2, Rounded DEF HalfMost
<1>10. 2 * STEP * (FullMost + HalfMost + HalfMost)
         = u * FULL_RETRIES + v * HALF_RETRIES + v * HALF_RETRIES
  BY <1>8, <1>9, Halves
<1>11. FULL_RETRIES * (2 * SIZE + STEP) + 2 * HALF_RETRIES * (SIZE + STEP)
         = a * FULL_RETRIES + b * HALF_RETRIES + b * HALF_RETRIES
  BY <1>3, <1>4
<1>12. /\ u * FULL_RETRIES \in Nat /\ v * HALF_RETRIES \in Nat
       /\ a * FULL_RETRIES \in Nat /\ b * HALF_RETRIES \in Nat
  OBVIOUS
<1> QED BY <1>6, <1>7, <1>10, <1>11, <1>12

(* The bound on what was sent, in steps.                                   *)
LEMMA TakenBounded == CloseIInv => Taken <= FullMost + HalfMost + HalfMost
<1> SUFFICES ASSUME CloseIInv PROVE Taken <= FullMost + HalfMost + HalfMost
  OBVIOUS
<1>1. Taken \in Nat /\ phase \in {"full", "half1", "half2", "ok", "err"}
  BY DEF CloseIInv, CloseTypeOK, Taken, Exposure, Unfilled
<1>2. PICK f \in Nat : f = FullMost
  BY Halves
<1>3. PICK h \in Nat : h = HalfMost
  BY Halves
<1>4. CASE Running
  <2>1. PICK p \in Nat : p = attempts * Quantity
    BY <1>4, AllowanceOfCall DEF CloseIInv
  <2>2. SentBefore \in Nat /\ Allowance \in Nat /\ SentBefore + p <= Allowance
    BY <1>4, <2>1, AllowanceOfCall DEF CloseIInv
  <2>3. Taken <= SentBefore + p
    BY <1>4, <2>1 DEF CloseIInv, SentSoFar
  <2>4. Allowance \in {f, f + h, f + h + h}
    BY <1>2, <1>3, <1>4
       DEF Allowance, SentBefore, MaxRetries, Quantity, Running, FullMost, HalfMost
  <2> QED BY <1>1, <1>2, <1>3, <2>2, <2>3, <2>4
<1>5. CASE ~Running
  <2>1. SentBefore = f + h + h
    BY <1>1, <1>2, <1>3, <1>5 DEF SentBefore, Running
  <2> QED BY <1>2, <1>3, <1>5, <2>1 DEF CloseIInv, SentSoFar
<1> QED BY <1>4, <1>5

LEMMA CloseInvariant == CloseSpec => []CloseIInv
<1>1. CloseInit => CloseIInv
  BY InitCloseIInv
<1>2. CloseIInv /\ [CloseNext]_closeVars => CloseIInv'
  BY NextCloseIInv
<1> QED BY <1>1, <1>2, PTL DEF CloseSpec

(* emergency_close_position closes, or leaves with the exchange to close,  *)
(* at most one size per attempt and what rounding to a step adds to it,    *)
(* for every number of attempts, every size and every step, however often  *)
(* place_with_retry sends the same quantity again.                         *)
THEOREM OverCloseIsBounded == CloseSpec => []OverCloseBounded
<1>1. CloseIInv => OverCloseBounded
  <2> SUFFICES ASSUME CloseIInv PROVE OverCloseBounded
    OBVIOUS
  <2>1. Exposure \in Nat /\ Exposure <= Taken /\ Taken \in Nat
    BY DEF CloseIInv, CloseTypeOK, Taken, Exposure, Unfilled
  <2>2. PICK m \in Nat : m = FullMost + HalfMost + HalfMost
    BY Halves
  <2>3. Exposure <= m
    BY <2>1, <2>2, TakenBounded
  <2>4. Exposure * (2 * STEP) <= m * (2 * STEP) /\ Exposure * (2 * STEP) \in Nat
    BY <2>1, <2>3, Product
  <2>5. PICK r \in Nat :
            r = FULL_RETRIES * (2 * SIZE + STEP) + 2 * HALF_RETRIES * (SIZE + STEP)
    OBVIOUS
  <2>6. m * (2 * STEP) <= r /\ m * (2 * STEP) \in Nat
    BY <2>2, <2>5, MostInUnits
  <2>7. Exposure * (2 * STEP) <= r
    BY <2>4, <2>5, <2>6
  <2>8. 2 * STEP * Exposure = Exposure * (2 * STEP)
    BY <2>1
  <2> QED BY <2>5, <2>7, <2>8 DEF OverCloseBounded
<1> QED BY <1>1, CloseInvariant, PTL

(* What the orders of the calls that have returned Ok, and the order under *)
(* verification, have put on the exchange.                                 *)
Backed ==
    /\ phase = "full" /\ step = "verify" => Taken >= FullQuantity
    /\ phase = "half1" /\ step = "verify" => Taken >= HalfQuantity
    /\ phase = "half2" => Taken >= HalfQuantity
    /\ phase = "half2" /\ step = "verify" => Taken >= HalfQuantity + HalfQuantity
    /\ phase = "ok" => Taken >= FullQuantity \/ Taken >= HalfQuantity + HalfQuantity

LEMMA NextBacked ==
    CloseTypeOK /\ CloseTypeOK' /\ Backed /\ [CloseNext]_closeVars => Backed'
<1> SUFFICES ASSUME CloseTypeOK, CloseTypeOK', Backed, [CloseNext]_closeVars
             PROVE  Backed'
  OBVIOUS
<1>q. FullQuantity \in Nat /\ HalfQuantity \in Nat
  BY Rounded
<1>n. Taken \in Nat /\ Taken' \in Nat
  BY DEF CloseTypeOK, Taken, Exposure, Unfilled
<1>1. CASE CloseAccepted
  <2>1. PICK n \in 0 .. Quantity :
            /\ placed_order' = [qty |-> Quantity, filled |-> n]
            /\ closed' = closed + n /\ abandoned' = abandoned + Unfilled
            /\ expired' = expired /\ phase' = phase /\ phase \in {"full", "half1", "half2"}
    BY <1>1 DEF CloseAccepted, Running
  <2>2. Quantity \in Nat
    BY <1>q DEF Quantity
  <2>3. Unfilled' = Quantity - n /\ Unfilled \in Nat
    BY <2>1 DEF Unfilled, CloseTypeOK
  <2>4. Taken' = Taken + Quantity
    BY <2>1, <2>2, <2>3 DEF CloseTypeOK, Taken, Exposure
  <2> QED BY <1>q, <1>n, <2>1, <2>4 DEF Backed, Quantity
<1>2. CASE CloseFailed
  <2>1. PICK took \in {0, Quantity} : abandoned' = abandoned + took
    BY <1>2 DEF CloseFailed
  <2>2. took \in Nat
    BY <1>q, <2>1 DEF Quantity
  <2>3. Taken' >= Taken
    BY <1>2, <2>1, <2>2 DEF CloseFailed, CloseTypeOK, Taken, Exposure, Unfilled
  <2>4. step = "place" /\ step' = "place"
    BY <1>2 DEF CloseFailed, ReturnErr, ReturnQuantityLimit
  <2>5. phase' = phase \/ phase' = "err" \/ phase' = "half1"
    BY <1>2 DEF CloseFailed, ReturnErr, ReturnQuantityLimit
  <2>6. phase # "ok"
    BY <1>2 DEF CloseFailed, Running
  <2> QED BY <1>q, <1>n, <2>3, <2>4, <2>5, <2>6 DEF Backed
<1>3. CASE VerifyFilled \/ VerifyNotFilled
  <2>1. /\ phase \in {"full", "half1", "half2"} /\ step = "verify" /\ step' = "place"
        /\ UNCHANGED <<placed_order, abandoned, closed, expired>>
    BY <1>3 DEF VerifyFilled, VerifyNotFilled, Retry, ReturnOk, Running
  <2>2. phase' = phase \/ phase' = (IF phase = "half1" THEN "half2" ELSE "ok")
    BY <1>3 DEF VerifyFilled, VerifyNotFilled, Retry, ReturnOk
  <2>3. Taken' = Taken
    BY <2>1 DEF Taken, Exposure, Unfilled
  <2> QED BY <1>q, <1>n, <2>1, <2>2, <2>3 DEF Backed
<1>4. ASSUME UNCHANGED <<phase, step>>, Taken' = Taken
      PROVE  Backed'
  BY <1>4, <1>q DEF Backed
<1>5. CASE CloseFills \/ CloseFillsLate
  BY <1>5, <1>4 DEF CloseFills, CloseFillsLate, CloseTypeOK, Taken, Exposure, Unfilled
<1>6. CASE CloseExpires
  BY <1>6, <1>4 DEF CloseExpires, CloseTypeOK, Taken, Exposure, Unfilled
<1>7. CASE UNCHANGED closeVars
  BY <1>7, <1>4 DEF closeVars, Taken, Exposure, Unfilled
<1> QED BY <1>1, <1>2, <1>3, <1>5, <1>6, <1>7 DEF CloseNext, CloseRoutine, CloseExchange

(* An emergency close that answers Ok has put orders on the exchange for   *)
(* the whole leg but less than one step, for every size and every step,    *)
(* although place_with_retry may return Ok without having seen a fill.     *)
THEOREM OkCloseIsBacked == CloseSpec => []ReportedCloseIsBacked
<1>1. CloseInit => Backed
  BY DEF CloseInit, Backed
<1>2. CloseIInv /\ CloseIInv' /\ Backed /\ [CloseNext]_closeVars => Backed'
  BY NextBacked DEF CloseIInv
<1>3. CloseIInv /\ Backed => ReportedCloseIsBacked
  <2> SUFFICES ASSUME CloseIInv, Backed, phase = "ok" PROVE STEP * (Taken + 1) > SIZE
    BY DEF ReportedCloseIsBacked
  <2>1. Taken \in Nat
    BY DEF CloseIInv, CloseTypeOK, Taken, Exposure, Unfilled
  <2>2. PICK t \in Nat : t = Taken
    BY <2>1
  <2>3. PICK u \in Nat : u = STEP * FullQuantity
    BY Rounded
  <2>4. PICK v \in Nat : v = STEP * HalfQuantity
    BY Rounded
  <2>5. 2 * STEP * FullQuantity = u + u /\ 2 * STEP * HalfQuantity = v + v
    BY <2>3, <2>4, Rounded
  <2>6. 2 * SIZE + STEP < u + u + 2 * STEP /\ SIZE + STEP < v + v + 2 * STEP
    BY <2>5, Rounded
  <2>7. CASE t >= FullQuantity
    <3>1. FullQuantity * STEP <= t * STEP
      BY <2>7, Rounded, Product
    <3>2. FullQuantity * STEP = u /\ t * STEP \in Nat
      BY <2>3, Rounded
    <3>3. STEP * (t + 1) = t * STEP + STEP
      OBVIOUS
    <3> QED BY <2>2, <2>6, <3>1, <3>2, <3>3
  <2>8. CASE t >= HalfQuantity + HalfQuantity
    <3>1. (HalfQuantity + HalfQuantity) * STEP <= t * STEP
      BY <2>8, Rounded, Product
    <3>2. (HalfQuantity + HalfQuantity) * STEP = v + v /\ t * STEP \in Nat
      BY <2>4, Rounded
    <3>3. STEP * (t + 1) = t * STEP + STEP
      OBVIOUS
    <3> QED BY <2>2, <2>6, <3>1, <3>2, <3>3
  <2> QED BY <2>2, <2>7, <2>8 DEF Backed
<1> QED BY <1>1, <1>2, <1>3, CloseInvariant, PTL DEF CloseSpec
=============================================================================
