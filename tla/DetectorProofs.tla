---------------------------- MODULE DetectorProofs ----------------------------
(***************************************************************************)
(* Proofs about the symbol map and the streaming path that uses it.        *)
(*                                                                         *)
(* SymbolMap, for any number of threads and keys (MapAssumption is all     *)
(* that is assumed): get_or_insert gives one id per key, and it implements *)
(* the atomic IdRegistry.                                                  *)
(*                                                                         *)
(* Detector, for any exchanges, symbols, quotes, table and pipeline sizes: *)
(* the bridge and the detector use the shared SymbolMap as its own         *)
(* specification says, so that what is proved of the map holds in the      *)
(* composition, and a detection finds exactly the opportunities between    *)
(* the last quotes popped.                                                 *)
(***************************************************************************)
EXTENDS Detector, TLAPS

-----------------------------------------------------------------------------
(* The symbol map.                                                         *)


(* The ids of the threads between fetch_add and the entry of to_id are the *)
(* part of the state OneIdPerKey does not speak of: they are below next_id *)
(* like those in the map, in nobody else's hands, and not in the map.      *)
Pending(t) == at[t] = "allocated"

IdsAreFresh ==
    /\ \A k \in Keys : toId[k] < nextId
    /\ \A t \in Threads : Pending(t) =>
        /\ mine[t] # 0 /\ mine[t] < nextId
        /\ \A k \in Keys : toId[k] # mine[t]
        /\ \A u \in Threads : Pending(u) /\ u # t => mine[u] # mine[t]

InsertedIsMine ==
    \A t \in Threads : at[t] = "inserted" => mine[t] = toId[key[t]] /\ mine[t] # 0

MapInv ==
    /\ MapTypeOK
    /\ 0 \notin DOMAIN fromId
    /\ IdsAreFresh
    /\ InsertedIsMine
    /\ OneIdPerKey

LEMMA InitMapInv == MapInit => MapInv
<1> SUFFICES ASSUME MapInit PROVE MapInv
  OBVIOUS
<1>1. toId = Preallocated /\ toId \in [Keys -> 0 .. FirstId - 1] /\ nextId = FirstId
  BY MapAssumption DEF MapInit
<1>2. \A i \in DOMAIN fromId : i # 0 /\ i \in Nat /\ fromId[i] \in Keys /\ toId[fromId[i]] = i
  <2> SUFFICES ASSUME NEW i \in DOMAIN fromId
               PROVE i # 0 /\ i \in Nat /\ fromId[i] \in Keys /\ toId[fromId[i]] = i
    OBVIOUS
  <2>1. /\ i \in {Preallocated[k] : k \in Keys} \ {0}
        /\ fromId[i] = CHOOSE k \in Keys : Preallocated[k] = i
    BY DEF MapInit
  <2>2. \E k \in Keys : Preallocated[k] = i
    BY <2>1
  <2>3. fromId[i] \in Keys /\ Preallocated[fromId[i]] = i
    BY <2>1, <2>2
  <2> QED BY <1>1, <2>1, <2>3
<1>3. MapTypeOK
  BY <1>1, <1>2, MapAssumption DEF MapInit, MapTypeOK
<1>4. IdsAreFresh /\ InsertedIsMine
  BY <1>1, MapAssumption DEF MapInit, IdsAreFresh, InsertedIsMine, Pending
<1>5. OneIdPerKey
  BY <1>1, <1>2, MapAssumption DEF MapInit, OneIdPerKey
<1> QED BY <1>2, <1>3, <1>4, <1>5 DEF MapInv

LEMMA NextMapInv == MapInv /\ [MapNext]_mapVars => MapInv'
<1> SUFFICES ASSUME MapInv, [MapNext]_mapVars PROVE MapInv'
  OBVIOUS
<1> USE DEF MapInv, MapTypeOK, IdsAreFresh, InsertedIsMine, OneIdPerKey, Pending
<1>1. CASE UNCHANGED mapVars
  BY <1>1 DEF mapVars
<1>2. ASSUME NEW t \in Threads, NEW k \in Keys, Hit(t, k) PROVE MapInv'
  BY <1>2 DEF Hit
<1>3. ASSUME NEW t \in Threads, NEW k \in Keys, Miss(t, k) PROVE MapInv'
  BY <1>3 DEF Miss
<1>4. ASSUME NEW t \in Threads, Allocate(t) PROVE MapInv'
  <2>1. MapTypeOK' /\ (0 \notin DOMAIN fromId)'
    BY <1>4 DEF Allocate
  <2>2. IdsAreFresh'
    BY <1>4 DEF Allocate
  <2>3. InsertedIsMine' /\ OneIdPerKey'
    BY <1>4 DEF Allocate
  <2> QED BY <2>1, <2>2, <2>3
<1>5. ASSUME NEW t \in Threads, LoseRace(t) PROVE MapInv'
  BY <1>5 DEF LoseRace
<1>6. ASSUME NEW t \in Threads, WinRace(t) PROVE MapInv'
  <2>1. key[t] \in Keys /\ toId[key[t]] = 0 /\ toId' = [toId EXCEPT ![key[t]] = mine[t]]
    BY <1>6 DEF WinRace
  <2>2. MapTypeOK' /\ (0 \notin DOMAIN fromId)'
    BY <1>6, <2>1 DEF WinRace
  <2>3. IdsAreFresh'
    BY <1>6, <2>1 DEF WinRace
  <2>4. InsertedIsMine'
    BY <1>6, <2>1 DEF WinRace
  <2>5. \A i \in DOMAIN fromId : fromId[i] # key[t]
    BY <2>1
  <2>6. OneIdPerKey'
    BY <1>6, <2>1, <2>5 DEF WinRace
  <2> QED BY <2>2, <2>3, <2>4, <2>6
<1>7. ASSUME NEW t \in Threads, Publish(t) PROVE MapInv'
  <2>1. MapTypeOK' /\ (0 \notin DOMAIN fromId)'
    BY <1>7 DEF Publish
  <2>2. IdsAreFresh' /\ InsertedIsMine'
    BY <1>7 DEF Publish
  <2>3. \A i \in DOMAIN fromId' : toId[fromId'[i]] = i
    BY <1>7 DEF Publish
  <2>4. OneIdPerKey'
    BY <1>7, <2>3 DEF Publish
  <2> QED BY <2>1, <2>2, <2>4
<1>8. ASSUME NEW t \in Threads, Return(t) PROVE MapInv'
  BY <1>8 DEF Return
<1> QED
  BY <1>1, <1>2, <1>3, <1>4, <1>5, <1>6, <1>7, <1>8 DEF MapNext, InCall

(* No step of get_or_insert, by whichever thread, breaks the inductive     *)
(* invariant: the ids in the map and in the threads' hands stay apart.     *)
THEOREM MapInvariant == MapSpec => []MapInv
<1>1. MapInit => MapInv
  BY InitMapInv
<1>2. MapInv /\ [MapNext]_mapVars => MapInv'
  BY NextMapInv
<1> QED BY <1>1, <1>2, PTL DEF MapSpec

(* For any set of threads racing on any keys, get_or_insert gives every    *)
(* key one id, every caller that same id, and from_id is its inverse.      *)
THEOREM MapGivesOneId == MapSpec => []OneIdPerKey
<1>1. MapInv => OneIdPerKey
  BY DEF MapInv
<1> QED BY <1>1, MapInvariant, PTL

(* Under the mapping, a thread holds an answer exactly while its call has  *)
(* been decided and not returned.                                          *)
AnswerOf(t) == IF Answered(t) THEN <<key[t], mine[t]>> ELSE <<>>

Answers == [t \in Threads |-> AnswerOf(t)]

(* What the three steps that decide a call have in common.                 *)
Decides(t, k) ==
    /\ ~Answered(t) /\ Answered(t)'
    /\ key'[t] = k /\ mine'[t] = toId'[k]
    /\ \A u \in Threads \ {t} : at'[u] = at[u] /\ key'[u] = key[u] /\ mine'[u] = mine[u]
    /\ \/ toId[k] # 0 /\ toId' = toId
       \/ toId[k] = 0 /\ Registry!Fresh(toId'[k]) /\ toId' = [toId EXCEPT ![k] = toId'[k]]

LEMMA DecidedStep ==
  ASSUME NEW t \in Threads, NEW k \in Keys, Decides(t, k)
  PROVE  Registry!GetOrInsert(t, k)
<1>1. Answers[t] = <<>> /\ Answers' = [Answers EXCEPT ![t] = <<k, toId'[k]>>]
  BY DEF Decides, Answers, AnswerOf, Answered
<1> QED
  BY <1>1 DEF Decides, Registry!GetOrInsert, Answers, AnswerOf

LEMMA UndecidedStep ==
  ASSUME toId' = toId, MapInv,
         \A t \in Threads : AnswerOf(t)' = AnswerOf(t)
  PROVE  UNCHANGED Registry!regVars
BY DEF Registry!regVars, AnswerOf

(* get_or_insert, with its lookup, counter, entry and reverse insert as    *)
(* separate steps of racing threads, implements the atomic registry.       *)
THEOREM MapImplementsRegistry == MapSpec => RegistrySpec
<1>1. MapInit => Registry!Init
  BY DEF MapInit, Registry!Init, Answered
<1>2. MapInv /\ [MapNext]_mapVars => [Registry!Next]_(Registry!regVars)
  <2> SUFFICES ASSUME MapInv, [MapNext]_mapVars
               PROVE Registry!Next \/ UNCHANGED Registry!regVars
    OBVIOUS
  <2> USE DEF MapInv, MapTypeOK
  <2>1. CASE UNCHANGED mapVars
    BY <2>1, UndecidedStep DEF mapVars, AnswerOf, Answered
  <2>2. ASSUME NEW t \in Threads, NEW k \in Keys, Hit(t, k) PROVE Registry!Next
    <3>1. Decides(t, k)
      BY <2>2 DEF Hit, Decides, Answered
    <3> QED BY <3>1, DecidedStep DEF Registry!Next
  <2>3. ASSUME NEW t \in Threads, NEW k \in Keys, Miss(t, k)
        PROVE UNCHANGED Registry!regVars
    BY <2>3, UndecidedStep DEF Miss, AnswerOf, Answered
  <2>4. ASSUME NEW t \in Threads, Allocate(t) PROVE UNCHANGED Registry!regVars
    BY <2>4, UndecidedStep DEF Allocate, AnswerOf, Answered
  <2>5. ASSUME NEW t \in Threads, LoseRace(t) PROVE Registry!Next
    <3>1. key[t] \in Keys /\ Decides(t, key[t])
      BY <2>5 DEF LoseRace, Decides, Answered
    <3> QED BY <3>1, DecidedStep DEF Registry!Next
  <2>6. ASSUME NEW t \in Threads, WinRace(t) PROVE Registry!Next
    <3>1. key[t] \in Keys /\ toId'[key[t]] = mine[t] /\ mine[t] \in Nat \ {0}
          /\ \A j \in Keys : toId[j] # mine[t]
      BY <2>6 DEF WinRace, IdsAreFresh, Pending
    <3>2. Decides(t, key[t])
      BY <2>6, <3>1 DEF WinRace, Decides, Answered, Registry!Fresh
    <3> QED BY <3>1, <3>2, DecidedStep DEF Registry!Next
  <2>7. ASSUME NEW t \in Threads, Publish(t) PROVE UNCHANGED Registry!regVars
    BY <2>7, UndecidedStep DEF Publish, AnswerOf, Answered
  <2>8. ASSUME NEW t \in Threads, Return(t) PROVE Registry!Next
    <3>1. /\ Answers[t] = <<key[t], mine[t]>>
          /\ Answers' = [Answers EXCEPT ![t] = <<>>]
          /\ toId' = toId
      BY <2>8 DEF Return, Answers, AnswerOf, Answered
    <3>2. Registry!Return(t)
      BY <3>1 DEF Registry!Return, Answers, AnswerOf
    <3> QED BY <3>2 DEF Registry!Next
  <2> QED
    BY <2>1, <2>2, <2>3, <2>4, <2>5, <2>6, <2>7, <2>8 DEF MapNext, InCall
<1> QED
  BY <1>1, <1>2, MapInvariant, PTL DEF MapSpec, RegistrySpec, Registry!Spec

-----------------------------------------------------------------------------
(* The streaming path.                                                     *)


Symbols == {Normalized[f[2]] : f \in Feed}

(* The quotes parse_to_market_update lets through.                         *)
Good == {q \in Quotes : Parses(q)}

QuoteOrNone == Good \cup {NoQuote}

DetectorTypeOK ==
    /\ quote \in QuoteOrNone
    /\ at["bridge"] # "idle" => quote \in Good
    /\ pipeline \in Seq([id : Nat, quote : Good])
    /\ store \in [Consumers -> [Slots -> QuoteOrNone]]
    /\ seen \in [Consumers -> [Keys -> QuoteOrNone]]
    /\ step \in {"pop", "exchanges"}
    /\ next \in Nat \ {0}

(* An id in to_id is in from_id as well, unless the thread that won the    *)
(* race for it has still to insert it there.                               *)
Reversible ==
    \A k \in Keys : toId[k] # 0 =>
        \/ toId[k] \in DOMAIN fromId
        \/ \E t \in Threads : at[t] = "inserted" /\ mine[t] = toId[k]

(* An id the bridge has: from_id knows it, or the detector is about to say *)
(* so, and does before it pops again.                                      *)
Known(i) ==
    \/ i \in DOMAIN fromId
    \/ at["detector"] = "inserted" /\ mine["detector"] = i

IdsAreKnown ==
    /\ at["bridge"] = "done" => Known(mine["bridge"])
    /\ \A n \in 1 .. Len(pipeline) : Known(pipeline[n].id)

(* A store holds under an id the quote its consumer last popped of the     *)
(* id's key, and nothing under an id that nobody has.                      *)
StoreIsSeen ==
    \A c \in Consumers :
        /\ \A k \in Keys : toId[k] = 0 => seen[c][k] = NoQuote
        /\ \A k \in Keys : toId[k] # 0 /\ toId[k] \in Slots => store[c][toId[k]] = seen[c][k]
        /\ \A i \in Slots : store[c][i] # NoQuote => \E k \in Keys : toId[k] = i /\ i # 0

KeyOf(n) == <<KnownExchanges[n], symbol>>

(* get_exchanges_for_symbol: the exchanges before the next one have their  *)
(* ids, and valid holds those of them that have a price.                   *)
LoopIsPartial ==
    /\ step = "pop" => at["detector"] = "idle"
    /\ step = "exchanges" =>
        /\ symbol \in Symbols /\ found = {}
        /\ at["detector"] # "idle" =>
              next <= Len(KnownExchanges) /\ key["detector"] = KeyOf(next)
        /\ \A n \in 1 .. Len(KnownExchanges) : n < next => toId[KeyOf(n)] # 0
        /\ valid = {e \in Exchanges : \E n \in 1 .. Len(KnownExchanges) :
                      /\ n < next /\ e = KnownExchanges[n]
                      /\ Price(store["detector"], toId[KeyOf(n)]) # NoQuote}

(* Between detections, what the last one found is what there was to find.  *)
FoundIsTradeable ==
    step = "pop" =>
        \/ symbol = NoKey /\ found = {}
        \/ symbol \in Symbols /\ found = Tradeable(symbol)

IInv ==
    /\ MapInv
    /\ DetectorTypeOK
    /\ Reversible
    /\ IdsAreKnown
    /\ StoreIsSeen
    /\ LoopIsPartial
    /\ FoundIsTradeable

-----------------------------------------------------------------------------
(* The SymbolMap under the two tasks.                                      *)

LEMMA KeysAreProduct == Keys = Exchanges \X Symbols
BY DetectorAssumption DEF Exchanges, Symbols

LEMMA FeedKeys ==
  ASSUME NEW f \in Feed
  PROVE  <<f[1], normalize_symbol(f[2])>> \in Keys
<1>1. f[1] \in Exchanges
  BY DetectorAssumption DEF Exchanges
<1> QED BY <1>1, KeysAreProduct DEF Symbols, normalize_symbol

LEMMA ExchangesAreListed ==
  /\ Len(KnownExchanges) \in Nat
  /\ DOMAIN KnownExchanges = 1 .. Len(KnownExchanges)
  /\ \A n \in 1 .. Len(KnownExchanges) : KnownExchanges[n] \in Exchanges
  /\ \A e \in Exchanges : \E n \in 1 .. Len(KnownExchanges) : e = KnownExchanges[n]
<1>1. /\ Len(KnownExchanges) \in Nat
      /\ DOMAIN KnownExchanges = 1 .. Len(KnownExchanges)
  BY DetectorAssumption
<1> QED BY <1>1 DEF Exchanges

LEMMA LoopKeys ==
  ASSUME symbol \in Symbols, NEW n \in 1 .. Len(KnownExchanges)
  PROVE  KeyOf(n) \in Keys
BY KeysAreProduct, ExchangesAreListed DEF KeyOf

(* Every step of the composition is a step of the map, or leaves it alone. *)
LEMMA MapStep ==
  ASSUME DetectorTypeOK, LoopIsPartial, [Next]_vars
  PROVE  [MapNext]_mapVars
<1> USE DetectorAssumption
<1>1. CASE UNCHANGED vars
  BY <1>1 DEF vars
<1>2. ASSUME NEW q \in Quotes, ReceiveUnreadable(q) PROVE UNCHANGED mapVars
  BY <1>2 DEF ReceiveUnreadable
<1>3. ASSUME NEW f \in Feed, NEW q \in Quotes, Receive(f, q) PROVE MapNext
  <2>1. PICK k \in Keys : Hit("bridge", k) \/ Miss("bridge", k)
    BY <1>3, FeedKeys DEF Receive
  <2> QED BY <2>1 DEF MapNext
<1>4. CASE Push \/ DropAndPush
  BY <1>4 DEF Push, DropAndPush, MapNext
<1>5. CASE PushFull \/ Pop \/ PopNothing \/ CheckPairs \/ RunnerPop
  <2>1. CASE PopNothing
    BY <2>1 DEF PopNothing, vars
  <2> QED BY <1>5, <2>1 DEF PushFull, Pop, CheckPairs, RunnerPop
<1>6. CASE AskId
  <2>1. symbol \in Symbols /\ next \in 1 .. Len(KnownExchanges)
    BY <1>6, ExchangesAreListed DEF AskId, LoopIsPartial, DetectorTypeOK
  <2>2. KeyOf(next) \in Keys
    BY <2>1, LoopKeys
  <2>3. Hit("detector", KeyOf(next)) \/ Miss("detector", KeyOf(next))
    BY <1>6 DEF AskId, KeyOf
  <2> QED BY <2>2, <2>3 DEF MapNext
<1>7. CASE FilterExchange
  BY <1>7 DEF FilterExchange, MapNext
<1>8. ASSUME NEW t \in Threads, InMap(t) PROVE MapNext
  BY <1>8 DEF InMap, MapNext
<1> QED
  BY <1>1, <1>2, <1>3, <1>4, <1>5, <1>6, <1>7, <1>8 DEF Next, Bridge, Detection

(* An id once given to a key stays the key's, and a new one is nobody's.   *)
IdsStay ==
    /\ \A k \in Keys : toId[k] # 0 => toId'[k] = toId[k]
    /\ \A k \in Keys : toId'[k] # toId[k] => \A j \in Keys : toId[j] # toId'[k]

LEMMA MapKeepsIds ==
  ASSUME MapInv, [MapNext]_mapVars
  PROVE  MapInv' /\ IdsStay
<1>1. MapInv'
  BY NextMapInv
<1>2. \A k \in Keys : toId[k] # 0 => toId'[k] = toId[k]
  <2>1. CASE toId' = toId
    BY <2>1
  <2>2. ASSUME NEW t \in Threads, WinRace(t)
        PROVE \A k \in Keys : toId[k] # 0 => toId'[k] = toId[k]
    BY <2>2 DEF WinRace, MapInv, MapTypeOK
  <2> QED
    BY <2>1, <2>2 DEF MapNext, InCall, Allocate, LoseRace, Publish, Return, Hit, Miss, mapVars
<1>3. ASSUME NEW k \in Keys, toId'[k] # toId[k], NEW j \in Keys, toId[j] = toId'[k]
      PROVE FALSE
  <2>1. toId[k] = 0 /\ toId'[k] # 0
    BY <1>2, <1>3
  <2>2. toId'[j] = toId'[k]
    BY <1>2, <1>3, <2>1
  <2>3. j = k
    BY <1>1, <2>1, <2>2 DEF MapInv, OneIdPerKey
  <2> QED BY <1>3, <2>1, <2>3
<1> QED BY <1>1, <1>2, <1>3 DEF IdsStay

LEMMA MapKeepsReversible ==
  ASSUME MapInv, Reversible, [MapNext]_mapVars
  PROVE  Reversible'
<1> USE DEF MapInv, MapTypeOK, Reversible
<1>1. CASE UNCHANGED mapVars
  BY <1>1 DEF mapVars
<1>2. ASSUME NEW t \in Threads, NEW k \in Keys, Hit(t, k) \/ Miss(t, k) PROVE Reversible'
  BY <1>2 DEF Hit, Miss
<1>3. ASSUME NEW t \in Threads, Allocate(t) PROVE Reversible'
  BY <1>3 DEF Allocate
<1>4. ASSUME NEW t \in Threads, LoseRace(t) PROVE Reversible'
  BY <1>4 DEF LoseRace
<1>5. ASSUME NEW t \in Threads, WinRace(t) PROVE Reversible'
  BY <1>5 DEF WinRace
<1>6. ASSUME NEW t \in Threads, Publish(t) PROVE Reversible'
  BY <1>6 DEF Publish
<1>7. ASSUME NEW t \in Threads, Return(t) PROVE Reversible'
  BY <1>7 DEF Return
<1> QED
  BY <1>1, <1>2, <1>3, <1>4, <1>5, <1>6, <1>7 DEF MapNext, InCall

LEMMA MapKeepsKnown ==
  ASSUME MapInv, [MapNext]_mapVars, NEW i, Known(i)
  PROVE  Known(i)'
<1> USE DetectorAssumption DEF MapInv, MapTypeOK, Known
<1>1. CASE UNCHANGED mapVars
  BY <1>1 DEF mapVars
<1>2. ASSUME NEW t \in Threads, NEW k \in Keys, Hit(t, k) \/ Miss(t, k) PROVE Known(i)'
  BY <1>2 DEF Hit, Miss
<1>3. ASSUME NEW t \in Threads, InCall(t) PROVE Known(i)'
  BY <1>3 DEF InCall, Allocate, LoseRace, WinRace, Publish
<1>4. ASSUME NEW t \in Threads, Return(t) PROVE Known(i)'
  BY <1>4 DEF Return
<1> QED BY <1>1, <1>2, <1>3, <1>4 DEF MapNext

(* The id the bridge's call ends with is known, even when the detector won *)
(* the race for it and has not inserted it into from_id yet.               *)
LEMMA BridgeHasKnownId ==
  ASSUME MapInv, Reversible, at["bridge"] = "done" => Known(mine["bridge"]),
         [MapNext]_mapVars, at'["bridge"] = "done"
  PROVE  Known(mine["bridge"])'
<1> USE DetectorAssumption DEF MapInv, MapTypeOK
<1>1. ASSUME at["bridge"] = "done", mine'["bridge"] = mine["bridge"]
      PROVE Known(mine["bridge"])'
  <2>1. PICK i : i = mine["bridge"]
    OBVIOUS
  <2>2. Known(i)'
    BY <1>1, <2>1, MapKeepsKnown
  <2> QED BY <1>1, <2>1, <2>2 DEF Known
<1>2. CASE UNCHANGED mapVars
  BY <1>1, <1>2 DEF mapVars
<1>3. ASSUME NEW t \in Threads, NEW k \in Keys, Hit(t, k) \/ Miss(t, k)
      PROVE Known(mine["bridge"])'
  <2>1. CASE t = "detector"
    BY <1>1, <1>3, <2>1 DEF Hit, Miss
  <2>2. CASE t = "bridge"
    <3>1. Hit(t, k)
      BY <1>3, <2>2 DEF Miss
    <3>2. PICK i : i = toId[k]
      OBVIOUS
    <3>3. Known(i) /\ mine'["bridge"] = i
      BY <2>2, <3>1, <3>2 DEF Hit, Reversible, Known
    <3>4. Known(i)'
      BY <3>3, MapKeepsKnown
    <3> QED BY <3>3, <3>4 DEF Known
  <2> QED BY <2>1, <2>2
<1>4. ASSUME NEW t \in Threads, LoseRace(t) PROVE Known(mine["bridge"])'
  <2>1. CASE t = "detector"
    BY <1>1, <1>4, <2>1 DEF LoseRace
  <2>2. CASE t = "bridge"
    <3>1. PICK i : i = toId[key[t]]
      OBVIOUS
    <3>2. Known(i) /\ mine'["bridge"] = i
      BY <1>4, <2>2, <3>1 DEF LoseRace, Reversible, Known
    <3>3. Known(i)'
      BY <3>2, MapKeepsKnown
    <3> QED BY <3>2, <3>3 DEF Known
  <2> QED BY <2>1, <2>2
<1>5. ASSUME NEW t \in Threads, Publish(t) PROVE Known(mine["bridge"])'
  <2>1. CASE t = "detector"
    BY <1>1, <1>5, <2>1 DEF Publish
  <2>2. CASE t = "bridge"
    BY <1>5, <2>2 DEF Publish, Known
  <2> QED BY <2>1, <2>2
<1>6. ASSUME NEW t \in Threads, Allocate(t) \/ WinRace(t) \/ Return(t)
      PROVE Known(mine["bridge"])'
  BY <1>1, <1>6 DEF Allocate, WinRace, Return
<1> QED
  BY <1>2, <1>3, <1>4, <1>5, <1>6 DEF MapNext, InCall

(* A known id is some key's.                                               *)
LEMMA KnownIdHasKey ==
  ASSUME MapInv, NEW i, Known(i)
  PROVE  i # 0 /\ \E k \in Keys : toId[k] = i
BY DetectorAssumption DEF MapInv, MapTypeOK, OneIdPerKey, InsertedIsMine, Known

-----------------------------------------------------------------------------
(* The stores of the consumers.                                            *)

(* A new id finds its slot empty.                                          *)
LEMMA NewIdsFindNothing ==
  ASSUME MapInv, IdsStay, StoreIsSeen, UNCHANGED <<store, seen>>, MapInv'
  PROVE  StoreIsSeen'
<1> SUFFICES ASSUME NEW c \in Consumers
             PROVE /\ \A k \in Keys : toId'[k] = 0 => seen[c][k] = NoQuote
                   /\ \A k \in Keys : toId'[k] # 0 /\ toId'[k] \in Slots
                        => store[c][toId'[k]] = seen[c][k]
                   /\ \A i \in Slots : store[c][i] # NoQuote
                        => \E k \in Keys : toId'[k] = i /\ i # 0
  BY DEF StoreIsSeen
<1>1. \A k \in Keys : toId'[k] = 0 => seen[c][k] = NoQuote
  BY DEF StoreIsSeen, IdsStay
<1>2. ASSUME NEW k \in Keys, toId'[k] # 0, toId'[k] \in Slots
      PROVE store[c][toId'[k]] = seen[c][k]
  <2>1. CASE toId'[k] = toId[k]
    BY <1>2, <2>1 DEF StoreIsSeen
  <2>2. CASE toId'[k] # toId[k]
    <3>1. toId[k] = 0 /\ seen[c][k] = NoQuote
      BY <2>2 DEF IdsStay, StoreIsSeen
    <3>2. \A j \in Keys : toId[j] # toId'[k]
      BY <2>2 DEF IdsStay
    <3> QED BY <1>2, <3>1, <3>2 DEF StoreIsSeen
  <2> QED BY <2>1, <2>2
<1>3. \A i \in Slots : store[c][i] # NoQuote => \E k \in Keys : toId'[k] = i /\ i # 0
  BY DEF StoreIsSeen, IdsStay
<1> QED BY <1>1, <1>2, <1>3

(* What a pop takes: a good quote under the id of a key.                   *)
LEMMA HeadIsKnown ==
  ASSUME MapInv, DetectorTypeOK, IdsAreKnown, pipeline # <<>>
  PROVE  /\ Head(pipeline) \in [id : Nat, quote : Good]
         /\ Known(Head(pipeline).id)
         /\ Tail(pipeline) \in Seq([id : Nat, quote : Good])
         /\ \A n \in 1 .. Len(Tail(pipeline)) : Known(Tail(pipeline)[n].id)
<1>1. pipeline \in Seq([id : Nat, quote : Good]) /\ Len(pipeline) > 0
  BY DEF DetectorTypeOK
<1>2. Head(pipeline) = pipeline[1] /\ 1 \in 1 .. Len(pipeline)
  BY <1>1
<1>3. \A n \in 1 .. Len(Tail(pipeline)) :
          n + 1 \in 1 .. Len(pipeline) /\ Tail(pipeline)[n] = pipeline[n + 1]
  BY <1>1
<1>4. Known(Head(pipeline).id)
  BY <1>2 DEF IdsAreKnown
<1>5. \A n \in 1 .. Len(Tail(pipeline)) : Known(Tail(pipeline)[n].id)
  BY <1>3 DEF IdsAreKnown
<1>6. Head(pipeline) \in [id : Nat, quote : Good]
  <2> DEFINE Updates == [id : Nat, quote : Good]
  <2>1. pipeline \in Seq(Updates)
    BY <1>1
  <2> HIDE DEF Updates
  <2>2. pipeline[1] \in Updates
    BY <1>2, <2>1
  <2> QED BY <1>2, <2>2 DEF Updates
<1>7. Tail(pipeline) \in Seq([id : Nat, quote : Good])
  BY <1>1
<1> QED BY <1>4, <1>5, <1>6, <1>7

(* A pop, of whichever consumer, files the quote in the store under the id *)
(* and in the history under the id's one key.                              *)
LEMMA PopsAreStored ==
  ASSUME MapInv, DetectorTypeOK, IdsAreKnown, StoreIsSeen,
         NEW c \in Consumers, TakeUpdate(c), UNCHANGED mapVars
  PROVE  /\ StoreIsSeen'
         /\ pipeline' \in Seq([id : Nat, quote : Good])
         /\ store' \in [Consumers -> [Slots -> QuoteOrNone]]
         /\ seen' \in [Consumers -> [Keys -> QuoteOrNone]]
         /\ \A n \in 1 .. Len(pipeline') : Known(pipeline[n].id)'
         /\ \A d \in Consumers \ {c} : store'[d] = store[d] /\ seen'[d] = seen[d]
<1> DEFINE u == Head(pipeline)
           k == CHOOSE j \in Keys : toId[j] = u.id
<1>1. /\ u \in [id : Nat, quote : Good] /\ Known(u.id)
      /\ Tail(pipeline) \in Seq([id : Nat, quote : Good])
      /\ \A n \in 1 .. Len(Tail(pipeline)) : Known(Tail(pipeline)[n].id)
  BY HeadIsKnown DEF TakeUpdate
<1>2. /\ pipeline' = Tail(pipeline)
      /\ store' = [store EXCEPT ![c] = Stored(store[c], u)]
      /\ seen' = [seen EXCEPT ![c] = [seen[c] EXCEPT ![k] = u.quote]]
  BY DEF TakeUpdate
<1>3. k \in Keys /\ toId[k] = u.id /\ u.id # 0
  BY <1>1, KnownIdHasKey
<1>4. \A j \in Keys : toId[j] = u.id => j = k
  BY <1>3 DEF MapInv, OneIdPerKey
<1>5. toId' = toId /\ fromId' = fromId /\ at' = at /\ mine' = mine
  BY DEF mapVars
<1> HIDE DEF u, k
<1>6. pipeline' \in Seq([id : Nat, quote : Good])
  BY <1>1, <1>2
<1>7. \A n \in 1 .. Len(pipeline') : Known(pipeline[n].id)'
  BY <1>1, <1>2, <1>5 DEF Known
<1>8. u.quote \in QuoteOrNone /\ u.id \in Nat /\ u.quote # NoQuote
  BY <1>1 DEF QuoteOrNone, Good, Parses, Readable
<1>9. seen' \in [Consumers -> [Keys -> QuoteOrNone]]
  BY <1>2, <1>3, <1>8 DEF DetectorTypeOK
<1>10. Stored(store[c], u) \in [Slots -> QuoteOrNone]
  BY <1>8, DetectorAssumption DEF DetectorTypeOK, Stored, Slots
<1>11. store' \in [Consumers -> [Slots -> QuoteOrNone]]
  BY <1>2, <1>10 DEF DetectorTypeOK
<1>12. \A d \in Consumers \ {c} : store'[d] = store[d] /\ seen'[d] = seen[d]
  BY <1>2 DEF DetectorTypeOK
<1>13. /\ store'[c] = Stored(store[c], u)
       /\ seen'[c] = [seen[c] EXCEPT ![k] = u.quote]
  BY <1>2 DEF DetectorTypeOK
<1>14. \A i \in Slots : store'[c][i] = IF i = u.id THEN u.quote ELSE store[c][i]
  BY <1>8, <1>13, DetectorAssumption DEF DetectorTypeOK, Stored, Slots
<1>15. \A j \in Keys : seen'[c][j] = IF j = k THEN u.quote ELSE seen[c][j]
  BY <1>13 DEF DetectorTypeOK
<1>16. /\ \A j \in Keys : toId[j] = 0 => seen'[c][j] = NoQuote
       /\ \A j \in Keys : toId[j] # 0 /\ toId[j] \in Slots => store'[c][toId[j]] = seen'[c][j]
       /\ \A i \in Slots : store'[c][i] # NoQuote => \E j \in Keys : toId[j] = i /\ i # 0
  <2>1. \A j \in Keys : toId[j] = 0 => seen'[c][j] = NoQuote
    BY <1>3, <1>15 DEF StoreIsSeen
  <2>2. \A j \in Keys : toId[j] # 0 /\ toId[j] \in Slots => store'[c][toId[j]] = seen'[c][j]
    BY <1>3, <1>4, <1>14, <1>15 DEF StoreIsSeen
  <2>3. \A i \in Slots : store'[c][i] # NoQuote => \E j \in Keys : toId[j] = i /\ i # 0
    BY <1>3, <1>14 DEF StoreIsSeen
  <2> QED BY <2>1, <2>2, <2>3
<1>17. StoreIsSeen'
  <2> SUFFICES ASSUME NEW d \in Consumers
               PROVE /\ \A j \in Keys : toId[j] = 0 => seen'[d][j] = NoQuote
                     /\ \A j \in Keys : toId[j] # 0 /\ toId[j] \in Slots
                          => store'[d][toId[j]] = seen'[d][j]
                     /\ \A i \in Slots : store'[d][i] # NoQuote
                          => \E j \in Keys : toId[j] = i /\ i # 0
    BY <1>5 DEF StoreIsSeen
  <2>1. CASE d = c
    BY <1>16, <2>1
  <2>2. CASE d # c
    BY <1>12, <2>2 DEF StoreIsSeen
  <2> QED BY <2>1, <2>2
<1> QED BY <1>6, <1>7, <1>9, <1>11, <1>12, <1>17

-----------------------------------------------------------------------------
(* The detector's loop.                                                    *)

(* While the store and the loop's own variables stand still, nothing that  *)
(* happens to the map changes which exchanges have been found valid.       *)
LEMMA LoopStands ==
  ASSUME MapInv, LoopIsPartial, IdsStay, UNCHANGED detectorVars,
         store'["detector"] = store["detector"],
         at'["detector"] = "idle" <=> at["detector"] = "idle",
         key'["detector"] = key["detector"]
  PROVE  LoopIsPartial'
<1>1. \A n : KeyOf(n)' = KeyOf(n)
  BY DEF KeyOf, detectorVars
<1>2. CASE step = "pop"
  BY <1>2 DEF LoopIsPartial, detectorVars
<1>3. CASE step = "exchanges"
  <2>1. \A n \in 1 .. Len(KnownExchanges) : n < next => toId'[KeyOf(n)] = toId[KeyOf(n)]
    BY <1>3, LoopKeys DEF LoopIsPartial, IdsStay
  <2> QED BY <1>1, <1>3, <2>1 DEF LoopIsPartial, detectorVars, Price
<1> QED BY <1>2, <1>3 DEF LoopIsPartial, detectorVars

(* The exchanges with a usable last quote, and an opportunity between two. *)
Usable(s) ==
    {e \in Exchanges :
        seen["detector"][<<e, s>>] # NoQuote /\ toId[<<e, s>>] < MAX_SYMBOLS}

Opportunity(s, p) ==
    [symbol |-> s, long |-> p[1], short |-> p[2],
     ask |-> seen["detector"][<<p[1], s>>].ask, bid |-> seen["detector"][<<p[2], s>>].bid]

Profitable(s, p) ==
    Passes(p[1], p[2], seen["detector"][<<p[1], s>>].ask, seen["detector"][<<p[2], s>>].bid)

LEMMA TradeableIs ==
  ASSUME NEW s
  PROVE  Tradeable(s) = {Opportunity(s, p) : p \in
                            {d \in Usable(s) \X Usable(s) : d[1] # d[2] /\ Profitable(s, d)}}
BY DEF Tradeable, Usable, Opportunity, Profitable

LEMMA TradeableStands ==
  ASSUME IdsStay, StoreIsSeen, seen'["detector"] = seen["detector"], NEW s \in Symbols
  PROVE  Tradeable(s)' = Tradeable(s)
<1>1. \A e \in Exchanges : <<e, s>> \in Keys
  BY KeysAreProduct
<1>2. "detector" \in Consumers
  BY DEF Consumers
<1>3. \A e \in Exchanges : seen["detector"][<<e, s>>] # NoQuote => toId'[<<e, s>>] = toId[<<e, s>>]
  BY <1>1, <1>2 DEF StoreIsSeen, IdsStay
<1>4. Usable(s)' = Usable(s)
  BY <1>3 DEF Usable
<1> QED
  BY <1>4 DEF Tradeable, Usable

LEMMA FoundStands ==
  ASSUME IdsStay, StoreIsSeen, FoundIsTradeable, UNCHANGED <<step, symbol, found>>,
         seen'["detector"] = seen["detector"]
  PROVE  FoundIsTradeable'
<1> SUFFICES ASSUME step = "pop", symbol \in Symbols, found = Tradeable(symbol)
             PROVE  found' = Tradeable(symbol)'
  BY DEF FoundIsTradeable
<1>1. PICK s \in Symbols : s = symbol
  OBVIOUS
<1>2. Tradeable(s)' = Tradeable(s)
  BY TradeableStands
<1>3. Tradeable(symbol)' = Tradeable(s)'
  BY <1>1 DEF Tradeable
<1> QED BY <1>1, <1>2, <1>3

(* Once every exchange has been asked for, the valid ones are those with a *)
(* usable last quote, and the store has that quote under their ids.        *)
LEMMA ValidIsUsable ==
  ASSUME MapInv, DetectorTypeOK, StoreIsSeen, LoopIsPartial, step = "exchanges",
         next > Len(KnownExchanges)
  PROVE  /\ valid = Usable(symbol)
         /\ \A e \in valid : Price(store["detector"], toId[<<e, symbol>>])
                                = seen["detector"][<<e, symbol>>]
<1> DEFINE price(e) == Price(store["detector"], toId[<<e, symbol>>])
           last(e) == seen["detector"][<<e, symbol>>]
<1>1. "detector" \in Consumers /\ symbol \in Symbols
  BY DEF Consumers, LoopIsPartial
<1>2. \A e \in Exchanges : <<e, symbol>> \in Keys /\ toId[<<e, symbol>>] \in Nat
  BY <1>1, KeysAreProduct DEF MapInv, MapTypeOK
<1>3. \A n \in 1 .. Len(KnownExchanges) : n < next
  BY ExchangesAreListed DEF DetectorTypeOK
<1>4. \A e \in Exchanges : toId[<<e, symbol>>] # 0
  BY <1>3, ExchangesAreListed DEF LoopIsPartial, KeyOf
<1>5. ASSUME NEW e \in Exchanges
      PROVE  price(e) = IF toId[<<e, symbol>>] < MAX_SYMBOLS THEN last(e) ELSE NoQuote
  <2>1. CASE toId[<<e, symbol>>] < MAX_SYMBOLS
    <3>1. toId[<<e, symbol>>] \in Slots
      BY <1>2, <2>1, DetectorAssumption DEF Slots
    <3>2. store["detector"][toId[<<e, symbol>>]] = last(e)
      BY <1>1, <1>2, <1>4, <3>1 DEF StoreIsSeen
    <3> QED BY <2>1, <3>2 DEF Price
  <2>2. CASE ~(toId[<<e, symbol>>] < MAX_SYMBOLS)
    BY <2>2 DEF Price
  <2> QED BY <2>1, <2>2
<1>6. valid = {e \in Exchanges : price(e) # NoQuote}
  <2>1. valid = {e \in Exchanges : \E n \in 1 .. Len(KnownExchanges) :
                   /\ n < next /\ e = KnownExchanges[n]
                   /\ Price(store["detector"], toId[KeyOf(n)]) # NoQuote}
    BY DEF LoopIsPartial
  <2> QED BY <1>3, <2>1, ExchangesAreListed DEF KeyOf
<1>7. \A e \in Exchanges : price(e) # NoQuote <=>
          last(e) # NoQuote /\ toId[<<e, symbol>>] < MAX_SYMBOLS
  BY <1>5
<1>8. valid = Usable(symbol)
  BY <1>6, <1>7 DEF Usable
<1>9. \A e \in valid : price(e) = last(e)
  BY <1>5, <1>6
<1> QED BY <1>8, <1>9

(* The detection's lookups by id find what the detector last popped.       *)
LEMMA DetectedIsTradeable ==
  ASSUME valid = Usable(symbol),
         \A e \in valid : Price(store["detector"], toId[<<e, symbol>>])
                             = seen["detector"][<<e, symbol>>]
  PROVE  Detected = Tradeable(symbol)
<1> DEFINE price(e) == Price(store["detector"], toId[<<e, symbol>>])
           last(e) == seen["detector"][<<e, symbol>>]
           D == {d \in Directions(valid) : Passes(d[1], d[2], price(d[1]).ask, price(d[2]).bid)}
           T == {d \in valid \X valid : d[1] # d[2] /\ Profitable(symbol, d)}
           opp(p) == [symbol |-> symbol, long |-> p[1], short |-> p[2],
                      ask |-> price(p[1]).ask, bid |-> price(p[2]).bid]
<1>1. \A d \in valid \X valid : price(d[1]) = last(d[1]) /\ price(d[2]) = last(d[2])
  OBVIOUS
<1>2. D = T
  BY <1>1 DEF Directions, Profitable
<1>3. \A p \in D : opp(p) = Opportunity(symbol, p)
  BY <1>1 DEF Opportunity, Directions
<1>4. Detected = {opp(p) : p \in D}
  BY DEF Detected
<1>5. Tradeable(symbol) = {Opportunity(symbol, p) : p \in T}
  BY TradeableIs
<1> HIDE DEF D, T, opp
<1> QED BY <1>2, <1>3, <1>4, <1>5

-----------------------------------------------------------------------------
(* The inductive invariant.                                                *)

LEMMA InitIInv == Init => IInv
<1> SUFFICES ASSUME Init PROVE IInv
  OBVIOUS
<1> USE DEF Init
<1>1. MapInv
  BY InitMapInv
<1>2. at = [t \in Threads |-> "idle"]
  BY DEF MapInit
<1>3. DetectorTypeOK
  BY <1>2, DetectorAssumption DEF DetectorTypeOK, QuoteOrNone
<1>4. Reversible
  BY MapAssumption DEF Reversible, MapInit
<1>5. IdsAreKnown
  BY <1>2, DetectorAssumption DEF IdsAreKnown
<1>6. StoreIsSeen
  BY DEF StoreIsSeen
<1>7. LoopIsPartial /\ FoundIsTradeable
  BY <1>2, DetectorAssumption DEF LoopIsPartial, FoundIsTradeable
<1> QED BY <1>1, <1>3, <1>4, <1>5, <1>6, <1>7 DEF IInv

(* What any step keeps of the map and of the ids in the bridge's hands.    *)
MapSide ==
    /\ MapInv' /\ Reversible' /\ IdsStay
    /\ \A i : Known(i) => Known(i)'
    /\ at'["bridge"] = "done" => Known(mine["bridge"])'

LEMMA MapSideKept ==
  ASSUME IInv, [Next]_vars
  PROVE  MapSide
<1>1. [MapNext]_mapVars
  BY MapStep DEF IInv
<1>2. MapInv' /\ IdsStay
  BY <1>1, MapKeepsIds DEF IInv
<1>3. Reversible'
  BY <1>1, MapKeepsReversible DEF IInv
<1>4. ASSUME NEW i, Known(i) PROVE Known(i)'
  BY <1>1, <1>4, MapKeepsKnown DEF IInv
<1>5. ASSUME at'["bridge"] = "done" PROVE Known(mine["bridge"])'
  BY <1>1, <1>5, BridgeHasKnownId DEF IInv, IdsAreKnown
<1> QED BY <1>2, <1>3, <1>4, <1>5 DEF MapSide

LEMMA PipelineStands ==
  ASSUME IInv, MapSide, pipeline' = pipeline
  PROVE  IdsAreKnown'
<1>1. ASSUME NEW n \in 1 .. Len(pipeline) PROVE Known(pipeline[n].id)'
  <2>1. PICK i : i = pipeline[n].id
    OBVIOUS
  <2>2. Known(i)'
    BY <2>1 DEF IInv, IdsAreKnown, MapSide
  <2> QED BY <2>1, <2>2 DEF Known
<1> QED BY <1>1 DEF IdsAreKnown, MapSide

(* A step that only moves the map, or the bridge up to its push.           *)
LEMMA QuietStep ==
  ASSUME IInv, MapSide, UNCHANGED <<pipeline, store, detectorVars, seen>>,
         quote' \in QuoteOrNone, at'["bridge"] # "idle" => quote' \in Good,
         at'["detector"] = "idle" <=> at["detector"] = "idle",
         key'["detector"] = key["detector"]
  PROVE  IInv'
<1>1. DetectorTypeOK'
  BY DEF IInv, DetectorTypeOK, detectorVars
<1>2. IdsAreKnown'
  BY PipelineStands
<1>3. StoreIsSeen'
  BY NewIdsFindNothing DEF IInv, MapSide
<1>4. LoopIsPartial'
  BY LoopStands DEF IInv, MapSide
<1>5. FoundIsTradeable'
  BY FoundStands DEF IInv, MapSide, detectorVars
<1> QED BY <1>1, <1>2, <1>3, <1>4, <1>5 DEF IInv, MapSide

(* The bridge's push, with the oldest update dropped or not: the id it     *)
(* carries is one from_id knows by the time the detector pops it.          *)
LEMMA PushStep ==
  ASSUME IInv, MapSide, Return("bridge"), NEW rest \in Seq([id : Nat, quote : Good]),
         \A n \in 1 .. Len(rest) : Known(rest[n].id),
         pipeline' = Append(rest, Update), quote' = quote,
         UNCHANGED <<store, detectorVars, seen>>
  PROVE  IInv'
<1> USE DetectorAssumption
<1>1. at["bridge"] = "done" /\ at' = [at EXCEPT !["bridge"] = "idle"]
      /\ UNCHANGED <<toId, fromId, nextId, key, mine>>
  BY DEF Return
<1>2. at'["bridge"] = "idle" /\ at'["detector"] = at["detector"]
  BY <1>1 DEF IInv, MapInv, MapTypeOK
<1>3. Update \in [id : Nat, quote : Good] /\ Update.id = mine["bridge"]
  BY <1>1 DEF Update, IInv, DetectorTypeOK, MapInv, MapTypeOK
<1>4. Known(Update.id)
  BY <1>1, <1>3 DEF IInv, IdsAreKnown
<1>5. pipeline' \in Seq([id : Nat, quote : Good]) /\ Len(pipeline') = Len(rest) + 1
  BY <1>3
<1>6. \A n \in 1 .. Len(rest) : pipeline'[n] = rest[n]
  BY <1>3
<1>7. pipeline'[Len(rest) + 1] = Update
  BY <1>3
<1>8. ASSUME NEW n \in 1 .. Len(pipeline') PROVE Known(pipeline[n].id)'
  <2>1. PICK i : i = pipeline'[n].id
    OBVIOUS
  <2>2. Len(rest) \in Nat /\ (n \in 1 .. Len(rest) \/ n = Len(rest) + 1)
    BY <1>5
  <2>3. Known(i)
    BY <1>4, <1>6, <1>7, <2>1, <2>2
  <2>4. Known(i)'
    BY <2>3 DEF MapSide
  <2> QED BY <2>1, <2>4 DEF Known
<1>9. DetectorTypeOK'
  BY <1>2, <1>5 DEF IInv, DetectorTypeOK, detectorVars
<1>10. IdsAreKnown'
  BY <1>8 DEF IdsAreKnown, MapSide
<1>11. StoreIsSeen'
  BY NewIdsFindNothing DEF IInv, MapSide
<1>12. LoopIsPartial'
  BY <1>1, <1>2, LoopStands DEF IInv, MapSide
<1>13. FoundIsTradeable'
  BY FoundStands DEF IInv, MapSide, detectorVars
<1> QED BY <1>9, <1>10, <1>11, <1>12, <1>13 DEF IInv, MapSide

LEMMA BridgeStep ==
  ASSUME IInv, MapSide, Bridge
  PROVE  IInv'
<1> USE DetectorAssumption
<1>1. /\ quote \in QuoteOrNone
      /\ at["bridge"] # "idle" => quote \in Good
      /\ pipeline \in Seq([id : Nat, quote : Good])
      /\ \A n \in 1 .. Len(pipeline) : Known(pipeline[n].id)
      /\ at \in [Threads -> {"idle", "missed", "allocated", "inserted", "done"}]
      /\ key \in [Threads -> Keys \cup {NoKey}]
  BY DEF IInv, DetectorTypeOK, IdsAreKnown, MapInv, MapTypeOK
<1>2. ASSUME NEW q \in Quotes, ReceiveUnreadable(q) PROVE IInv'
  BY <1>1, <1>2, QuietStep DEF ReceiveUnreadable, mapVars
<1>3. ASSUME NEW f \in Feed, NEW q \in Quotes, Receive(f, q) PROVE IInv'
  <2>1. quote' \in Good /\ quote' \in QuoteOrNone
    BY <1>3 DEF Receive, Good, QuoteOrNone
  <2>2. at'["detector"] = at["detector"] /\ key'["detector"] = key["detector"]
    BY <1>1, <1>3 DEF Receive, Hit, Miss
  <2>3. UNCHANGED <<pipeline, store, detectorVars, seen>>
    BY <1>3 DEF Receive
  <2> QED BY <2>1, <2>2, <2>3, QuietStep
<1>4. CASE Push
  BY <1>1, <1>4, PushStep DEF Push, bridgeVars
<1>5. CASE PushFull
  BY <1>1, <1>5, QuietStep DEF PushFull, mapVars
<1>6. CASE DropAndPush
  <2> DEFINE rest == IF pipeline = <<>> THEN pipeline ELSE Tail(pipeline)
  <2>1. rest \in Seq([id : Nat, quote : Good]) /\ \A n \in 1 .. Len(rest) : Known(rest[n].id)
    <3>1. CASE pipeline = <<>>
      BY <1>1, <3>1
    <3>2. CASE pipeline # <<>>
      BY <3>2, HeadIsKnown DEF IInv
    <3> QED BY <3>1, <3>2
  <2>2. Return("bridge") /\ pipeline' = Append(rest, Update) /\ quote' = quote
        /\ UNCHANGED <<store, detectorVars, seen>>
    BY <1>6 DEF DropAndPush
  <2> HIDE DEF rest
  <2> QED BY <2>1, <2>2, PushStep
<1> QED BY <1>2, <1>3, <1>4, <1>5, <1>6 DEF Bridge

(* A pop starts a detection: the reverse lookup never fails.               *)
LEMMA PopStep ==
  ASSUME IInv, MapSide, Pop
  PROVE  IInv'
<1> USE DetectorAssumption
<1>1. "detector" \in Consumers /\ TakeUpdate("detector") /\ UNCHANGED mapVars
      /\ UNCHANGED bridgeVars /\ step = "pop" /\ pipeline # <<>>
  BY DEF Consumers, Pop, TakeUpdate
<1>2. at["detector"] = "idle"
  BY <1>1 DEF IInv, LoopIsPartial
<1>3. Head(pipeline).id \in DOMAIN fromId
  BY <1>1, <1>2, HeadIsKnown DEF IInv, Known
<1>4. fromId[Head(pipeline).id] \in Keys
  BY <1>3 DEF IInv, MapInv, MapTypeOK
<1>5. step' = "exchanges" /\ symbol' \in Symbols /\ next' = 1 /\ valid' = {} /\ found' = {}
  BY <1>3, <1>4, KeysAreProduct DEF Pop
<1>6. /\ StoreIsSeen'
      /\ pipeline' \in Seq([id : Nat, quote : Good])
      /\ store' \in [Consumers -> [Slots -> QuoteOrNone]]
      /\ seen' \in [Consumers -> [Keys -> QuoteOrNone]]
      /\ \A n \in 1 .. Len(pipeline') : Known(pipeline[n].id)'
  BY <1>1, PopsAreStored DEF IInv
<1>7. DetectorTypeOK'
  <2>1. quote' = quote /\ at' = at
    BY <1>1 DEF bridgeVars, mapVars
  <2>2. step' \in {"pop", "exchanges"} /\ next' \in Nat \ {0}
    BY <1>5
  <2> QED BY <1>6, <2>1, <2>2 DEF IInv, DetectorTypeOK
<1>8. IdsAreKnown'
  BY <1>6 DEF IdsAreKnown, MapSide
<1>9. LoopIsPartial'
  BY <1>1, <1>2, <1>5 DEF LoopIsPartial, mapVars
<1>10. FoundIsTradeable'
  BY <1>5 DEF FoundIsTradeable
<1> QED BY <1>6, <1>7, <1>8, <1>9, <1>10 DEF IInv, MapSide

LEMMA RunnerPopStep ==
  ASSUME IInv, MapSide, RunnerPop
  PROVE  IInv'
<1>1. "runner" \in Consumers /\ TakeUpdate("runner") /\ UNCHANGED mapVars
      /\ UNCHANGED bridgeVars /\ UNCHANGED detectorVars
  BY DEF Consumers, RunnerPop
<1>2. /\ StoreIsSeen'
      /\ pipeline' \in Seq([id : Nat, quote : Good])
      /\ store' \in [Consumers -> [Slots -> QuoteOrNone]]
      /\ seen' \in [Consumers -> [Keys -> QuoteOrNone]]
      /\ \A n \in 1 .. Len(pipeline') : Known(pipeline[n].id)'
      /\ \A d \in Consumers \ {"runner"} : store'[d] = store[d] /\ seen'[d] = seen[d]
  BY <1>1, PopsAreStored DEF IInv
<1>3. store'["detector"] = store["detector"] /\ seen'["detector"] = seen["detector"]
  BY <1>2 DEF Consumers
<1>4. DetectorTypeOK'
  BY <1>1, <1>2 DEF IInv, DetectorTypeOK, bridgeVars, mapVars, detectorVars
<1>5. IdsAreKnown'
  BY <1>2 DEF IdsAreKnown, MapSide
<1>6. LoopIsPartial'
  BY <1>1, <1>3, LoopStands DEF IInv, MapSide, mapVars
<1>7. FoundIsTradeable'
  BY <1>1, <1>3, FoundStands DEF IInv, MapSide, detectorVars
<1> QED BY <1>2, <1>4, <1>5, <1>6, <1>7 DEF IInv, MapSide

LEMMA AskIdStep ==
  ASSUME IInv, MapSide, AskId
  PROVE  IInv'
<1> USE DetectorAssumption
<1>1. step = "exchanges" /\ next <= Len(KnownExchanges)
      /\ (Hit("detector", KeyOf(next)) \/ Miss("detector", KeyOf(next)))
      /\ UNCHANGED <<bridgeVars, pipeline, store, detectorVars, seen>>
  BY DEF AskId, KeyOf
<1>2. /\ at'["bridge"] = at["bridge"] /\ key'["detector"] = KeyOf(next)
      /\ toId' = toId
  BY <1>1 DEF IInv, MapInv, MapTypeOK, Hit, Miss
<1>3. DetectorTypeOK'
  BY <1>1, <1>2 DEF IInv, DetectorTypeOK, detectorVars, bridgeVars
<1>4. IdsAreKnown'
  BY <1>1, PipelineStands
<1>5. StoreIsSeen'
  BY <1>1, NewIdsFindNothing DEF IInv, MapSide
<1>6. LoopIsPartial'
  <2>1. \A n : KeyOf(n)' = KeyOf(n)
    BY <1>1 DEF KeyOf, detectorVars
  <2>2. UNCHANGED <<step, symbol, next, valid, found, store>>
    BY <1>1 DEF detectorVars
  <2> QED BY <1>1, <1>2, <2>1, <2>2 DEF IInv, LoopIsPartial
<1>7. FoundIsTradeable'
  BY <1>1, FoundStands DEF IInv, MapSide, detectorVars
<1> QED BY <1>3, <1>4, <1>5, <1>6, <1>7 DEF IInv, MapSide

LEMMA FilterExchangeStep ==
  ASSUME IInv, MapSide, FilterExchange
  PROVE  IInv'
<1> USE DetectorAssumption
<1>1. /\ step = "exchanges" /\ at["detector"] = "done"
      /\ at' = [at EXCEPT !["detector"] = "idle"]
      /\ next' = next + 1
      /\ UNCHANGED <<toId, fromId, nextId, key, mine>>
      /\ UNCHANGED <<bridgeVars, pipeline, store, step, symbol, found, seen>>
  BY DEF FilterExchange, Return
<1>2. at'["bridge"] = at["bridge"] /\ at'["detector"] = "idle"
  BY <1>1 DEF IInv, MapInv, MapTypeOK
<1>3. next \in Nat \ {0} /\ next <= Len(KnownExchanges) /\ key["detector"] = KeyOf(next)
      /\ symbol \in Symbols /\ found = {}
  BY <1>1 DEF IInv, LoopIsPartial, DetectorTypeOK
<1>4. mine["detector"] = toId[KeyOf(next)] /\ toId[KeyOf(next)] # 0
  BY <1>1, <1>3 DEF IInv, MapInv, OneIdPerKey
<1>5. DetectorTypeOK'
  <2>1. next' \in Nat \ {0}
    BY <1>1, <1>3
  <2>2. UNCHANGED <<quote, pipeline, store, seen, step>>
    BY <1>1 DEF bridgeVars
  <2> QED BY <1>2, <2>1, <2>2 DEF IInv, DetectorTypeOK
<1>6. IdsAreKnown'
  BY <1>1, PipelineStands
<1>7. StoreIsSeen'
  BY <1>1, NewIdsFindNothing DEF IInv, MapSide
<1>8. LoopIsPartial'
  <2>1. \A n : KeyOf(n)' = KeyOf(n)
    BY <1>1 DEF KeyOf
  <2>2. \A n \in 1 .. Len(KnownExchanges) : n < next' <=> n < next \/ n = next
    BY <1>1, <1>3
  <2>3. \A n \in 1 .. Len(KnownExchanges) : n < next' => toId[KeyOf(n)] # 0
    BY <1>1, <1>4, <2>2 DEF IInv, LoopIsPartial
  <2>4. next \in 1 .. Len(KnownExchanges) /\ KnownExchanges[next] \in Exchanges
    BY <1>3, ExchangesAreListed
  <2>5. valid = {e \in Exchanges : \E n \in 1 .. Len(KnownExchanges) :
                   /\ n < next /\ e = KnownExchanges[n]
                   /\ Price(store["detector"], toId[KeyOf(n)]) # NoQuote}
    BY <1>1 DEF IInv, LoopIsPartial
  <2>6. valid' = IF Price(store["detector"], toId[KeyOf(next)]) # NoQuote
                 THEN valid \cup {KnownExchanges[next]} ELSE valid
    BY <1>4 DEF FilterExchange
  <2>7. valid' = {e \in Exchanges : \E n \in 1 .. Len(KnownExchanges) :
                    /\ n < next' /\ e = KnownExchanges[n]
                    /\ Price(store["detector"], toId[KeyOf(n)]) # NoQuote}
    BY <2>2, <2>4, <2>5, <2>6
  <2> QED BY <1>1, <1>2, <1>3, <2>1, <2>3, <2>7 DEF LoopIsPartial
<1>9. FoundIsTradeable'
  BY <1>1 DEF FoundIsTradeable
<1> QED BY <1>5, <1>6, <1>7, <1>8, <1>9 DEF IInv, MapSide

(* The detection itself.                                                   *)
LEMMA CheckPairsStep ==
  ASSUME IInv, MapSide, CheckPairs
  PROVE  IInv'
<1>1. /\ step = "exchanges" /\ next > Len(KnownExchanges)
      /\ found' = Detected /\ step' = "pop"
      /\ UNCHANGED <<mapVars, bridgeVars, pipeline, store, symbol, next, valid, seen>>
  BY DEF CheckPairs
<1>2. UNCHANGED <<toId, fromId, nextId, at, key, mine, quote>>
  BY <1>1 DEF mapVars, bridgeVars
<1>3. at["detector"] = "idle" /\ symbol \in Symbols
  BY <1>1, ExchangesAreListed DEF IInv, LoopIsPartial, DetectorTypeOK
<1>4. Detected = Tradeable(symbol)
  BY <1>1, ValidIsUsable, DetectedIsTradeable DEF IInv
<1>5. Tradeable(symbol)' = Tradeable(symbol)
  BY <1>1, <1>2 DEF Tradeable
<1>6. DetectorTypeOK'
  BY <1>1, <1>2 DEF IInv, DetectorTypeOK
<1>7. IdsAreKnown'
  BY <1>1, PipelineStands
<1>8. StoreIsSeen'
  BY <1>1, NewIdsFindNothing DEF IInv, MapSide
<1>9. LoopIsPartial'
  BY <1>1, <1>2, <1>3 DEF LoopIsPartial
<1>10. FoundIsTradeable'
  BY <1>1, <1>3, <1>4, <1>5 DEF FoundIsTradeable
<1> QED BY <1>6, <1>7, <1>8, <1>9, <1>10 DEF IInv, MapSide

LEMMA NextIInv == IInv /\ [Next]_vars => IInv'
<1> SUFFICES ASSUME IInv, [Next]_vars PROVE IInv'
  OBVIOUS
<1> USE DetectorAssumption
<1>1. MapSide
  BY MapSideKept
<1>2. /\ quote \in QuoteOrNone
      /\ at["bridge"] # "idle" => quote \in Good
      /\ at \in [Threads -> {"idle", "missed", "allocated", "inserted", "done"}]
  BY DEF IInv, DetectorTypeOK, MapInv, MapTypeOK
<1>3. CASE UNCHANGED vars
  BY <1>1, <1>2, <1>3, QuietStep DEF vars, mapVars, bridgeVars
<1>4. CASE Bridge
  BY <1>1, <1>4, BridgeStep
<1>5. CASE Detection
  <2>1. CASE PopNothing
    BY <1>3, <2>1 DEF PopNothing
  <2> QED
    BY <1>1, <1>5, <2>1, PopStep, AskIdStep, FilterExchangeStep, CheckPairsStep DEF Detection
<1>6. CASE RunnerPop
  BY <1>1, <1>6, RunnerPopStep
<1>7. ASSUME NEW t \in Threads, InMap(t) PROVE IInv'
  <2>1. UNCHANGED <<bridgeVars, pipeline, store, detectorVars, seen>> /\ quote' = quote
    BY <1>7 DEF InMap, bridgeVars
  <2>2. /\ at'["bridge"] # "idle" => at["bridge"] # "idle"
        /\ at'["detector"] = "idle" <=> at["detector"] = "idle"
        /\ key' = key
    BY <1>2, <1>7 DEF InMap, InCall, Allocate, LoseRace, WinRace, Publish
  <2> QED BY <1>1, <1>2, <2>1, <2>2, QuietStep
<1> QED BY <1>3, <1>4, <1>5, <1>6, <1>7 DEF Next

-----------------------------------------------------------------------------
(* The results.                                                            *)

(* No step of the bridge, the detector or the runner breaks the agreement  *)
(* between the map, the queue, the two stores and the detector's loop.     *)
THEOREM InductiveInvariant == Spec => []IInv
<1> QED BY InitIInv, NextIInv, PTL DEF Spec

(* The bridge and the detector use the shared map as symbol_map.rs expects *)
(* of its callers: the composition implements the map's specification.     *)
THEOREM DetectorRefinesMap == Spec => MapSpec
<1>1. Init => MapInit
  BY DEF Init
<1>2. IInv /\ [Next]_vars => [MapNext]_mapVars
  BY MapStep DEF IInv
<1> QED BY <1>1, <1>2, InductiveInvariant, PTL DEF Spec, MapSpec

(* Hence get_or_insert gives one id per key while redis_bridge and the     *)
(* detector race on it ...                                                 *)
THEOREM StreamingGivesOneId == Spec => []OneIdPerKey
<1> QED BY DetectorRefinesMap, MapGivesOneId, PTL

(* ... and is linearizable to both of them.                                *)
THEOREM StreamingImplementsRegistry == Spec => RegistrySpec
<1> QED BY DetectorRefinesMap, MapImplementsRegistry, PTL

(* Whatever the pipeline's size and the races on the map, an iteration of  *)
(* the detector's loop finds exactly the opportunities between the last    *)
(* quotes it popped, and the runner's second lookup of the prices returns  *)
(* what it popped last itself.                                             *)
THEOREM DetectionIsExact == Spec => []FoundIsExact
<1>1. IInv => FoundIsExact
  <2> SUFFICES ASSUME IInv PROVE FoundIsExact
    OBVIOUS
  <2>1. step = "pop" /\ symbol # NoKey => found = Tradeable(symbol)
    BY DEF IInv, FoundIsTradeable
  <2>2. ASSUME NEW o \in found
        PROVE LET long == seen["runner"][<<o.long, o.symbol>>]
                  short == seen["runner"][<<o.short, o.symbol>>]
              IN  get_prices_from_store(o) =
                    IF NoQuote \in {long, short} THEN <<>> ELSE <<long.ask, short.bid>>
    <3>1. symbol \in Symbols /\ found = Tradeable(symbol)
      BY <2>2 DEF IInv, FoundIsTradeable, LoopIsPartial, DetectorTypeOK
    <3>2. PICK p \in Usable(symbol) \X Usable(symbol) : o = Opportunity(symbol, p)
      BY <2>2, <3>1, TradeableIs
    <3>3. o.long \in Usable(symbol) /\ o.short \in Usable(symbol) /\ o.symbol = symbol
      BY <3>2 DEF Opportunity
    <3>4. ASSUME NEW e \in Usable(symbol)
          PROVE Price(store["runner"], toId[<<e, symbol>>]) = seen["runner"][<<e, symbol>>]
      <4>1. <<e, symbol>> \in Keys /\ toId[<<e, symbol>>] \in Nat
        BY <3>1, KeysAreProduct DEF Usable, IInv, MapInv, MapTypeOK
      <4>2. "detector" \in Consumers /\ "runner" \in Consumers
        BY DEF Consumers
      <4>3. toId[<<e, symbol>>] # 0 /\ toId[<<e, symbol>>] < MAX_SYMBOLS
        BY <4>1, <4>2 DEF Usable, IInv, StoreIsSeen
      <4>4. toId[<<e, symbol>>] \in Slots
        BY <4>1, <4>3, DetectorAssumption DEF Slots
      <4>5. store["runner"][toId[<<e, symbol>>]] = seen["runner"][<<e, symbol>>]
        BY <4>1, <4>2, <4>3, <4>4 DEF IInv, StoreIsSeen
      <4> QED BY <4>3, <4>5 DEF Price
    <3> QED BY <3>3, <3>4 DEF get_prices_from_store
  <2> QED BY <2>1, <2>2 DEF FoundIsExact
<1> QED BY <1>1, InductiveInvariant, PTL

(* What passes check_opportunity's filters buys below where it sells.      *)
LEMMA ProfitBuysLow ==
  ASSUME NEW ask \in Int, NEW bid \in Int, ask > 0, NEW long, NEW short,
         Passes(long, short, ask, bid)
  PROVE  ask < bid
BY DEF Passes, SpreadAbove

(* A detection never proposes the two directions between two exchanges at  *)
(* once, because no crossed quote gets past parse_to_market_update.        *)
THEOREM DirectionsExclude == Spec => []NeverBothDirections
<1>1. IInv => NeverBothDirections
  <2> SUFFICES ASSUME IInv, NEW o \in found, NEW p \in found,
                      o.long = p.short, o.short = p.long
               PROVE  FALSE
    BY DEF NeverBothDirections
  <2> DEFINE last(e) == seen["detector"][<<e, symbol>>]
  <2>1. symbol \in Symbols /\ found = Tradeable(symbol)
    BY DEF IInv, FoundIsTradeable, LoopIsPartial, DetectorTypeOK
  <2>2. ASSUME NEW r \in found
        PROVE  /\ r.long \in Usable(symbol) /\ r.short \in Usable(symbol)
               /\ Passes(r.long, r.short, last(r.long).ask, last(r.short).bid)
    <3>1. PICK d \in Usable(symbol) \X Usable(symbol) :
             r = Opportunity(symbol, d) /\ Profitable(symbol, d)
      BY <2>1, <2>2, TradeableIs
    <3>2. r.long = d[1] /\ r.short = d[2]
      BY <3>1 DEF Opportunity
    <3> QED BY <3>1, <3>2 DEF Profitable
  <2>3. ASSUME NEW e \in Usable(symbol)
        PROVE  /\ last(e).bid \in Int /\ last(e).ask \in Int
               /\ last(e).ask > 0 /\ last(e).bid < last(e).ask
    <3>1. <<e, symbol>> \in Keys /\ last(e) # NoQuote
      BY <2>1, KeysAreProduct DEF Usable
    <3>2. last(e) \in Good
      BY <3>1 DEF IInv, DetectorTypeOK, Consumers, QuoteOrNone
    <3> QED BY <3>1, <3>2, DetectorAssumption DEF Good, Parses
  <2>4. last(o.long).ask < last(o.short).bid
    BY <2>2, <2>3, ProfitBuysLow
  <2>5. last(o.short).ask < last(o.long).bid
    BY <2>2, <2>3, ProfitBuysLow
  <2>6. o.long \in Usable(symbol) /\ o.short \in Usable(symbol)
    BY <2>2
  <2> HIDE DEF last
  <2> QED BY <2>3, <2>4, <2>5, <2>6
<1> QED BY <1>1, InductiveInvariant, PTL
=============================================================================
