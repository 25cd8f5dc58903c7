------------------------------ MODULE SymbolMap ------------------------------
(***************************************************************************)
(* strategy/symbol_map.rs: the concurrent dictionary that gives every      *)
(* (exchange, symbol) pair a numeric id.  It is two DashMaps and an atomic *)
(* counter, and get_or_insert touches them in separate steps: a lookup in  *)
(* to_id, then fetch_add on next_id, then the entry of to_id, then an      *)
(* insert into from_id.  Each step is atomic and other threads run between *)
(* any two of them.  (DashMap keeps the shard of the entry locked until    *)
(* get_or_insert returns, which only forbids some of these interleavings.) *)
(* The ids are u32 in the code and unbounded here: an id is taken only for *)
(* a key that has none yet, so 2^32 of them are never reached.             *)
(***************************************************************************)
EXTENDS Naturals

CONSTANTS
    Threads,          \* the callers of get_or_insert
    Keys,             \* (exchange, symbol) pairs
    NoKey,            \* no pair
    Preallocated,     \* the ids of the common pairs; 0 for a pair without one
    FirstId           \* next_id once the common pairs have their ids

ASSUME MapAssumption ==
    /\ NoKey \notin Keys
    /\ FirstId \in Nat \ {0}
    /\ Preallocated \in [Keys -> 0 .. FirstId - 1]
    /\ \A j, k \in Keys : Preallocated[j] = Preallocated[k] /\ Preallocated[j] # 0 => j = k

VARIABLES
    toId,       \* to_id: key -> id, 0 where the map has no entry
    fromId,     \* from_id: id -> key, defined on the ids it holds
    nextId,     \* next_id
    at,         \* per thread: where its call of get_or_insert is
    key,        \* per thread: the argument of its current or last call
    mine        \* per thread: the id it took from next_id, then the id it returns

mapVars == <<toId, fromId, nextId, at, key, mine>>

(* preallocate_common_symbols has run, alone, before the map is shared.    *)
MapInit ==
    /\ toId = Preallocated
    /\ fromId = [i \in {Preallocated[k] : k \in Keys} \ {0} |->
                    CHOOSE k \in Keys : Preallocated[k] = i]
    /\ nextId = FirstId
    /\ at = [t \in Threads |-> "idle"]
    /\ key = [t \in Threads |-> NoKey]
    /\ mine = [t \in Threads |-> 0]

(* The fast path: the key has an id.                                       *)
Hit(t, k) ==
    /\ at[t] = "idle"
    /\ toId[k] # 0
    /\ key' = [key EXCEPT ![t] = k]
    /\ mine' = [mine EXCEPT ![t] = toId[k]]
    /\ at' = [at EXCEPT ![t] = "done"]
    /\ UNCHANGED <<toId, fromId, nextId>>

(* The lookup finds nothing.                                               *)
Miss(t, k) ==
    /\ at[t] = "idle"
    /\ toId[k] = 0
    /\ key' = [key EXCEPT ![t] = k]
    /\ at' = [at EXCEPT ![t] = "missed"]
    /\ UNCHANGED <<toId, fromId, nextId, mine>>

(* Mutant: the counter is read and written back without being taken.       *)
AllocateStale(t) ==
    /\ at[t] = "missed"
    /\ mine' = [mine EXCEPT ![t] = nextId]
    /\ at' = [at EXCEPT ![t] = "allocated"]
    /\ UNCHANGED <<toId, fromId, nextId, key>>

(* next_id.fetch_add(1).                                                   *)
Allocate(t) ==
    /\ at[t] = "missed"
    /\ mine' = [mine EXCEPT ![t] = nextId]
    /\ nextId' = nextId + 1
    /\ at' = [at EXCEPT ![t] = "allocated"]
    /\ UNCHANGED <<toId, fromId, key>>

(* Entry::Occupied: another thread was first; the id just taken is unused. *)
LoseRace(t) ==
    /\ at[t] = "allocated"
    /\ toId[key[t]] # 0
    /\ mine' = [mine EXCEPT ![t] = toId[key[t]]]
    /\ at' = [at EXCEPT ![t] = "done"]
    /\ UNCHANGED <<toId, fromId, nextId, key>>

(* Mutant: insert, where the code asks the entry first.                    *)
WinRaceUnchecked(t) ==
    /\ at[t] = "allocated"
    /\ toId' = [toId EXCEPT ![key[t]] = mine[t]]
    /\ at' = [at EXCEPT ![t] = "inserted"]
    /\ UNCHANGED <<fromId, nextId, key, mine>>

(* Entry::Vacant: this thread's id becomes the key's.                      *)
WinRace(t) ==
    /\ at[t] = "allocated"
    /\ toId[key[t]] = 0
    /\ toId' = [toId EXCEPT ![key[t]] = mine[t]]
    /\ at' = [at EXCEPT ![t] = "inserted"]
    /\ UNCHANGED <<fromId, nextId, key, mine>>

(* from_id.insert, after to_id already shows the id to everyone.           *)
Publish(t) ==
    /\ at[t] = "inserted"
    /\ fromId' = [i \in DOMAIN fromId \cup {mine[t]} |->
                    IF i = mine[t] THEN key[t] ELSE fromId[i]]
    /\ at' = [at EXCEPT ![t] = "done"]
    /\ UNCHANGED <<toId, nextId, key, mine>>

(* The caller takes the id.                                                *)
Return(t) ==
    /\ at[t] = "done"
    /\ at' = [at EXCEPT ![t] = "idle"]
    /\ UNCHANGED <<toId, fromId, nextId, key, mine>>

(* The steps of a call that do not depend on who made it.                  *)
InCall(t) == Allocate(t) \/ LoseRace(t) \/ WinRace(t) \/ Publish(t)

MapNext ==
    \E t \in Threads :
        \/ InCall(t)
        \/ Return(t)
        \/ \E k \in Keys : Hit(t, k) \/ Miss(t, k)

MapSpec == MapInit /\ [][MapNext]_mapVars

-----------------------------------------------------------------------------
(* Properties.                                                             *)

(* The types of the state of symbol_map.rs; a call under way has a key.    *)
MapTypeOK ==
    /\ toId \in [Keys -> Nat]
    /\ DOMAIN fromId \subseteq Nat
    /\ \A i \in DOMAIN fromId : fromId[i] \in Keys
    /\ nextId \in Nat \ {0}
    /\ at \in [Threads -> {"idle", "missed", "allocated", "inserted", "done"}]
    /\ key \in [Threads -> Keys \cup {NoKey}]
    /\ mine \in [Threads -> Nat]
    /\ \A t \in Threads : at[t] # "idle" => key[t] \in Keys

(* get_or_insert promises that "if multiple threads try to insert the same *)
(* symbol simultaneously, only one will succeed and all will get the same  *)
(* ID": whatever a call returned for a key is the id the map holds for it, *)
(* whoever won the race; no two keys share an id; and the reverse map      *)
(* names the key of every id it holds.                                     *)
OneIdPerKey ==
    /\ \A t \in Threads : at[t] = "done" => mine[t] = toId[key[t]] /\ mine[t] # 0
    /\ \A j, k \in Keys : toId[j] = toId[k] /\ toId[j] # 0 => j = k
    /\ \A i \in DOMAIN fromId : toId[fromId[i]] = i

(* The mapping to IdRegistry: a call has its answer from the step that     *)
(* decides it.                                                             *)
Answered(t) == at[t] \in {"inserted", "done"}

Registry == INSTANCE IdRegistry WITH
    ids <- toId,
    NoAnswer <- <<>>,
    answer <- [t \in Threads |-> IF Answered(t) THEN <<key[t], mine[t]>> ELSE <<>>]

(* get_or_insert is linearizable: seen through the forward map and the     *)
(* answers, its five separate accesses to two maps and a counter are one   *)
(* atomic step of IdRegistry, taken at the lookup that hits or at the      *)
(* entry of to_id.  An id once given therefore never changes, which is     *)
(* what lets a MarketUpdate in a queue carry the id alone.                 *)
RegistrySpec == Registry!Spec
=============================================================================
