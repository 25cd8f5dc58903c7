------------------------------ MODULE IdRegistry ------------------------------
(***************************************************************************)
(* What SymbolMap promises its callers: a registry that answers each       *)
(* request in one atomic step, with the id the key has, or with a fresh id *)
(* that becomes the key's.                                                 *)
(***************************************************************************)
EXTENDS Naturals

CONSTANTS Threads, Keys, Preallocated, NoAnswer

VARIABLES
    ids,      \* key -> id, 0 for a key without one
    answer    \* per thread: the key and id of the answer it holds, or NoAnswer

regVars == <<ids, answer>>

Init ==
    /\ ids = Preallocated
    /\ answer = [t \in Threads |-> NoAnswer]

Fresh(n) == n \in Nat \ {0} /\ \A k \in Keys : ids[k] # n

GetOrInsert(t, k) ==
    /\ answer[t] = NoAnswer
    /\ \/ ids[k] # 0 /\ ids' = ids
       \/ ids[k] = 0 /\ Fresh(ids'[k]) /\ ids' = [ids EXCEPT ![k] = ids'[k]]
    /\ answer' = [answer EXCEPT ![t] = <<k, ids'[k]>>]

Return(t) ==
    /\ answer[t] # NoAnswer
    /\ answer' = [answer EXCEPT ![t] = NoAnswer]
    /\ ids' = ids

Next == \E t \in Threads : Return(t) \/ \E k \in Keys : GetOrInsert(t, k)

Spec == Init /\ [][Next]_regVars
=============================================================================
