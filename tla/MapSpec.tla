------------------------------ MODULE MapSpec ------------------------------
(***************************************************************************)
(* What the trait Map of kernel/src/collections/traits.rs promises: a      *)
(* partial function from keys to values, and what each call returns.       *)
(* A map of bounded capacity may refuse a new key when it is full; insert  *)
(* then returns what it returns for a key that is new.                     *)
(***************************************************************************)
EXTENDS Integers, FiniteSets

CONSTANTS Keys, Values, None

VARIABLES map, capacity, result

vars == <<map, capacity, result>>

At(k) == IF k \in DOMAIN map THEN map[k] ELSE None

Insert(k, v) ==
    /\ \/ map' = [j \in DOMAIN map \cup {k} |-> IF j = k THEN v ELSE map[j]]
       \/ k \notin DOMAIN map /\ Cardinality(DOMAIN map) = capacity /\ UNCHANGED map
    /\ result' = At(k) /\ UNCHANGED capacity

Get(k) == result' = At(k) /\ UNCHANGED <<map, capacity>>

Remove(k) ==
    /\ map' = [j \in DOMAIN map \ {k} |-> map[j]]
    /\ result' = At(k) /\ UNCHANGED capacity

Clear == map' = [j \in {} |-> None] /\ result' = None /\ UNCHANGED capacity

Init == map = [j \in {} |-> None] /\ capacity \in Nat /\ result = None

Next ==
    \/ \E k \in Keys : Get(k) \/ Remove(k) \/ \E v \in Values : Insert(k, v)
    \/ Clear

Spec == Init /\ [][Next]_vars
=============================================================================
