------------------------------ MODULE AbstractMap ------------------------------
(***************************************************************************)
(* What users of lib/hash_table.c rely on: a map from keys to values in    *)
(* which setting or deleting a key leaves all other keys alone.            *)
(***************************************************************************)
CONSTANTS Keys, Values, NoValue

VARIABLE map   \* the value of each key, or NoValue

Init == map = [k \in Keys |-> NoValue]

Set(k, v) == map' = [map EXCEPT ![k] = v]

Delete(k) == map' = [map EXCEPT ![k] = NoValue]

Next == \E k \in Keys : Delete(k) \/ \E v \in Values : Set(k, v)

Spec == Init /\ [][Next]_map
=============================================================================
