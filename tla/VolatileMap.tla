---------------------------- MODULE VolatileMap ----------------------------
(***************************************************************************)
(* What a cache promises (src/CODE/src/client/cache/cache.hpp): get        *)
(* returns the value set last for the key, or nothing.  A value may vanish *)
(* at any time, or not be kept at all; it never comes back, and an older   *)
(* one is never seen again.                                                *)
(***************************************************************************)
CONSTANTS Key, Value, None

VARIABLES map, call     \* the values there are; the last call of set or get

Init ==
    /\ map = [k \in Key |-> None]
    /\ call = None

Set(k, v) ==
    /\ call' = [op |-> "set", key |-> k, value |-> v]
    /\ \E kept \in {v, None} : map' = [map EXCEPT ![k] = kept]

Get(k) ==
    \/ call' = [op |-> "get", key |-> k, value |-> map[k]] /\ UNCHANGED map
    \/ call' = [op |-> "get", key |-> k, value |-> None] /\ map' = [map EXCEPT ![k] = None]

Forget ==
    /\ \E S \in SUBSET Key : map' = [k \in Key |-> IF k \in S THEN None ELSE map[k]]
    /\ UNCHANGED call

Next == Forget \/ \E k \in Key : Get(k) \/ \E v \in Value : Set(k, v)

Spec == Init /\ [][Next]_<<map, call>>
=============================================================================
