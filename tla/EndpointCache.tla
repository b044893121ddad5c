--------------------------- MODULE EndpointCache ---------------------------
(***************************************************************************)
(* cache::Cache (src/CODE/src/client/cache/cache.cpp): the block servers of *)
(* a file, bounded in size, expiring, the least recently used first to go. *)
(* Every operation holds mutex_; only the eviction loop of set() is taken  *)
(* step by step, for it ends only while the list and the map agree.        *)
(***************************************************************************)
EXTENDS Integers, Sequences, SequencesExt, FiniteSetsExt, Subsequences

CONSTANTS
    Key, Value, None,     \* None: the empty vector, which is never set
    Length,               \* of a key, of a value: sums of string sizes
    MaxSize, TTL          \* maxSize_; defaultTTL_ in ticks of the clock

ASSUME LengthAssumption == Length \in [Key \cup Value -> Nat] /\ MaxSize \in Nat
ASSUME TTLAssumption == TTL \in Nat \ {0}
ASSUME NoneAssumption == None \notin Key \cup Value \cup [key : Key, value : Value]

VARIABLES
    value, left,      \* cache_: the values, None if there is none; ticks they have left
    lru,              \* lru_, the most recently used key first
    currentSize,
    setting,          \* the call of set() that is at its loop
    call              \* the last call and what it set or returned

vars == <<value, left, lru, currentSize, setting, call>>

TypeOK ==
    /\ value \in [Key -> {None} \cup Value]
    /\ left \in [Key -> 0..TTL]
    /\ lru \in Seq(Key)
    /\ currentSize \in Nat
    /\ setting \in {None} \cup [key : Key, value : Value]
    /\ call \in {None} \cup [op : {"set", "get"}, key : Key, value : {None} \cup Value]

Init ==
    /\ value = [k \in Key |-> None] /\ left = [k \in Key |-> 0]
    /\ lru = <<>> /\ currentSize = 0
    /\ setting = None /\ call = None

-----------------------------------------------------------------------------
Cached == {k \in Key : value[k] # None}
EntrySize(k, v) == Length[k] + Length[v]
SizeOf(S) == MapThenSumSet(LAMBDA k : EntrySize(k, value[k]), S)
Expired(k) == left[k] = 0

\* The list without the keys of S.
Without(S) == Picked(lru, {i \in DOMAIN lru : lru[i] \notin S})

DropEarly(S) ==   \* mutant: the list keeps the keys of expired entries
    /\ value' = [k \in Key |-> IF k \in S THEN None ELSE value[k]]
    /\ currentSize' = currentSize - SizeOf(S)
    /\ lru' = Without({k \in S : ~Expired(k)})

\* The entries of S leave the map and the list.
Drop(S) ==
    /\ value' = [k \in Key |-> IF k \in S THEN None ELSE value[k]]
    /\ lru' = Without(S)
    /\ currentSize' = currentSize - SizeOf(S)

Called(op, k, v) == call' = [op |-> op, key |-> k, value |-> v]

SetBeginsTooLarge(k, v) ==   \* mutant: a value that is too large leaves the old one
    /\ setting = None
    /\ Called("set", k, v)
    /\ IF EntrySize(k, v) > MaxSize THEN UNCHANGED <<value, lru, currentSize, setting>>
       ELSE Drop({k} \cap Cached) /\ setting' = [key |-> k, value |-> v]
    /\ UNCHANGED left

\* set(): the entry there is under the key goes first, also when the new one
\* is too large to be cached.
SetBegins(k, v) ==
    /\ setting = None
    /\ Called("set", k, v)
    /\ Drop({k} \cap Cached)
    /\ setting' = IF EntrySize(k, v) > MaxSize THEN None ELSE [key |-> k, value |-> v]
    /\ UNCHANGED left

Fits == currentSize + EntrySize(setting.key, setting.value) <= MaxSize

\* The loop.  A key of the list that is not in the map stays where it is.
Evict ==
    /\ setting # None /\ ~Fits /\ lru # <<>>
    /\ Drop({lru[Len(lru)]} \cap Cached)
    /\ UNCHANGED <<left, setting, call>>

Insert ==
    /\ setting # None /\ (Fits \/ lru = <<>>)
    /\ value' = [value EXCEPT ![setting.key] = setting.value]
    /\ left' = [left EXCEPT ![setting.key] = TTL]
    /\ lru' = <<setting.key>> \o lru
    /\ currentSize' = currentSize + EntrySize(setting.key, setting.value)
    /\ setting' = None
    /\ UNCHANGED call

Hit(k) ==
    /\ k \in Cached /\ ~Expired(k)
    /\ Called("get", k, value[k])
    /\ lru' = <<k>> \o Without({k})
    /\ UNCHANGED <<value, currentSize>>

Miss(k) ==
    /\ k \notin Cached \/ Expired(k)
    /\ Called("get", k, None)
    /\ Drop({k} \cap Cached)

\* get()
Get(k) == setting = None /\ (Hit(k) \/ Miss(k)) /\ UNCHANGED <<left, setting>>

\* cleaner()
Clean ==
    /\ setting = None
    /\ Drop({k \in Cached : Expired(k)})
    /\ UNCHANGED <<left, setting, call>>

Tick ==
    /\ left' = [k \in Key |-> IF left[k] = 0 THEN 0 ELSE left[k] - 1]
    /\ UNCHANGED <<value, lru, currentSize, setting, call>>

Next ==
    \/ Evict \/ Insert \/ Clean \/ Tick
    \/ \E k \in Key : Get(k) \/ \E v \in Value : SetBegins(k, v)

\* The thread in set() goes on.
Fairness == WF_vars(Evict \/ Insert)

Spec == Init /\ [][Next]_vars /\ Fairness

-----------------------------------------------------------------------------
\* The list holds the keys of the map, each once, and currentSize_ is the sum
\* of the sizes of the entries, within maxSize_: the loop never meets a key
\* it cannot evict, and never an empty list before there is room.
Consistent ==
    /\ IsInjective(lru) /\ ToSet(lru) = Cached
    /\ currentSize = SizeOf(Cached) /\ currentSize <= MaxSize
    /\ setting # None => setting.key \notin Cached

Abstract == INSTANCE VolatileMap WITH map <- IF setting = None THEN value
                                             ELSE [value EXCEPT ![setting.key] = setting.value]

\* get returns the value set last, or nothing (cache.hpp).
IsVolatileMap == Abstract!Spec

\* set() returns: the eviction loop ends.
SetReturns == setting # None ~> setting = None
=============================================================================
