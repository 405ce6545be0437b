------------------------------ MODULE MapTable ------------------------------
(***************************************************************************)
(* The open-addressing hash table of src/src/map.c (the Set of           *)
(* src/unnamed/part_010 is the same code over values that are their own   *)
(* keys).  A slot is empty (never used: key NULL), occupied, or a         *)
(* tombstone (not occupied, key kept "for probing").  Lookups probe       *)
(* linearly from hash % capacity; an insertion reuses the first tombstone *)
(* met before the first never-used slot; the table doubles, rehashing     *)
(* the occupied slots in index order and freeing tombstones, when         *)
(* size + tombstones + 1 exceeds 3/4 of the capacity.                     *)
(*                                                                         *)
(* Data abstraction: a key string is a model value and strcmp is          *)
(* equality; FNV-1a hash_string is an arbitrary function hashOf chosen    *)
(* in Init (every choice is explored, so every pattern of collisions).    *)
(* rebuild_calloc and rebuild_strdup exit the process when allocation     *)
(* fails, so no call ever sees a NULL from them.                          *)
(***************************************************************************)
EXTENDS Integers, FiniteSets

CONSTANTS
    Keys,          \* key strings
    Vals,          \* non-NULL values
    NoKey,         \* the NULL key of a never-used slot
    Missing,       \* the NULL value
    InitCapacity,  \* the argument of map_create
    HashRange,     \* hash_string values are taken from 0..HashRange-1
    MaxCapacity    \* bound: the table is not grown past this capacity

ASSUME MapAssumption ==
    /\ NoKey \notin Keys /\ Missing \notin Vals
    /\ InitCapacity \in Nat /\ HashRange \in Nat \ {0} /\ MaxCapacity \in Nat

VARIABLES
    entries,     \* map->entries: slot index -> [occupied, key, value]
    capacity,    \* map->capacity
    size,        \* map->size
    tombstones,  \* map->tombstones
    hashOf,      \* hash_string of each key (fixed)
    ret          \* the result of the last call

vars == <<entries, capacity, size, tombstones, hashOf, ret>>

Slot == [occupied : BOOLEAN, key : Keys \cup {NoKey}, value : Vals \cup {Missing}]
EmptySlot == [occupied |-> FALSE, key |-> NoKey, value |-> Missing]
NoSlot == -1

TypeOK ==
    /\ capacity \in Nat \ {0}
    /\ entries \in [0..capacity - 1 -> Slot]
    /\ size \in Nat
    /\ tombstones \in Nat
    /\ hashOf \in [Keys -> 0..HashRange - 1]

(* FNV-1a of the key string. *)
hash_string(k) == hashOf[k]

(* The least element of a non-empty set of naturals. *)
First(S) == CHOOSE i \in S : \A j \in S : i <= j

(* Mutant: returns the first free slot (tombstone or never used) without *)
(* looking further for the key itself.                                   *)
find_returns_first_free(ent, cap, k) ==
    LET home == hash_string(k) % cap
        at(i) == ent[(home + i) % cap]
        Stops == {i \in 0..cap - 1 : ~at(i).occupied \/ at(i).key = k}
    IN IF Stops = {} THEN NoSlot ELSE (home + First(Stops)) % cap

(***************************************************************************)
(* map_find_entry: the loop returns at the first never-used slot (the     *)
(* first tombstone seen if any, else that slot) or at the first occupied  *)
(* slot holding the key; a loop that meets neither returns the first     *)
(* tombstone, or NULL.                                                    *)
(***************************************************************************)
MapFindEntry(ent, cap, k) ==
    LET home == hash_string(k) % cap
        at(i) == ent[(home + i) % cap]
        Unused == {i \in 0..cap - 1 : ~at(i).occupied /\ at(i).key = NoKey}
        stop == IF Unused = {} THEN cap ELSE First(Unused)
        Match == {i \in 0..stop - 1 : at(i).occupied /\ at(i).key = k}
        Tomb == {i \in 0..stop - 1 : ~at(i).occupied /\ at(i).key # NoKey}
    IN IF Match # {} THEN (home + First(Match)) % cap
       ELSE IF Tomb # {} THEN (home + First(Tomb)) % cap
       ELSE IF Unused # {} THEN (home + stop) % cap
       ELSE NoSlot

(* One iteration of map_grow's loop, on old slot j and the new array t  *)
(* filled so far: an occupied slot goes where map_find_entry puts its key *)
(* in t; a tombstone or never-used slot is dropped.                      *)
RehashStep(ent, newCap, t, j) ==
    IF ent[j].occupied /\ ent[j].key # NoKey
    THEN [t EXCEPT ![MapFindEntry(t, newCap, ent[j].key)] = ent[j]]
    ELSE t

(* Mutant: the rehash loop stops one slot short. *)
rehash_skips_last(ent, cap, newCap) ==
    LET ins[i \in 0..cap] ==
          IF i = 0 THEN [j \in 0..newCap - 1 |-> EmptySlot]
          ELSE IF i < cap THEN RehashStep(ent, newCap, ins[i - 1], i - 1)
          ELSE ins[i - 1]
    IN [j \in 0..newCap - 1 |-> ins[cap][j]]

(* map_grow: a fresh never-used array of newCap slots, then the loop over *)
(* the old slots in index order.                                          *)
Rehash(ent, cap, newCap) ==
    LET ins[i \in 0..cap] ==
          IF i = 0 THEN [j \in 0..newCap - 1 |-> EmptySlot]
          ELSE RehashStep(ent, newCap, ins[i - 1], i - 1)
    IN [j \in 0..newCap - 1 |-> ins[cap][j]]

(* The occupied slots of an entry array. *)
OccupiedIn(ent) == {i \in DOMAIN ent : ent[i].occupied /\ ent[i].key # NoKey}

(* map_create's loop: capacity starts at 1 and doubles while it is below *)
(* n; dbl[i] is its value after i iterations, and the loop stops at the  *)
(* first i with dbl[i] >= n (some i <= n, as dbl[i] > i).                 *)
RoundUp(n) ==
    LET dbl[i \in 0..n] == IF i = 0 THEN 1 ELSE 2 * dbl[i - 1]
    IN dbl[First({i \in 0..n : dbl[i] >= n})]

Init ==
    /\ capacity = RoundUp(IF InitCapacity = 0 THEN 16 ELSE InitCapacity)
    /\ entries = [i \in 0..capacity - 1 |-> EmptySlot]
    /\ size = 0
    /\ tombstones = 0
    /\ hashOf \in [Keys -> 0..HashRange - 1]
    /\ ret = <<"none", "none">>

(* The grow test of map_set: (size_t)(capacity * 0.75). *)
NeedsGrow == size + tombstones + 1 > (capacity * 3) \div 4

(* The part of map_set after the grow test, on the table it left.  The *)
(* NULL check of the slot is never taken: the grow test leaves at least *)
(* one never-used slot, so map_find_entry returns a slot.              *)
SetInto(ent, cap, sz, k, v) ==
    LET i == MapFindEntry(ent, cap, k) IN
    /\ capacity' = cap
    /\ \/ /\ ent[i].occupied
          /\ entries' = [ent EXCEPT ![i].value = v]
          /\ size' = sz
          /\ ret' = <<"set", "ok">>
       \/ /\ ~ent[i].occupied
          /\ entries' = [ent EXCEPT ![i] = [occupied |-> TRUE, key |-> k,
                                            value |-> v]]
          /\ size' = sz + 1
          /\ ret' = <<"set", "ok">>

(* map_set(k, v), growing first when the load test asks for it. *)
map_set(k, v) ==
    /\ \/ /\ ~NeedsGrow
          /\ SetInto(entries, capacity, size, k, v)
          /\ UNCHANGED tombstones
       \/ /\ NeedsGrow
          /\ 2 * capacity <= MaxCapacity
          /\ LET grown == Rehash(entries, capacity, 2 * capacity) IN
               SetInto(grown, 2 * capacity, Cardinality(OccupiedIn(entries)),
                       k, v)
          /\ tombstones' = 0
    /\ UNCHANGED hashOf

(* map_get(k): NULL on an empty map or a slot that is not occupied. *)
map_get(k) ==
    LET i == MapFindEntry(entries, capacity, k) IN
    /\ ret' = <<"get", IF size # 0 /\ i # NoSlot /\ entries[i].occupied
                       THEN entries[i].value ELSE Missing>>
    /\ UNCHANGED <<entries, capacity, size, tombstones, hashOf>>

(* map_has(k). *)
map_has(k) ==
    LET i == MapFindEntry(entries, capacity, k) IN
    /\ ret' = <<"has", size # 0 /\ i # NoSlot /\ entries[i].occupied>>
    /\ UNCHANGED <<entries, capacity, size, tombstones, hashOf>>

(* Mutant: the key string is freed and cleared on removal. *)
remove_clears_key(k) ==
    LET i == MapFindEntry(entries, capacity, k) IN
    /\ size # 0 /\ i # NoSlot /\ entries[i].occupied
    /\ ret' = <<"remove", entries[i].value>>
    /\ entries' = [entries EXCEPT ![i] = EmptySlot]
    /\ size' = size - 1
    /\ tombstones' = tombstones + 1
    /\ UNCHANGED <<capacity, hashOf>>

(* Mutant: removal without the occupied check. *)
remove_without_occupied_check(k) ==
    LET i == MapFindEntry(entries, capacity, k) IN
    /\ i # NoSlot
    /\ ret' = <<"remove", entries[i].value>>
    /\ entries' = [entries EXCEPT ![i].occupied = FALSE, ![i].value = Missing]
    /\ size' = size - 1
    /\ tombstones' = tombstones + 1
    /\ UNCHANGED <<capacity, hashOf>>

(* map_remove(k): the slot becomes a tombstone, its key kept. *)
map_remove(k) ==
    LET i == MapFindEntry(entries, capacity, k) IN
    \/ /\ \/ size = 0 \/ i = NoSlot \/ ~entries[i].occupied
       /\ ret' = <<"remove", Missing>>
       /\ UNCHANGED <<entries, capacity, size, tombstones, hashOf>>
    \/ /\ size # 0 /\ i # NoSlot /\ entries[i].occupied
       /\ ret' = <<"remove", entries[i].value>>
       /\ entries' = [entries EXCEPT ![i].occupied = FALSE,
                                     ![i].value = Missing]
       /\ size' = size - 1
       /\ tombstones' = tombstones + 1
       /\ UNCHANGED <<capacity, hashOf>>

(* map_iterate with a callback that never stops early: the pairs it is  *)
(* called with.                                                          *)
map_iterate ==
    /\ ret' = <<"iterate", {<<entries[i].key, entries[i].value>> :
                            i \in OccupiedIn(entries)}>>
    /\ UNCHANGED <<entries, capacity, size, tombstones, hashOf>>

(* map_clear: every key freed, every slot never-used again. *)
map_clear ==
    /\ entries' = [i \in 0..capacity - 1 |-> EmptySlot]
    /\ size' = 0
    /\ tombstones' = 0
    /\ ret' = <<"clear", "ok">>
    /\ UNCHANGED <<capacity, hashOf>>

Next ==
    \/ \E k \in Keys, v \in Vals : map_set(k, v)
    \/ \E k \in Keys : map_get(k) \/ map_has(k) \/ map_remove(k)
    \/ map_iterate
    \/ map_clear

Spec == Init /\ [][Next]_vars

-----------------------------------------------------------------------------
(* The map a caller sees: the value of the occupied slot holding a key. *)
AbsDict ==
    [k \in Keys |->
        LET S == {i \in OccupiedIn(entries) : entries[i].key = k}
        IN IF S = {} THEN Missing ELSE entries[CHOOSE i \in S : TRUE].value]

Abs == INSTANCE AbstractMap WITH dict <- AbsDict, ret <- ret

(* Refinement: every call on the table returns what the abstract map    *)
(* returns and changes the map as the abstract call does, across growth, *)
(* tombstones and their reuse, for every pattern of hash collisions.     *)
AbstractMapSpec == Abs!Spec

(* No key is held by two occupied slots: an insertion that reuses a      *)
(* tombstone (map_set after map_remove) must not shadow the key stored   *)
(* further along the probe chain.                                        *)
NoDuplicateKeys ==
    \A i, j \in OccupiedIn(entries) : i # j => entries[i].key # entries[j].key

(* Every occupied key can be found: no never-used slot lies between its  *)
(* home slot and its slot, which map_find_entry's early return needs.    *)
ProbeChainIntact ==
    \A i \in OccupiedIn(entries) :
        LET home == hash_string(entries[i].key) % capacity
            dist == (i - home) % capacity
        IN \A d \in 0..dist - 1 : entries[(home + d) % capacity].key # NoKey

(* map.h / set.h: "size_t tombstones; // Number of deleted entries": the *)
(* counter equals the number of tombstone slots.                         *)
TombstonesCounted ==
    tombstones = Cardinality({i \in DOMAIN entries :
                                ~entries[i].occupied /\ entries[i].key # NoKey})

=============================================================================
