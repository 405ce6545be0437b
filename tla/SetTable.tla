------------------------------ MODULE SetTable ------------------------------
(***************************************************************************)
(* The string Set of src/set.h, implemented in src/unnamed/part_010: the  *)
(* same open-addressing design as the Map, with the string itself in the  *)
(* slot (value NULL: never used; value kept, not occupied: tombstone).    *)
(* Several Set objects are modelled, because set_copy, set_union and      *)
(* set_contains_all read one object while they build or test another.     *)
(* A Set object is a record of the fields of struct Set.                  *)
(*                                                                         *)
(* Strings are model values compared by equality, and hash_string is an   *)
(* arbitrary function fixed in Init.  The rebuild_* allocators exit on    *)
(* failure, so the NULL checks after them are never taken.                *)
(***************************************************************************)
EXTENDS Integers, FiniteSets

CONSTANTS
    SetIds,        \* the Set objects
    Elems,         \* the strings
    NoElem,        \* the NULL value of a never-used slot
    InitCapacity,  \* the argument of set_create for every object
    HashRange,     \* hash_string values are taken from 0..HashRange-1
    MaxCapacity    \* bound: no object grows past this capacity

ASSUME SetAssumption ==
    /\ NoElem \notin Elems
    /\ InitCapacity \in Nat /\ HashRange \in Nat \ {0} /\ MaxCapacity \in Nat

VARIABLES
    sets,    \* Set object -> [entries, capacity, size, tombstones]
    hashOf,  \* hash_string of each string (fixed)
    ret      \* the last call and its result

vars == <<sets, hashOf, ret>>

Entry == [occupied : BOOLEAN, value : Elems \cup {NoElem}]
EmptyEntry == [occupied |-> FALSE, value |-> NoElem]
NoSlot == -1

TypeOK ==
    /\ \A s \in SetIds :
         /\ sets[s].capacity \in Nat \ {0}
         /\ sets[s].entries \in [0..sets[s].capacity - 1 -> Entry]
         /\ sets[s].size \in Nat
         /\ sets[s].tombstones \in Nat
    /\ hashOf \in [Elems -> 0..HashRange - 1]

(* FNV-1a of the string. *)
hash_string(x) == hashOf[x]

(* The least element of a non-empty set of naturals. *)
Least(S) == CHOOSE i \in S : \A j \in S : i <= j

(* Mutant: the first free slot (tombstone or never used) is returned   *)
(* without looking further for x.                                       *)
find_returns_first_free(ent, cap, x) ==
    LET home == hash_string(x) % cap
        at(i) == ent[(home + i) % cap]
        Stops == {i \in 0..cap - 1 : ~at(i).occupied \/ at(i).value = x}
    IN IF Stops = {} THEN NoSlot ELSE (home + Least(Stops)) % cap

(* set_find_entry: the first occupied slot holding x before the first    *)
(* never-used slot, else the first tombstone before it, else that slot; *)
(* on a table without a never-used slot the first tombstone, or NULL.   *)
set_find_entry(ent, cap, x) ==
    LET home == hash_string(x) % cap
        at(i) == ent[(home + i) % cap]
        Unused == {i \in 0..cap - 1 : ~at(i).occupied /\ at(i).value = NoElem}
        stop == IF Unused = {} THEN cap ELSE Least(Unused)
        Match == {i \in 0..stop - 1 : at(i).occupied /\ at(i).value = x}
        Tomb == {i \in 0..stop - 1 : ~at(i).occupied /\ at(i).value # NoElem}
    IN IF Match # {} THEN (home + Least(Match)) % cap
       ELSE IF Tomb # {} THEN (home + Least(Tomb)) % cap
       ELSE IF Unused # {} THEN (home + stop) % cap
       ELSE NoSlot

(* The occupied slots of a table, which the loops of set_grow, set_copy, *)
(* set_union, set_contains_all and set_iterate visit in index order.    *)
Live(t) == {i \in 0..t.capacity - 1 : t.entries[i].occupied
                                      /\ t.entries[i].value # NoElem}

(* set_grow: double, move the occupied slots in index order, drop the   *)
(* tombstones.                                                          *)
set_grow(t) ==
    LET newCap == 2 * t.capacity
        ins[i \in 0..t.capacity] ==
          IF i = 0 THEN [j \in 0..newCap - 1 |-> EmptyEntry]
          ELSE IF i - 1 \in Live(t)
               THEN [ins[i - 1] EXCEPT
                       ![set_find_entry(ins[i - 1], newCap,
                                        t.entries[i - 1].value)] =
                          t.entries[i - 1]]
               ELSE ins[i - 1]
    IN [entries |-> [j \in 0..newCap - 1 |-> ins[t.capacity][j]],
        capacity |-> newCap, size |-> Cardinality(Live(t)), tombstones |-> 0]

(* set_create: a table of capacity rounded up to a power of two. *)
set_create(n) ==
    LET c == CHOOSE c \in {2^i : i \in 0..n} : c >= n /\ (c = 1 \/ c < 2 * n)
    IN [entries |-> [j \in 0..c - 1 |-> EmptyEntry], capacity |-> c,
        size |-> 0, tombstones |-> 0]

(* The grow test of set_add. *)
NeedsGrow(t) == t.size + t.tombstones + 1 > (t.capacity * 3) \div 4

(* set_add on a table: grow when the load test asks, then store x in   *)
(* the slot set_find_entry gives unless it is occupied (x is there).    *)
(* A NULL slot is an error that leaves the (grown) table.               *)
SetAdd(t, x) ==
    LET g == IF NeedsGrow(t) THEN set_grow(t) ELSE t
        i == set_find_entry(g.entries, g.capacity, x)
    IN IF i = NoSlot \/ g.entries[i].occupied THEN g
       ELSE [g EXCEPT !.entries[i] = [occupied |-> TRUE, value |-> x],
                      !.size = @ + 1]

(* The adds of a loop over the occupied slots of o, in index order. *)
AddAll(t, o) ==
    LET u[i \in 0..o.capacity] ==
          IF i = 0 THEN t
          ELSE IF i - 1 \in Live(o) THEN SetAdd(u[i - 1], o.entries[i - 1].value)
          ELSE u[i - 1]
    IN u[o.capacity]

(* set_has on a table. *)
SetHas(t, x) ==
    LET i == set_find_entry(t.entries, t.capacity, x)
    IN t.size # 0 /\ i # NoSlot /\ t.entries[i].occupied

Init ==
    /\ sets = [s \in SetIds |->
                 set_create(IF InitCapacity = 0 THEN 16 ELSE InitCapacity)]
    /\ hashOf \in [Elems -> 0..HashRange - 1]
    /\ ret = <<"none", "none">>

(* The bound on growth, applied to the table a call leaves. *)
Within(t) == t.capacity <= MaxCapacity

set_add(s, x) ==
    /\ Within(SetAdd(sets[s], x))
    /\ sets' = [sets EXCEPT ![s] = SetAdd(@, x)]
    /\ ret' = <<"add", "ok">>
    /\ UNCHANGED hashOf

set_has(s, x) ==
    /\ ret' = <<"has", SetHas(sets[s], x)>>
    /\ UNCHANGED <<sets, hashOf>>

(* Mutant: a removal that does not check the slot is occupied. *)
remove_without_occupied_check(s, x) ==
    LET t == sets[s]
        i == set_find_entry(t.entries, t.capacity, x)
    IN /\ i # NoSlot
       /\ sets' = [sets EXCEPT ![s].entries[i].occupied = FALSE,
                               ![s].size = @ - 1,
                               ![s].tombstones = @ + 1]
       /\ ret' = <<"remove", TRUE>>
       /\ UNCHANGED hashOf

(* set_remove: the slot becomes a tombstone, its string kept. *)
set_remove(s, x) ==
    LET t == sets[s]
        i == set_find_entry(t.entries, t.capacity, x)
    IN /\ \/ /\ \/ t.size = 0 \/ i = NoSlot \/ ~t.entries[i].occupied
             /\ ret' = <<"remove", FALSE>>
             /\ UNCHANGED sets
          \/ /\ t.size # 0 /\ i # NoSlot /\ t.entries[i].occupied
             /\ sets' = [sets EXCEPT ![s].entries[i].occupied = FALSE,
                                     ![s].size = @ - 1,
                                     ![s].tombstones = @ + 1]
             /\ ret' = <<"remove", TRUE>>
       /\ UNCHANGED hashOf

(* set_iterate with a callback that never stops early. *)
set_iterate(s) ==
    /\ ret' = <<"iterate", {sets[s].entries[i].value : i \in Live(sets[s])}>>
    /\ UNCHANGED <<sets, hashOf>>

(* set_clear: every string freed, every slot never-used again. *)
set_clear(s) ==
    /\ sets' = [sets EXCEPT ![s] = [@ EXCEPT
                  !.entries = [j \in DOMAIN @ |-> EmptyEntry],
                  !.size = 0, !.tombstones = 0]]
    /\ ret' = <<"clear", "ok">>
    /\ UNCHANGED hashOf

(* d := set_copy(s): a table created with s's capacity, then every      *)
(* occupied string of s added in index order.                          *)
set_copy(d, s) ==
    LET c == AddAll(set_create(sets[s].capacity), sets[s]) IN
    /\ Within(c)
    /\ sets' = [sets EXCEPT ![d] = c]
    /\ ret' = <<"copy", "ok">>
    /\ UNCHANGED hashOf

(* set_union(s, o): every occupied string of o added to s. *)
set_union(s, o) ==
    LET u == AddAll(sets[s], sets[o]) IN
    /\ Within(u)
    /\ sets' = [sets EXCEPT ![s] = u]
    /\ ret' = <<"union", "ok">>
    /\ UNCHANGED hashOf

(* Mutant: the size shortcut answers false when o is not smaller. *)
contains_all_size_ge(s, o) ==
    LET t == sets[s]
        u == sets[o]
        result == IF u.size = 0 THEN TRUE
                  ELSE IF u.size >= t.size THEN FALSE
                  ELSE \A i \in Live(u) : SetHas(t, u.entries[i].value)
    IN /\ ret' = <<"contains_all", result>>
       /\ UNCHANGED <<sets, hashOf>>

(* set_contains_all(s, o): true at once when o is empty, false at once  *)
(* when o has more strings than s, else set_has of each string of o.   *)
set_contains_all(s, o) ==
    LET t == sets[s]
        u == sets[o]
        result == IF u.size = 0 THEN TRUE
                  ELSE IF u.size > t.size THEN FALSE
                  ELSE \A i \in Live(u) : SetHas(t, u.entries[i].value)
    IN /\ ret' = <<"contains_all", result>>
       /\ UNCHANGED <<sets, hashOf>>

Next ==
    \/ \E s \in SetIds, x \in Elems :
          set_add(s, x) \/ set_has(s, x) \/ set_remove(s, x)
    \/ \E s \in SetIds : set_iterate(s) \/ set_clear(s)
    \/ \E s, o \in SetIds : s # o /\ \/ set_copy(s, o)
                                     \/ set_union(s, o)
                                     \/ set_contains_all(s, o)

Spec == Init /\ [][Next]_vars

-----------------------------------------------------------------------------
(* The strings each object holds. *)
Members == [s \in SetIds |->
              {sets[s].entries[i].value : i \in Live(sets[s])}]

AbsSet == INSTANCE AbstractSet WITH members <- Members, ret <- ret

(* Refinement: every call on the Set objects, including set_union and   *)
(* set_copy that grow a table in the middle of their loop and           *)
(* set_contains_all that decides by comparing the size counters, gives  *)
(* the result and the contents the abstract set operations give.        *)
AbstractSetSpec == AbsSet!Spec

(* No string is held by two occupied slots of one object: set_add's     *)
(* reuse of a tombstone must not shadow the string further along the    *)
(* probe chain.                                                          *)
NoDuplicateValues ==
    \A s \in SetIds : \A i, j \in Live(sets[s]) :
        i # j => sets[s].entries[i].value # sets[s].entries[j].value

=============================================================================
